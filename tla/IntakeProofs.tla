---------------------------- MODULE IntakeProofs ----------------------------
(***************************************************************************)
(* Intake is type correct and implements Admission, for any number of      *)
(* requests, inputs, pools, accounts and events.                           *)
(*                                                                         *)
(* The order of the checks is what matters: RequestInv says for every      *)
(* stage of a handler which checks the order has passed by then, that what *)
(* a lookup sent is true of the tables, and whether the order was answered *)
(* or queued already.                                                      *)
(*                                                                         *)
(* Two more inductive invariants rest on it.  StableInv says what a        *)
(* request that nothing disturbed has computed, in terms of the tables as  *)
(* they are now: quotes are honoured and blacklisted makers kept out.      *)
(* HeaderInv says whose content type is in the shared variable.            *)
(***************************************************************************)
EXTENDS Intake, TLAPS

BeforeAnswer == {"idle", "pool", "header", "decode", "network", "affiliate", "poolFee", "account"}
Queueing == {"answer", "publish"}

RequestInv(r) ==
  /\ pc[r] \in BeforeAnswer => answer[r] = "none" /\ r \notin enqueued
  /\ network[r] = "known" => Exchange(r) \in Exchanges
  /\ affiliate[r] = "known" => Recipient(r) \in Recipients
  /\ CarriesOrder(r) =>
       /\ pc[r] \in {"network", "affiliate", "poolFee", "account"} \cup Queueing
            => input[r].flaws = {}
       /\ pc[r] \in {"affiliate", "poolFee", "account"} \cup Queueing
            => input[r].exchange \in Exchanges
       /\ pc[r] \in {"poolFee", "account"} \cup Queueing
            => input[r].recipient \in Recipients
       /\ pc[r] = "answer" =>
            answer[r] = "none" /\ (input[r].kind = "order" => r \notin enqueued)
  /\ pc[r] = "publish" =>
       /\ r \notin enqueued
       /\ answer[r] = IF input[r].kind = "order" THEN "accepted" ELSE "none"

TypeInv ==
  /\ TypeOK
  /\ \A r \in Requests : /\ pc[r] = "publish" => CarriesOrder(r)
                         /\ pc[r] = "idle" =>
                              network[r] = "off" /\ affiliate[r] = "off" /\ account[r] = "off"
Inv == TypeInv /\ \A r \in Requests : RequestInv(r)

-----------------------------------------------------------------------------
(* The stages.                                                             *)

\* What follows each stage of a handler.
LEMMA AfterStage ==
  ASSUME NEW r \in Requests, input[r] \in Input,
         pc[r] \in {"decode", "network", "affiliate", "poolFee", "account", "answer"}
  PROVE  /\ After(r) \in Stages \ {"idle", "pool", "header", "decode", "aborted"}
         /\ After(r) = "publish" => IsOrder(r)
         /\ pc[r] = "answer" => After(r) \in {"publish", "done"}
         /\ IsOrder(r) => After(r) = CASE pc[r] = "decode" -> "network"
                                       [] pc[r] = "network" -> "affiliate"
                                       [] pc[r] = "affiliate" -> "poolFee"
                                       [] pc[r] = "poolFee" -> "account"
                                       [] pc[r] = "account" ->
                                            (IF input[r].kind = "order" THEN "answer" ELSE "publish")
                                       [] pc[r] = "answer" ->
                                            (IF input[r].kind = "order" THEN "publish" ELSE "done")
<1>1. input[r].kind \in {"order", "postOrder", "fees", "postConfig"}
  BY DEF Input, Kinds, OrderKinds, QuoteKinds
<1>2. CASE input[r].kind = "order"
  BY <1>2 DEF After, OrderStages, Stages, IsOrder, OrderKinds
<1>3. CASE input[r].kind = "postOrder"
  BY <1>3 DEF After, PostOrderStages, Stages, IsOrder, OrderKinds
<1>4. CASE input[r].kind = "fees"
  BY <1>4 DEF After, FeesStages, Stages, IsOrder, OrderKinds
<1>5. CASE input[r].kind = "postConfig"
  BY <1>5 DEF After, PostConfigStages, Stages, IsOrder, OrderKinds
<1> QED BY <1>1, <1>2, <1>3, <1>4, <1>5

\* Publishing is the last step of ingest.Handler, answering that of PostOrder.
LEMMA AfterPublish ==
  ASSUME NEW r \in Requests, input[r].kind \in OrderKinds, pc[r] = "publish"
  PROVE  After(r) = IF input[r].kind = "order" THEN "done" ELSE "answer"
<1>1. CASE input[r].kind = "order"
  BY <1>1 DEF After, OrderStages
<1>2. CASE input[r].kind = "postOrder"
  BY <1>2 DEF After, PostOrderStages
<1> QED BY <1>1, <1>2 DEF OrderKinds

-----------------------------------------------------------------------------
(* Type correctness.                                                       *)

\* A fee is an integer: Pool.Fee and Discount round down.
LEMMA FeeTypes ==
  ASSUME NEW x \in Nat, NEW y \in Nat, NEW u \in Nat \ {0}
  PROVE  (x * y) \div u \in Int
<1>1. x * y \in Int
  OBVIOUS
<1> HIDE <1>1
<1> DEFINE z == x * y
<1>2. z \in Int
  BY <1>1
<1> HIDE DEF z
<1>3. z \div u \in Int
  BY <1>2
<1> QED BY <1>3 DEF z

\* Initially nothing has arrived and every variable has its type.
LEMMA TypeInit == Init => TypeInv
<1> SUFFICES ASSUME Init PROVE TypeInv
  OBVIOUS
<1>1. RequestTypes
  BY IntakeAssumption DEF Init, RequestTypes, Stages, Refusals, Pool
<1>2. LookupTypes
  BY DEF Init, LookupTypes
<1>3. ServiceTypes
  <2>1. accounts \in [Makers -> Account] /\ baseFee \in Nat /\ events \in 0..MaxEvents
    BY IntakeAssumption DEF Init
  <2>2. late \in BOOLEAN
    BY Zenon DEF Init
  <2> QED BY <2>1, <2>2, Zenon DEF ServiceTypes
<1>4. \A r \in Requests :
        pc[r] # "publish" /\ network[r] = "off" /\ affiliate[r] = "off" /\ account[r] = "off"
  BY DEF Init
<1> QED BY <1>1, <1>2, <1>3, <1>4 DEF TypeInv, TypeOK

\* An arrived request carries an input.
LEMMA Arrived ==
  ASSUME RequestTypes, NEW r \in Requests, pc[r] # "idle"
  PROVE  /\ input[r] \in Inputs /\ input[r] \in Input /\ input[r] # NoInput
         /\ CarriesOrder(r) <=> IsOrder(r)
         /\ Maker(r) \in Makers
BY IntakeAssumption DEF RequestTypes, CarriesOrder, IsOrder, Maker, Input

\* Nobody but an operator and the clock changes what is in Redis.
LEMMA ServiceTypesStep ==
  ASSUME ServiceTypes, [Next]_vars
  PROVE  ServiceTypes'
<1>1. CASE UNCHANGED <<accounts, baseFee, late, events>>
  BY <1>1, Zenon DEF ServiceTypes
<1>2. ASSUME NEW r \in Requests, Fault(r), UNCHANGED redis
      PROVE  ServiceTypes'
  <2>1. events' \in 0..MaxEvents
    BY <1>2, IntakeAssumption DEF Fault, ServiceTypes
  <2> QED BY <1>2, <2>1, Zenon DEF ServiceTypes, redis
<1>3. ASSUME Change PROVE events' \in 0..MaxEvents
  BY <1>3, IntakeAssumption DEF Change, ServiceTypes
<1>4. ASSUME NEW b \in BaseFees, SetBaseFee(b) PROVE ServiceTypes'
  <2>1. baseFee' \in Nat
    BY <1>4, IntakeAssumption DEF SetBaseFee
  <2> QED BY <1>3, <1>4, <2>1, Zenon DEF SetBaseFee, ServiceTypes
<1>5. ASSUME NEW m \in Makers, SetDiscount(m) PROVE ServiceTypes'
  <2>1. [bl |-> FALSE, dp |-> 100, ends |-> TRUE] \in Account
    BY DEF Account
  <2>2. accounts' \in [Makers -> Account]
    BY <1>5, <2>1 DEF SetDiscount, ServiceTypes
  <2> QED BY <1>3, <1>5, <2>2, Zenon DEF SetDiscount, ServiceTypes
<1>6. ASSUME Expire PROVE ServiceTypes'
  BY <1>3, <1>6, Zenon DEF Expire, ServiceTypes
<1>7. ASSUME NEW r \in Requests, Handle(r) \/ LookUp(r) \/ Arrive(r)
      PROVE  UNCHANGED <<accounts, baseFee, late, events>>
  BY <1>7 DEF Handle, LookUp, Arrive, Decorate, Header, Decode, DecodePanics, TakeNetwork,
     TakeAffiliate, PoolFee, TakeAccount, Answer, Publish, ReadCache, QueryExchange,
     GetAffiliate, GetAccount, SendAccount, NoFault, redis
<1>8. ASSUME NEW r \in Requests,
             \/ DecorateFails(r) \/ PoolFeeFails(r) \/ PublishFails(r)
             \/ QueryExchangeFails(r) \/ GetAffiliateFails(r) \/ GetAccountFails(r)
      PROVE  Fault(r) /\ UNCHANGED redis
  BY <1>8 DEF DecorateFails, PoolFeeFails, PublishFails, QueryExchangeFails,
     GetAffiliateFails, GetAccountFails, SendAccount, redis
<1>9. ASSUME NEW s \in Servers, MapRace(s) PROVE UNCHANGED <<accounts, baseFee, late, events>>
  BY <1>9 DEF MapRace, NoFault, redis
<1>10. CASE UNCHANGED vars
  BY <1>1, <1>10 DEF vars, redis
<1> QED BY <1>1, <1>2, <1>4, <1>5, <1>6, <1>7, <1>8, <1>9, <1>10 DEF Next

\* Accounts as the lookup sends them, found or made up.
LEMMA AccountSent ==
  ASSUME LookupTypes, NEW r \in Requests, NEW a \in Account, NEW base \in Nat,
         SendAccount(r, a, base)
  PROVE  LookupTypes'
<1>1. [bl |-> a.bl, dp |-> a.dp, ends |-> a.ends, base |-> base]
        \in [bl : BOOLEAN, dp : 0..100, ends : BOOLEAN, base : Nat]
  BY DEF Account
<1> QED BY <1>1 DEF SendAccount, LookupTypes

\* A step of a lookup goroutine keeps the types: what it caches or sends is a
\* value of its channel.
LEMMA LookupTypesStep ==
  ASSUME TypeInv, [Next]_vars
  PROVE  LookupTypes'
<1> USE DEF TypeInv, TypeOK
<1>1. CASE UNCHANGED <<network, affiliate, account, found, cache>>
  BY <1>1 DEF LookupTypes
<1>2. ASSUME NEW r \in Requests,
             \/ Arrive(r) \/ DecorateFails(r) \/ PoolFeeFails(r) \/ PublishFails(r)
             \/ Decorate(r) \/ Header(r) \/ TakeNetwork(r) \/ TakeAffiliate(r)
             \/ PoolFee(r) \/ TakeAccount(r) \/ Answer(r) \/ Publish(r)
      PROVE  UNCHANGED <<network, affiliate, account, found, cache>>
  BY <1>2 DEF Arrive, DecorateFails, PoolFeeFails, PublishFails, Decorate, Header,
     TakeNetwork, TakeAffiliate, PoolFee, TakeAccount, Answer, Publish, lookups
<1>3. ASSUME NEW r \in Requests, Decode(r) \/ DecodePanics(r) PROVE LookupTypes'
  <2>1. UNCHANGED <<found, cache>>
    BY <1>3 DEF Decode, DecodePanics
  <2>2. network' \in [Requests -> {"off", "pending", "missed", "known", "unknown"}]
    BY <1>3 DEF Decode, DecodePanics, LookupTypes
  <2>3. /\ affiliate' \in [Requests -> {"off", "pending", "known", "unknown"}]
        /\ account' \in [Requests -> {"off", "pending", "found"}]
    BY <1>3 DEF Decode, DecodePanics, LookupTypes
  <2> QED BY <2>1, <2>2, <2>3 DEF LookupTypes
<1>4. ASSUME NEW r \in Requests,
             ReadCache(r) \/ QueryExchangeFails(r) \/ GetAffiliate(r) \/ GetAffiliateFails(r)
      PROVE  LookupTypes'
  BY <1>4 DEF ReadCache, QueryExchangeFails, GetAffiliate, GetAffiliateFails, NilOnError,
     LookupTypes
<1>5. ASSUME NEW r \in Requests, QueryExchange(r) PROVE LookupTypes'
  BY <1>5 DEF QueryExchange, Remember, LookupTypes
<1>6. ASSUME NEW r \in Requests, GetAccount(r) PROVE LookupTypes'
  <2>1. pc[r] # "idle"
    BY <1>6 DEF GetAccount, SendAccount
  <2>2. accounts[Maker(r)] \in Account /\ baseFee \in Nat
    BY <2>1, Arrived DEF ServiceTypes
  <2> QED BY <1>6, <2>2, AccountSent DEF GetAccount
<1>7. ASSUME NEW r \in Requests, GetAccountFails(r) PROVE LookupTypes'
  <2>1. [bl |-> FALSE, dp |-> 0, ends |-> FALSE] \in Account
    BY DEF Account
  <2> QED BY <1>7, <2>1, AccountSent DEF GetAccountFails
<1>8. ASSUME NEW s \in Servers, MapRace(s) PROVE LookupTypes'
  BY <1>8 DEF MapRace, LookupTypes
<1>9. ASSUME Change PROVE UNCHANGED <<network, affiliate, account, found, cache>>
  BY <1>9 DEF Change, lookups
<1>10. CASE UNCHANGED vars
  BY <1>1, <1>10 DEF vars, lookups
<1> QED BY <1>1, <1>2, <1>3, <1>4, <1>5, <1>6, <1>7, <1>8, <1>9, <1>10
        DEF Next, Handle, LookUp, SetBaseFee, SetDiscount, Expire

\* What TypeInv says of the stages, beyond the types.
StageInv == \A r \in Requests : /\ pc[r] = "publish" => CarriesOrder(r)
                                /\ pc[r] = "idle" =>
                                     network[r] = "off" /\ affiliate[r] = "off" /\ account[r] = "off"

\* A handler that goes on or ends stays within its stages.
LEMMA HandlerStep ==
  ASSUME TypeInv, NEW r \in Requests, pc[r] # "idle",
         NEW stage \in Stages \ {"idle"}, stage = "publish" => CarriesOrder(r),
         pc' = [pc EXCEPT ![r] = stage],
         NEW a \in Refusals \cup {"none", "accepted", "quoted", "unknown"},
         answer' = [answer EXCEPT ![r] = a] \/ UNCHANGED answer,
         UNCHANGED <<input, contentType>>,
         pool' \in [Requests -> Pool], minFee' \in [Requests -> Int],
         enqueued' \subseteq Requests, stable' \subseteq Requests, overlapped' \subseteq Requests,
         \A q \in Requests : pc[q] = "idle" =>
            network'[q] = "off" /\ affiliate'[q] = "off" /\ account'[q] = "off"
  PROVE  RequestTypes' /\ StageInv'
<1>1. pc' \in [Requests -> Stages] /\ \A q \in Requests : pc'[q] = IF q = r THEN stage ELSE pc[q]
  BY DEF TypeInv, TypeOK, RequestTypes
<1>2. \A q \in Requests : pc'[q] = "idle" <=> input'[q] = NoInput
  BY <1>1 DEF TypeInv, TypeOK, RequestTypes
<1>3. answer' \in [Requests -> Refusals \cup {"none", "accepted", "quoted", "unknown"}]
  BY DEF TypeInv, TypeOK, RequestTypes
<1>4. RequestTypes'
  BY <1>1, <1>2, <1>3 DEF TypeInv, TypeOK, RequestTypes
<1>5. StageInv'
  BY <1>1 DEF TypeInv, StageInv, CarriesOrder
<1> QED BY <1>4, <1>5

\* A step of a request's own goroutine keeps the types: it goes on to a stage of
\* its handler, with the order that was decoded.
LEMMA RequestTypesStep ==
  ASSUME TypeInv, [Next]_vars
  PROVE  RequestTypes' /\ StageInv'
<1> DEFINE Answers == Refusals \cup {"none", "accepted", "quoted", "unknown"}
           Idle == \A q \in Requests : pc[q] = "idle" =>
                     network'[q] = "off" /\ affiliate'[q] = "off" /\ account'[q] = "off"
<1> USE DEF TypeInv, TypeOK
<1>1. ASSUME UNCHANGED Handler, stable' \subseteq Requests, Idle
      PROVE  RequestTypes' /\ StageInv'
  BY <1>1 DEF Handler, RequestTypes, StageInv, CarriesOrder
<1>2. ASSUME NEW r \in Requests, Arrive(r) PROVE RequestTypes' /\ StageInv'
  <2>1. PICK i \in Inputs : input' = [input EXCEPT ![r] = i]
    BY <1>2 DEF Arrive
  <2>2. \A q \in Requests : /\ pc'[q] = IF q = r THEN "pool" ELSE pc[q]
                            /\ input'[q] = IF q = r THEN i ELSE input[q]
    BY <1>2, <2>1 DEF Arrive, Goto, RequestTypes
  <2>3. RequestTypes'
    <3>1. pc' \in [Requests -> Stages] /\ input' \in [Requests -> Inputs \cup {NoInput}]
      BY <1>2, <2>1 DEF Arrive, Goto, RequestTypes, Stages
    <3>2. \A q \in Requests : pc'[q] = "idle" <=> input'[q] = NoInput
      BY <2>2, IntakeAssumption DEF RequestTypes
    <3> QED BY <1>2, <3>1, <3>2 DEF Arrive, RequestTypes
  <2>4. StageInv'
    BY <1>2, <2>2 DEF Arrive, StageInv, CarriesOrder, lookups
  <2> QED BY <2>3, <2>4
<1>3. ASSUME NEW r \in Requests, Decorate(r) \/ DecorateFails(r)
      PROVE  RequestTypes' /\ StageInv'
  <2>1. /\ pc[r] = "pool" /\ UNCHANGED <<input, contentType, minFee, enqueued, lookups>>
        /\ stable' \subseteq Requests
    BY <1>3 DEF Decorate, DecorateFails, NoFault, Fault, RequestTypes
  <2>2. pool' \in [Requests -> Pool]
    BY <1>3, IntakeAssumption DEF Decorate, DecorateFails, RequestTypes
  <2>3. overlapped' \subseteq Requests
    BY <1>3 DEF Decorate, DecorateFails, Enter, RequestTypes
  <2>4. PICK stage \in {"header", "decode", "done"} :
          /\ pc' = [pc EXCEPT ![r] = stage]
          /\ answer' = [answer EXCEPT ![r] = "refused"] \/ UNCHANGED answer
    BY <1>3 DEF Decorate, DecorateFails, Enter, Goto, Finish
  <2>5. Idle /\ minFee' \in [Requests -> Int] /\ enqueued' \subseteq Requests
    BY <2>1 DEF RequestTypes, lookups
  <2>6. stage \in Stages \ {"idle"} /\ stage # "publish" /\ "refused" \in Answers
    BY DEF Stages, Refusals
  <2> QED BY <2>1, <2>2, <2>3, <2>4, <2>5, <2>6, HandlerStep
<1>4. ASSUME NEW r \in Requests, Header(r) PROVE RequestTypes' /\ StageInv'
  <2>1. input[r] \in Input
    BY <1>4, Arrived DEF Header
  <2>2. contentType' \in {"none", "json", "octet", "unknown"}
    BY <1>4, <2>1 DEF Header, OwnType, Input
  <2>3. \A q \in Requests : pc'[q] = IF q = r THEN "decode" ELSE pc[q]
    BY <1>4 DEF Header, Goto, RequestTypes
  <2>4. pc' \in [Requests -> Stages]
    BY <1>4 DEF Header, Goto, RequestTypes, Stages
  <2>5. \A q \in Requests : pc'[q] = "idle" <=> input'[q] = NoInput
    BY <1>4, <2>3 DEF Header, RequestTypes
  <2>6. RequestTypes'
    BY <1>4, <2>2, <2>4, <2>5 DEF Header, NoFault, RequestTypes
  <2> QED BY <1>4, <2>3, <2>6 DEF Header, StageInv, CarriesOrder, lookups
<1>5. ASSUME NEW r \in Requests, Decode(r) \/ DecodePanics(r)
      PROVE  RequestTypes' /\ StageInv'
  <2>1. /\ pc[r] = "decode" /\ UNCHANGED <<input, contentType, minFee, enqueued, pool, stable, overlapped>>
    BY <1>5 DEF Decode, DecodePanics, NoFault
  <2>2. \A q \in Requests \ {r} : network'[q] = network[q] /\ affiliate'[q] = affiliate[q]
                                  /\ account'[q] = account[q]
    BY <1>5 DEF Decode, DecodePanics, LookupTypes, lookups
  <2>3. PICK stage \in {"aborted", "done", After(r)}, a \in Refusals :
          /\ pc' = [pc EXCEPT ![r] = stage]
          /\ answer' = [answer EXCEPT ![r] = a] \/ UNCHANGED answer
    BY <1>5 DEF Decode, DecodePanics, Proceed, Goto, Finish, Refusals
  <2>4. After(r) \in Stages \ {"idle"} /\ (After(r) = "publish" => CarriesOrder(r))
    BY <2>1, AfterStage, Arrived
  <2>5. Idle /\ minFee' \in [Requests -> Int] /\ enqueued' \subseteq Requests
        /\ pool' \in [Requests -> Pool] /\ stable' \subseteq Requests /\ overlapped' \subseteq Requests
    BY <2>1, <2>2 DEF RequestTypes
  <2>6. stage \in Stages \ {"idle"} /\ (stage = "publish" => CarriesOrder(r)) /\ a \in Answers
    BY <2>4 DEF Stages
  <2> QED BY <2>1, <2>3, <2>5, <2>6, HandlerStep
<1>6. ASSUME NEW r \in Requests, TakeNetwork(r) \/ TakeAffiliate(r) \/ Answer(r) \/ PoolFeeFails(r)
      PROVE  RequestTypes' /\ StageInv'
  <2>1. /\ pc[r] \in {"network", "affiliate", "poolFee", "answer"}
        /\ UNCHANGED <<input, contentType, minFee, enqueued, pool, lookups, overlapped>>
        /\ stable' \subseteq Requests
    BY <1>6 DEF TakeNetwork, TakeAffiliate, Answer, PoolFeeFails, NoFault, Fault, RequestTypes
  <2>2. PICK stage \in {"done", After(r)}, a \in {"refused", "accepted", "quoted"} :
          /\ pc' = [pc EXCEPT ![r] = stage]
          /\ answer' = [answer EXCEPT ![r] = a] \/ UNCHANGED answer
    BY <1>6 DEF TakeNetwork, TakeAffiliate, Answer, PoolFeeFails, Proceed, Goto, Finish
  <2>3. After(r) \in Stages \ {"idle"} /\ (After(r) = "publish" => CarriesOrder(r))
    BY <2>1, AfterStage, Arrived
  <2>4. Idle /\ minFee' \in [Requests -> Int] /\ enqueued' \subseteq Requests
        /\ pool' \in [Requests -> Pool] /\ overlapped' \subseteq Requests
    BY <2>1 DEF RequestTypes, lookups
  <2>5. stage \in Stages \ {"idle"} /\ (stage = "publish" => CarriesOrder(r)) /\ a \in Answers
    BY <2>3 DEF Stages, Refusals
  <2> QED BY <2>1, <2>2, <2>4, <2>5, HandlerStep
<1>7. ASSUME NEW r \in Requests, PoolFee(r) PROVE RequestTypes' /\ StageInv'
  <2>1. /\ pc[r] = "poolFee"
        /\ UNCHANGED <<input, contentType, enqueued, pool, lookups, overlapped, stable, answer>>
        /\ pc' = [pc EXCEPT ![r] = After(r)]
    BY <1>7 DEF PoolFee, NoFault, Proceed, Goto
  <2>2. (baseFee * pool[r].share) \div Unit \in Int
    <3>1. pool[r].share \in Nat /\ baseFee \in Nat /\ Unit \in Nat \ {0}
      BY IntakeAssumption DEF RequestTypes, ServiceTypes, Pool
    <3> QED BY <3>1, FeeTypes
  <2>3. minFee' \in [Requests -> Int]
    BY <1>7, <2>2 DEF PoolFee, RequestTypes
  <2>4. After(r) \in Stages \ {"idle"} /\ (After(r) = "publish" => CarriesOrder(r))
    BY <2>1, AfterStage, Arrived
  <2>5. Idle /\ enqueued' \subseteq Requests /\ stable' \subseteq Requests
        /\ pool' \in [Requests -> Pool] /\ overlapped' \subseteq Requests
    BY <2>1 DEF RequestTypes, lookups
  <2>6. pc[r] # "idle" /\ UNCHANGED <<input, contentType>> /\ UNCHANGED answer /\ "none" \in Answers
    BY <2>1
  <2> QED BY <2>1, <2>3, <2>4, <2>5, <2>6, HandlerStep
<1>8. ASSUME NEW r \in Requests, TakeAccount(r) PROVE RequestTypes' /\ StageInv'
  <2>1. /\ pc[r] = "account"
        /\ UNCHANGED <<input, contentType, enqueued, pool, lookups, overlapped, stable>>
    BY <1>8 DEF TakeAccount, NoFault
  <2>2. PICK stage \in {"done", After(r)}, a \in {"fee", "accepted"} :
          /\ pc' = [pc EXCEPT ![r] = stage]
          /\ answer' = [answer EXCEPT ![r] = a] \/ UNCHANGED answer
    BY <1>8 DEF TakeAccount, Proceed, Goto, Finish
  <2>3. Due(r) \in Int
    <3>1. found[r].base \in Nat /\ found[r].dp \in Nat /\ minFee[r] \in Int
      <4>1. found[r] \in [bl : BOOLEAN, dp : 0..100, ends : BOOLEAN, base : Nat]
        BY DEF LookupTypes
      <4>2. found[r].base \in Nat /\ found[r].dp \in 0..100
        BY <4>1
      <4> QED BY <4>2 DEF RequestTypes
    <3>2. (found[r].base * found[r].dp) \div 100 \in Int
      BY <3>1, FeeTypes
    <3>3. Discount(found[r]) \in Int
      <4> DEFINE d == (found[r].base * found[r].dp) \div 100
      <4>1. d \in Int
        BY <3>2
      <4>2. Discount(found[r]) = IF found[r].ends /\ late THEN 0 ELSE d
        BY DEF Discount
      <4> HIDE DEF d
      <4>3. (IF found[r].ends /\ late THEN 0 ELSE d) \in {0, d}
        BY Zenon
      <4> QED BY <4>1, <4>2, <4>3
    <3> QED BY <3>1, <3>3 DEF Due
  <2>4. minFee' \in [Requests -> Int]
    BY <1>8, <2>3 DEF TakeAccount, RequestTypes
  <2>5. After(r) \in Stages \ {"idle"} /\ (After(r) = "publish" => CarriesOrder(r))
    BY <2>1, AfterStage, Arrived
  <2>6. Idle /\ enqueued' \subseteq Requests /\ stable' \subseteq Requests
        /\ pool' \in [Requests -> Pool] /\ overlapped' \subseteq Requests
    BY <2>1 DEF RequestTypes, lookups
  <2>7. stage \in Stages \ {"idle"} /\ (stage = "publish" => CarriesOrder(r)) /\ a \in Answers
    BY <2>5 DEF Stages, Refusals
  <2> QED BY <2>1, <2>2, <2>4, <2>6, <2>7, HandlerStep
<1>9. ASSUME NEW r \in Requests, Publish(r) \/ PublishFails(r)
      PROVE  RequestTypes' /\ StageInv'
  <2>1. /\ pc[r] = "publish"
        /\ UNCHANGED <<input, contentType, minFee, pool, lookups, overlapped>>
        /\ stable' \subseteq Requests /\ enqueued' \subseteq Requests
    BY <1>9 DEF Publish, PublishFails, NoFault, Fault, RequestTypes
  <2>2. PICK stage \in {"done", After(r)} :
          /\ pc' = [pc EXCEPT ![r] = stage]
          /\ answer' = [answer EXCEPT ![r] = "unknown"] \/ UNCHANGED answer
    BY <1>9 DEF Publish, PublishFails, Proceed, Goto, Finish
  <2>3. After(r) \in {"done", "answer"}
    BY <2>1, AfterPublish DEF CarriesOrder
  <2>4. Idle /\ minFee' \in [Requests -> Int]
        /\ pool' \in [Requests -> Pool] /\ overlapped' \subseteq Requests
    BY <2>1 DEF RequestTypes, lookups
  <2>5. stage \in Stages \ {"idle"} /\ stage # "publish" /\ "unknown" \in Answers
    BY <2>3 DEF Stages
  <2> QED BY <2>1, <2>2, <2>4, <2>5, HandlerStep
<1>10. ASSUME NEW r \in Requests,
              \/ ReadCache(r) \/ QueryExchange(r) \/ QueryExchangeFails(r)
              \/ GetAffiliate(r) \/ GetAffiliateFails(r)
              \/ GetAccount(r) \/ GetAccountFails(r)
       PROVE  RequestTypes' /\ StageInv'
  <2>1. UNCHANGED Handler /\ stable' \subseteq Requests
    BY <1>10 DEF ReadCache, QueryExchange, QueryExchangeFails, GetAffiliate, GetAffiliateFails,
       GetAccount, GetAccountFails, SendAccount, NoFault, Fault, RequestTypes
  <2>2. Idle
    BY <1>10 DEF ReadCache, QueryExchange, QueryExchangeFails, GetAffiliate, GetAffiliateFails,
       GetAccount, GetAccountFails, SendAccount, LookupTypes
  <2> QED BY <1>1, <2>1, <2>2
<1>11. ASSUME NEW s \in Servers, MapRace(s) PROVE RequestTypes' /\ StageInv'
  <2>1. \A q \in Requests : pc'[q] = pc[q] \/ (pc[q] # "idle" /\ pc'[q] = "aborted")
    BY <1>11 DEF MapRace, OnServer
  <2>2. pc' \in [Requests -> Stages]
    BY <1>11 DEF MapRace, RequestTypes, Stages
  <2>3. RequestTypes'
    BY <1>11, <2>1, <2>2 DEF MapRace, NoFault, RequestTypes
  <2>4. StageInv'
    BY <1>11, <2>1 DEF MapRace, StageInv, CarriesOrder, OnServer
  <2> QED BY <2>3, <2>4
<1>12. ASSUME Change PROVE RequestTypes' /\ StageInv'
  BY <1>1, <1>12 DEF Change, lookups
<1>13. CASE UNCHANGED vars
  BY <1>1, <1>13 DEF vars, Handler, lookups, RequestTypes
<1> QED BY <1>2, <1>3, <1>4, <1>5, <1>6, <1>7, <1>8, <1>9, <1>10, <1>11, <1>12, <1>13
        DEF Next, Handle, LookUp, SetBaseFee, SetDiscount, Expire

\* Every step keeps the types, those of Redis, the tools and the faults included.
LEMMA TypeStep == TypeInv /\ [Next]_vars => TypeInv'
<1> SUFFICES ASSUME TypeInv, [Next]_vars PROVE TypeInv'
  OBVIOUS
<1>1. ServiceTypes'
  BY ServiceTypesStep DEF TypeInv, TypeOK
<1> QED BY <1>1, LookupTypesStep, RequestTypesStep DEF TypeInv, TypeOK, StageInv

\* The handlers, their lookups and the services are typed in every state of
\* every behaviour, faults, server ends and operators included.
THEOREM TypeCorrect == Spec => []TypeOK
<1>1. TypeInv => TypeOK
  BY DEF TypeInv
<1> QED BY <1>1, TypeInit, TypeStep, PTL DEF Spec

-----------------------------------------------------------------------------
(* What the order has passed by each stage.                                *)

\* A request that a step leaves alone keeps what is known of it.
LEMMA RequestFrame ==
  ASSUME NEW q \in Requests, RequestInv(q),
         pc'[q] = pc[q], input'[q] = input[q], answer'[q] = answer[q],
         network'[q] = network[q], affiliate'[q] = affiliate[q],
         q \in enqueued' <=> q \in enqueued
  PROVE  RequestInv(q)'
BY DEF RequestInv, CarriesOrder, Exchange, Recipient

\* A handler's own step leaves its lookups and every other request alone.
LEMMA OthersFrame ==
  ASSUME Inv, NEW r \in Requests, RequestInv(r)', UNCHANGED input,
         NEW stage, pc' = [pc EXCEPT ![r] = stage],
         NEW a, answer' = [answer EXCEPT ![r] = a] \/ UNCHANGED answer,
         \A q \in Requests \ {r} : network'[q] = network[q] /\ affiliate'[q] = affiliate[q],
         enqueued' \in {enqueued, enqueued \cup {r}}
  PROVE  \A q \in Requests : RequestInv(q)'
<1> SUFFICES ASSUME NEW q \in Requests, q # r PROVE RequestInv(q)'
  OBVIOUS
<1>1. pc'[q] = pc[q] /\ answer'[q] = answer[q] /\ (q \in enqueued' <=> q \in enqueued)
  BY DEF Inv, TypeInv, TypeOK, RequestTypes
<1> QED BY <1>1, RequestFrame DEF Inv

\* A handler that has ended has nothing left to show.
LEMMA Ended ==
  ASSUME NEW r \in Requests, RequestInv(r), pc'[r] \in {"done", "aborted"}, UNCHANGED input,
         network'[r] = "known" => network[r] = "known",
         affiliate'[r] = "known" => affiliate[r] = "known"
  PROVE  RequestInv(r)'
BY DEF RequestInv, BeforeAnswer, Queueing, CarriesOrder, Exchange, Recipient

\* An order that is not refused has no flaw, and its exchange and recipient
\* are those that the lookups are asked about.
LEMMA Flawless ==
  ASSUME NEW r \in Requests, input[r] \in Inputs, CarriesOrder(r)
  PROVE  /\ ~Refuses(input[r]) /\ ~Panics(r) => input[r].flaws = {}
         /\ input[r].flaws = {} => Exchange(r) = input[r].exchange
         /\ Recipient(r) = input[r].recipient
<1>1. input[r].flaws \subseteq OrderFlaws /\ input[r].kind \in {"order", "postOrder"}
  BY IntakeAssumption DEF CarriesOrder, OrderKinds
<1>2. OrderChecks = OrderFlaws \ {"short"} /\ PostOrderChecks = OrderFlaws \ {"short"}
  BY DEF OrderChecks, PostOrderChecks, OrderFlaws
<1>3. ~Refuses(input[r]) => input[r].flaws \cap (OrderFlaws \ {"short"}) = {}
  <2>1. CASE input[r].kind = "order"
    BY <1>2, <2>1 DEF Refuses
  <2>2. CASE input[r].kind = "postOrder"
    BY <1>2, <2>2 DEF Refuses
  <2> QED BY <1>1, <2>1, <2>2
<1>4. ~Panics(r) => "short" \notin input[r].flaws
  BY <1>1 DEF Panics, IsOrder, OrderKinds
<1> QED BY <1>1, <1>3, <1>4 DEF Exchange, Recipient

\* No request has passed a check, been answered or been queued at first.
LEMMA InvInit == Init => Inv
<1> SUFFICES ASSUME Init PROVE Inv
  OBVIOUS
<1>1. \A r \in Requests : /\ pc[r] = "idle" /\ answer[r] = "none" /\ r \notin enqueued
                          /\ network[r] = "off" /\ affiliate[r] = "off" /\ input[r] = NoInput
  BY DEF Init
<1> QED BY <1>1, TypeInit DEF Inv, RequestInv, CarriesOrder

\* Every step keeps what the stages say of the checks an order has passed, of
\* what its lookups have sent, and of its answer and its place on the queue.
LEMMA InvStep == Inv /\ [Next]_vars => Inv'
<1> SUFFICES ASSUME Inv, [Next]_vars PROVE \A q \in Requests : RequestInv(q)'
  BY TypeStep DEF Inv
<1> USE DEF Inv, TypeInv, TypeOK
<1>1. CASE UNCHANGED <<pc, input, answer, network, affiliate, enqueued>>
  BY <1>1, RequestFrame
<1>2. ASSUME NEW r \in Requests, Arrive(r) PROVE \A q \in Requests : RequestInv(q)'
  <2>1. /\ pc[r] = "idle" /\ UNCHANGED <<answer, enqueued, network, affiliate>>
        /\ pc'[r] = "pool"
        /\ \A q \in Requests \ {r} : pc'[q] = pc[q] /\ input'[q] = input[q]
    BY <1>2 DEF Arrive, Goto, RequestTypes, lookups
  <2>2. RequestInv(r)'
    BY <2>1 DEF RequestInv, BeforeAnswer, Queueing
  <2> QED BY <2>1, <2>2, RequestFrame
<1>3. ASSUME NEW r \in Requests, Decorate(r) \/ DecorateFails(r) \/ Header(r)
      PROVE  \A q \in Requests : RequestInv(q)'
  <2>1. /\ pc[r] \in {"pool", "header"} /\ UNCHANGED <<input, enqueued, network, affiliate>>
    BY <1>3 DEF Decorate, DecorateFails, Header, lookups
  <2>2. \/ /\ pc' = [pc EXCEPT ![r] = "done"] /\ answer' = [answer EXCEPT ![r] = "refused"]
        \/ /\ pc' = [pc EXCEPT ![r] = "header"] \/ pc' = [pc EXCEPT ![r] = "decode"]
           /\ UNCHANGED answer
    BY <1>3 DEF Decorate, DecorateFails, Header, Enter, Goto, Finish
  <2>3. CASE pc' = [pc EXCEPT ![r] = "done"]
    <3>1. pc'[r] = "done"
      BY <2>3 DEF RequestTypes
    <3>2. RequestInv(r)'
      BY <2>1, <3>1, Ended
    <3>3. PICK a : answer' = [answer EXCEPT ![r] = a] \/ UNCHANGED answer
      BY <2>2
    <3> QED BY <2>1, <2>3, <3>2, <3>3, OthersFrame
  <2>4. ASSUME NEW stage \in {"header", "decode"}, pc' = [pc EXCEPT ![r] = stage], UNCHANGED answer
        PROVE  \A q \in Requests : RequestInv(q)'
    <3>1. pc'[r] = stage
      BY <2>4 DEF RequestTypes
    <3>2. RequestInv(r)'
      BY <2>1, <2>4, <3>1 DEF RequestInv, BeforeAnswer, Queueing, CarriesOrder, Exchange, Recipient
    <3> QED BY <2>1, <2>4, <3>2, OthersFrame
  <2> QED BY <2>2, <2>3, <2>4
<1>4. ASSUME NEW r \in Requests, Decode(r) \/ DecodePanics(r)
      PROVE  \A q \in Requests : RequestInv(q)'
  <2>1. /\ pc[r] = "decode" /\ UNCHANGED <<input, enqueued>>
        /\ \A q \in Requests \ {r} : network'[q] = network[q] /\ affiliate'[q] = affiliate[q]
        /\ network'[r] = "known" => network[r] = "known"
        /\ affiliate'[r] = "known" => affiliate[r] = "known"
    BY <1>4 DEF Decode, DecodePanics, LookupTypes, lookups
  <2>2. \/ /\ pc' = [pc EXCEPT ![r] = "aborted"] /\ UNCHANGED answer
        \/ /\ pc' = [pc EXCEPT ![r] = "done"]
           /\ answer' = [answer EXCEPT ![r] = "malformed"] \/ answer' = [answer EXCEPT ![r] = "refused"]
        \/ /\ pc' = [pc EXCEPT ![r] = After(r)] /\ UNCHANGED answer
           /\ ~Refuses(input[r]) /\ ~Panics(r)
    BY <1>4 DEF Decode, DecodePanics, Goto, Finish, Proceed
  <2>3. ASSUME NEW stage \in {"done", "aborted"}, pc' = [pc EXCEPT ![r] = stage]
        PROVE  \A q \in Requests : RequestInv(q)'
    <3>1. pc'[r] = stage
      BY <2>3 DEF RequestTypes
    <3>2. RequestInv(r)'
      BY <2>1, <3>1, Ended
    <3>3. PICK a : answer' = [answer EXCEPT ![r] = a] \/ UNCHANGED answer
      BY <2>2
    <3> QED BY <2>1, <2>3, <3>2, <3>3, OthersFrame
  <2>4. CASE /\ pc' = [pc EXCEPT ![r] = After(r)] /\ UNCHANGED answer
             /\ ~Refuses(input[r]) /\ ~Panics(r)
    <3>1. /\ pc'[r] = After(r)
          /\ CarriesOrder(r) => After(r) = "network" /\ input[r].flaws = {}
          /\ After(r) # "publish" \/ CarriesOrder(r)
      BY <2>1, <2>4, AfterStage, Arrived, Flawless DEF RequestTypes
    <3>2. RequestInv(r)'
      BY <2>1, <2>4, <3>1 DEF RequestInv, BeforeAnswer, Queueing, CarriesOrder, Exchange, Recipient
    <3> QED BY <2>1, <2>4, <3>2, OthersFrame
  <2> QED BY <2>2, <2>3, <2>4
<1>5. ASSUME NEW r \in Requests, \/ TakeNetwork(r) \/ TakeAffiliate(r) \/ PoolFee(r)
                                 \/ PoolFeeFails(r) \/ TakeAccount(r)
      PROVE  \A q \in Requests : RequestInv(q)'
  <2>1. /\ pc[r] \in {"network", "affiliate", "poolFee", "account"}
        /\ UNCHANGED <<input, enqueued, network, affiliate>>
    BY <1>5 DEF TakeNetwork, TakeAffiliate, PoolFee, PoolFeeFails, TakeAccount, lookups
  <2>2. \/ /\ pc' = [pc EXCEPT ![r] = "done"]
           /\ \E a \in {"refused", "fee", "accepted"} : answer' = [answer EXCEPT ![r] = a]
        \/ /\ pc' = [pc EXCEPT ![r] = After(r)] /\ UNCHANGED answer
           /\ pc[r] = "network" => network[r] = "known" \/ input[r].kind = "fees"
           /\ pc[r] = "affiliate" => affiliate[r] = "known"
    BY <1>5 DEF TakeNetwork, TakeAffiliate, PoolFee, PoolFeeFails, TakeAccount, Goto, Finish, Proceed
  <2>3. CASE pc' = [pc EXCEPT ![r] = "done"]
    <3>1. pc'[r] = "done"
      BY <2>3 DEF RequestTypes
    <3>2. RequestInv(r)'
      BY <2>1, <3>1, Ended
    <3>3. PICK a : answer' = [answer EXCEPT ![r] = a] \/ UNCHANGED answer
      BY <2>2
    <3> QED BY <2>1, <2>3, <3>2, <3>3, OthersFrame
  <2>4. CASE /\ pc' = [pc EXCEPT ![r] = After(r)] /\ UNCHANGED answer
             /\ pc[r] = "network" => network[r] = "known" \/ input[r].kind = "fees"
             /\ pc[r] = "affiliate" => affiliate[r] = "known"
    <3>1. /\ pc'[r] = After(r) /\ input[r] \in Inputs /\ input[r] \in Input
          /\ CarriesOrder(r) <=> IsOrder(r)
          /\ CarriesOrder(r) => input[r].kind # "fees"
      BY <2>1, <2>4, Arrived DEF RequestTypes, IsOrder, OrderKinds
    <3>2. answer[r] = "none" /\ r \notin enqueued
      BY <2>1 DEF RequestInv, BeforeAnswer
    <3>3. ASSUME ~CarriesOrder(r) PROVE RequestInv(r)'
      <4>1. After(r) # "publish"
        BY <2>1, <3>1, <3>3, AfterStage
      <4> QED BY <2>1, <2>4, <3>1, <3>2, <3>3, <4>1
              DEF RequestInv, BeforeAnswer, Queueing, CarriesOrder, Exchange, Recipient
    <3>4. ASSUME CarriesOrder(r) PROVE RequestInv(r)'
      <4>1. /\ input[r].flaws = {} /\ Exchange(r) = input[r].exchange
            /\ Recipient(r) = input[r].recipient
        BY <2>1, <3>1, <3>4, Flawless DEF RequestInv
      <4>2. /\ pc[r] = "network" => After(r) = "affiliate" /\ input[r].exchange \in Exchanges
            /\ pc[r] = "affiliate" => After(r) = "poolFee" /\ input[r].recipient \in Recipients
            /\ pc[r] = "poolFee" => After(r) = "account"
            /\ pc[r] = "account" => After(r) = IF input[r].kind = "order" THEN "answer" ELSE "publish"
        BY <2>1, <2>4, <3>1, <3>4, <4>1, AfterStage DEF RequestInv
      <4>3. /\ After(r) \in {"affiliate", "poolFee", "account", "answer", "publish"}
            /\ After(r) = "publish" => input[r].kind # "order"
            /\ input[r].exchange \in Exchanges
            /\ After(r) # "affiliate" => input[r].recipient \in Recipients
        BY <2>1, <3>4, <4>2 DEF RequestInv
      <4> QED BY <2>1, <2>4, <3>1, <3>2, <3>4, <4>1, <4>3
              DEF RequestInv, BeforeAnswer, Queueing, CarriesOrder, Exchange, Recipient
    <3> QED BY <2>1, <2>4, <3>3, <3>4, OthersFrame
  <2> QED BY <2>2, <2>3, <2>4
<1>6. ASSUME NEW r \in Requests, Answer(r) PROVE \A q \in Requests : RequestInv(q)'
  <2>1. /\ pc[r] = "answer" /\ UNCHANGED <<input, enqueued, network, affiliate>>
        /\ pc' = [pc EXCEPT ![r] = After(r)]
        /\ answer' = [answer EXCEPT ![r] = IF IsOrder(r) THEN "accepted" ELSE "quoted"]
    BY <1>6 DEF Answer, Goto, lookups
  <2>2. /\ pc'[r] = After(r) /\ answer'[r] = IF IsOrder(r) THEN "accepted" ELSE "quoted"
        /\ input[r] \in Input /\ (CarriesOrder(r) <=> IsOrder(r))
    BY <2>1, Arrived DEF RequestTypes
  <2>3. /\ After(r) \in {"publish", "done"}
        /\ After(r) = "publish" => CarriesOrder(r) /\ input[r].kind = "order"
    BY <2>1, <2>2, AfterStage
  <2>4. CASE After(r) = "done"
    BY <2>1, <2>2, <2>4, Ended, OthersFrame
  <2>5. CASE After(r) = "publish"
    <3>1. RequestInv(r)'
      BY <2>1, <2>2, <2>3, <2>5
         DEF RequestInv, BeforeAnswer, Queueing, CarriesOrder, Exchange, Recipient
    <3> QED BY <2>1, <3>1, OthersFrame
  <2> QED BY <2>3, <2>4, <2>5
<1>7. ASSUME NEW r \in Requests, Publish(r) \/ PublishFails(r)
      PROVE  \A q \in Requests : RequestInv(q)'
  <2>1. /\ pc[r] = "publish" /\ UNCHANGED <<input, network, affiliate>>
        /\ enqueued' \in {enqueued, enqueued \cup {r}}
        /\ \/ pc' = [pc EXCEPT ![r] = After(r)] /\ UNCHANGED answer
           \/ pc' = [pc EXCEPT ![r] = "done"] /\ answer' = [answer EXCEPT ![r] = "unknown"]
    BY <1>7 DEF Publish, PublishFails, Proceed, Finish, Goto, lookups
  <2>2. CarriesOrder(r) /\ After(r) = IF input[r].kind = "order" THEN "done" ELSE "answer"
    BY <2>1, AfterPublish DEF CarriesOrder
  <2>3. CASE pc'[r] = "done"
    <3>1. RequestInv(r)'
      BY <2>1, <2>3, Ended
    <3> QED BY <2>1, <3>1, OthersFrame
  <2>4. CASE pc'[r] = "answer"
    <3>1. pc' = [pc EXCEPT ![r] = "answer"] /\ UNCHANGED answer /\ input[r].kind # "order"
      BY <2>1, <2>2, <2>4 DEF RequestTypes
    <3>2. RequestInv(r)'
      BY <2>1, <2>2, <2>4, <3>1
         DEF RequestInv, BeforeAnswer, Queueing, CarriesOrder, Exchange, Recipient
    <3> QED BY <2>1, <3>1, <3>2, OthersFrame
  <2> QED BY <2>1, <2>2, <2>3, <2>4 DEF RequestTypes
<1>8. ASSUME NEW r \in Requests, \/ ReadCache(r) \/ QueryExchange(r) \/ QueryExchangeFails(r)
                                 \/ GetAffiliate(r) \/ GetAffiliateFails(r)
      PROVE  \A q \in Requests : RequestInv(q)'
  <2>1. /\ UNCHANGED <<pc, input, answer, enqueued>>
        /\ \A q \in Requests \ {r} : network'[q] = network[q] /\ affiliate'[q] = affiliate[q]
    BY <1>8 DEF ReadCache, QueryExchange, QueryExchangeFails, GetAffiliate, GetAffiliateFails,
       Handler, LookupTypes
  <2>2. network'[r] = "known" => Exchange(r) \in Exchanges
    <3>1. ServerOf(input[r]) \in Servers
      BY DEF ServerOf, Servers
    <3>2. cache[ServerOf(input[r])] \subseteq Exchanges
      BY <3>1 DEF LookupTypes
    <3> QED BY <1>8, <3>2 DEF ReadCache, QueryExchange, QueryExchangeFails, GetAffiliate,
               GetAffiliateFails, LookupTypes, RequestInv
  <2>3. affiliate'[r] = "known" => Recipient(r) \in Recipients
    BY <1>8 DEF ReadCache, QueryExchange, QueryExchangeFails, GetAffiliate,
       GetAffiliateFails, NilOnError, LookupTypes, RequestInv
  <2>4. RequestInv(r)'
    BY <2>1, <2>2, <2>3 DEF RequestInv, CarriesOrder, Exchange, Recipient
  <2> QED BY <2>1, <2>4, RequestFrame
<1>9. ASSUME NEW r \in Requests, GetAccount(r) \/ GetAccountFails(r)
      PROVE  UNCHANGED <<pc, input, answer, network, affiliate, enqueued>>
  BY <1>9 DEF GetAccount, GetAccountFails, SendAccount, Handler
<1>10. ASSUME NEW s \in Servers, MapRace(s) PROVE \A q \in Requests : RequestInv(q)'
  <2> SUFFICES ASSUME NEW q \in Requests PROVE RequestInv(q)'
    OBVIOUS
  <2>1. /\ UNCHANGED <<input, answer, enqueued>>
        /\ pc'[q] = pc[q] \/ pc'[q] = "aborted"
        /\ network'[q] \in {network[q], "off"} /\ affiliate'[q] \in {affiliate[q], "off"}
    BY <1>10 DEF MapRace
  <2>2. CASE pc'[q] = "aborted"
    BY <2>1, <2>2, Ended
  <2>3. CASE pc'[q] = pc[q]
    BY <2>1, <2>3 DEF RequestInv, CarriesOrder, Exchange, Recipient
  <2> QED BY <2>1, <2>2, <2>3
<1>11. ASSUME Change PROVE UNCHANGED <<pc, input, answer, network, affiliate, enqueued>>
  BY <1>11 DEF Change, Handler, lookups
<1>12. CASE UNCHANGED vars
  BY <1>1, <1>12 DEF vars, lookups
<1> QED BY <1>1, <1>2, <1>3, <1>4, <1>5, <1>6, <1>7, <1>8, <1>9, <1>10, <1>11, <1>12
        DEF Next, Handle, LookUp, SetBaseFee, SetDiscount, Expire

-----------------------------------------------------------------------------
(* The refinement.  Admission sees the orders, the answers and the queue.  *)

\* The steps that Admission cannot see: those that leave the orders, the answers
\* and the queue as they are stutter under the refinement mapping.
LEMMA Unseen ==
  ASSUME \A q \in Requests : input'[q] = input[q] /\ Told(q)' = Told(q), UNCHANGED enqueued
  PROVE  UNCHANGED A!avars
BY DEF A!avars, CarriesOrder

\* A request that is told something for the first time.
LEMMA ToldOnce ==
  ASSUME TypeOK, NEW r \in Requests, NEW a, UNCHANGED input, answer[r] = "none",
         answer' = [answer EXCEPT ![r] = a],
         NEW b, b = (IF a \in Refusals THEN "refused" ELSE a)
  PROVE  /\ ~CarriesOrder(r) => \A q \in Requests : Told(q)' = Told(q)
         /\ CarriesOrder(r) => A!Answer(r, b)
<1>1. /\ answer'[r] = a /\ \A q \in Requests \ {r} : answer'[q] = answer[q]
  BY DEF TypeOK, RequestTypes
<1>2. \A q \in Requests : CarriesOrder(q)' <=> CarriesOrder(q)
  BY DEF CarriesOrder
<1>3. \A q \in Requests \ {r} : Told(q)' = Told(q)
  BY <1>1, <1>2 DEF Told
<1>4. ~CarriesOrder(r) => Told(r)' = Told(r)
  BY <1>2 DEF Told
<1>5. CarriesOrder(r) => Told(r) = "none" /\ Told(r)' = b
  BY <1>1, <1>2 DEF Told, Refusals
<1>6. CarriesOrder(r) => A!Answer(r, b)
  BY <1>2, <1>3, <1>5 DEF A!Answer
<1> QED BY <1>3, <1>4, <1>6

\* The initial states map to Admission's.
LEMMA RefInit == Init => A!Init
BY DEF Init, A!Init, Told, CarriesOrder

\* Each step of a handler is a step of Admission or a stutter.
LEMMA RefStep == Inv /\ [Next]_vars => [A!Next]_(A!avars)
<1> SUFFICES ASSUME Inv, [Next]_vars PROVE A!Next \/ UNCHANGED A!avars
  OBVIOUS
<1> USE DEF Inv, TypeInv, TypeOK
<1>1. CASE UNCHANGED <<input, answer, enqueued>>
  <2>1. \A q \in Requests : Told(q)' = Told(q)
    BY <1>1 DEF Told, CarriesOrder
  <2> QED BY <1>1, <2>1, Unseen
<1>2. ASSUME NEW r \in Requests, Arrive(r) PROVE A!Next \/ UNCHANGED A!avars
  <2>1. PICK i \in Inputs : input' = [input EXCEPT ![r] = i]
    BY <1>2 DEF Arrive
  <2>2. /\ input[r] = NoInput /\ answer[r] = "none" /\ UNCHANGED <<answer, enqueued>>
        /\ input'[r] = i /\ \A q \in Requests \ {r} : input'[q] = input[q]
    BY <1>2, <2>1 DEF Arrive, RequestTypes, RequestInv, BeforeAnswer
  <2>3. \A q \in Requests : Told(q)' = Told(q)
    BY <2>2 DEF Told, CarriesOrder, Refusals
  <2>4. CASE i.kind \in OrderKinds
    <3> DEFINE order == [q \in Requests |-> IF CarriesOrder(q) THEN input[q] ELSE NoInput]
    <3>1. ~CarriesOrder(r) /\ CarriesOrder(r)'
      BY <2>2, <2>4, IntakeAssumption DEF CarriesOrder
    <3>2. \A q \in Requests \ {r} : CarriesOrder(q)' = CarriesOrder(q)
      BY <2>2 DEF CarriesOrder
    <3>3. order[r] = NoInput /\ order' = [order EXCEPT ![r] = i]
      BY <2>2, <3>1, <3>2
    <3>4. A!Submit(r)
      BY <2>2, <2>3, <2>4, <3>3 DEF A!Submit
    <3> QED BY <3>4 DEF A!Next
  <2>5. CASE i.kind \notin OrderKinds
    BY <2>2, <2>3, <2>5 DEF A!avars, CarriesOrder
  <2> QED BY <2>4, <2>5
<1>3. ASSUME NEW r \in Requests, answer[r] = "none", r \notin enqueued, pc[r] # "idle",
             UNCHANGED <<input, enqueued>>,
             NEW a \in Refusals, answer' = [answer EXCEPT ![r] = a]
      PROVE  A!Next \/ UNCHANGED A!avars
  <2>1. CASE ~CarriesOrder(r)
    BY <1>3, <2>1, ToldOnce, Unseen
  <2>2. CASE CarriesOrder(r)
    <3>1. A!Answer(r, "refused")
      BY <1>3, <2>2, ToldOnce
    <3>2. A!Refuse(r)
      BY <1>3, <2>2, <3>1, Arrived DEF A!Refuse, CarriesOrder
    <3> QED BY <3>2 DEF A!Next
  <2> QED BY <2>1, <2>2
<1>4. ASSUME NEW r \in Requests, CarriesOrder(r), answer[r] = "none", pc[r] # "idle",
             MayRelay(input[r]), UNCHANGED <<input, enqueued>>,
             answer' = [answer EXCEPT ![r] = "accepted"]
      PROVE  A!Next
  <2>1. A!Answer(r, "accepted")
    BY <1>4, ToldOnce DEF Refusals
  <2>2. A!Accept(r)
    BY <1>4, <2>1, Arrived DEF A!Accept, CarriesOrder
  <2> QED BY <2>2 DEF A!Next
<1>5. ASSUME NEW r \in Requests, CarriesOrder(r),
             pc[r] \in {"account"} \cup Queueing
      PROVE  MayRelay(input[r])
  BY <1>5 DEF RequestInv, MayRelay, Queueing
<1>6. ASSUME NEW r \in Requests,
             \/ Decorate(r) \/ DecorateFails(r) \/ Header(r) \/ Decode(r) \/ DecodePanics(r)
             \/ TakeNetwork(r) \/ TakeAffiliate(r) \/ PoolFee(r) \/ PoolFeeFails(r)
      PROVE  A!Next \/ UNCHANGED A!avars
  <2>1. /\ pc[r] \in BeforeAnswer \ {"idle"} /\ UNCHANGED <<input, enqueued>>
        /\ \/ UNCHANGED answer
           \/ \E a \in Refusals : answer' = [answer EXCEPT ![r] = a]
    BY <1>6 DEF Decorate, DecorateFails, Enter, Header, Decode, DecodePanics, TakeNetwork,
       TakeAffiliate, PoolFee, PoolFeeFails, Goto, Finish, Proceed, BeforeAnswer, Refusals
  <2>2. answer[r] = "none" /\ r \notin enqueued /\ pc[r] # "idle"
    BY <2>1 DEF RequestInv
  <2> QED BY <1>1, <1>3, <2>1, <2>2
<1>7. ASSUME NEW r \in Requests, TakeAccount(r) PROVE A!Next \/ UNCHANGED A!avars
  <2>1. /\ pc[r] = "account" /\ UNCHANGED <<input, enqueued>>
        /\ \/ UNCHANGED answer
           \/ answer' = [answer EXCEPT ![r] = "fee"]
           \/ IsOrder(r) /\ answer' = [answer EXCEPT ![r] = "accepted"]
    BY <1>7 DEF TakeAccount, Finish, Proceed
  <2>2. answer[r] = "none" /\ r \notin enqueued
    BY <2>1 DEF RequestInv, BeforeAnswer
  <2>3. IsOrder(r) => CarriesOrder(r)
    BY <2>1, Arrived
  <2> QED BY <1>1, <1>3, <1>4, <1>5, <2>1, <2>2, <2>3 DEF Refusals
<1>8. ASSUME NEW r \in Requests, Answer(r) PROVE A!Next \/ UNCHANGED A!avars
  <2>1. /\ pc[r] = "answer" /\ UNCHANGED <<input, enqueued>>
        /\ answer' = [answer EXCEPT ![r] = IF IsOrder(r) THEN "accepted" ELSE "quoted"]
        /\ CarriesOrder(r) <=> IsOrder(r)
    BY <1>8, Arrived DEF Answer
  <2>2. CASE CarriesOrder(r)
    <3>1. answer[r] = "none"
      BY <2>1, <2>2 DEF RequestInv
    <3> QED BY <1>4, <1>5, <2>1, <2>2, <3>1 DEF Queueing
  <2>3. CASE ~CarriesOrder(r)
    <3>1. \A q \in Requests : Told(q)' = Told(q)
      BY <2>1, <2>3 DEF Told, CarriesOrder, RequestTypes
    <3> QED BY <2>1, <3>1, Unseen
  <2> QED BY <2>2, <2>3
<1>9. ASSUME NEW r \in Requests, Publish(r) \/ PublishFails(r)
      PROVE  A!Next \/ UNCHANGED A!avars
  <2>1. /\ pc[r] = "publish" /\ UNCHANGED input
        /\ enqueued' \in {enqueued, enqueued \cup {r}}
        /\ \/ UNCHANGED answer
           \/ input[r].kind # "order" /\ answer' = [answer EXCEPT ![r] = "unknown"]
    BY <1>9 DEF Publish, PublishFails, Proceed, Finish
  <2>2. /\ CarriesOrder(r) /\ MayRelay(input[r]) /\ r \notin enqueued
        /\ answer[r] = IF input[r].kind = "order" THEN "accepted" ELSE "none"
        /\ input[r] \in Inputs
    BY <1>5, <2>1, Arrived DEF RequestInv, Queueing
  <2>3. CASE UNCHANGED answer /\ enqueued' = enqueued \cup {r}
    <3>1. \A q \in Requests : Told(q)' = Told(q)
      BY <2>1, <2>3 DEF Told, CarriesOrder
    <3>2. Told(r) \in {"none", "accepted"}
      BY <2>2 DEF Told, Refusals
    <3>3. A!Enqueue(r)
      BY <2>1, <2>2, <2>3, <3>1, <3>2 DEF A!Enqueue, CarriesOrder
    <3> QED BY <3>3 DEF A!Next
  <2>4. CASE input[r].kind # "order" /\ answer' = [answer EXCEPT ![r] = "unknown"]
    <3>1. A!Answer(r, "unknown")
      BY <2>1, <2>2, <2>4, ToldOnce DEF Refusals
    <3>2. A!Fail(r)
      BY <2>1, <2>2, <3>1 DEF A!Fail, CarriesOrder
    <3> QED BY <3>2 DEF A!Next
  <2> QED BY <1>1, <2>1, <2>3, <2>4
<1>10. ASSUME NEW r \in Requests,
              \/ ReadCache(r) \/ QueryExchange(r) \/ QueryExchangeFails(r)
              \/ GetAffiliate(r) \/ GetAffiliateFails(r)
              \/ GetAccount(r) \/ GetAccountFails(r)
       PROVE  UNCHANGED <<input, answer, enqueued>>
  BY <1>10 DEF ReadCache, QueryExchange, QueryExchangeFails, GetAffiliate, GetAffiliateFails,
     GetAccount, GetAccountFails, SendAccount, Handler
<1>11. ASSUME NEW s \in Servers, MapRace(s) PROVE UNCHANGED <<input, answer, enqueued>>
  BY <1>11 DEF MapRace
<1>12. ASSUME Change PROVE UNCHANGED <<input, answer, enqueued>>
  BY <1>12 DEF Change, Handler
<1>13. CASE UNCHANGED vars
  BY <1>1, <1>13 DEF vars
<1> QED BY <1>1, <1>2, <1>6, <1>7, <1>8, <1>9, <1>10, <1>11, <1>12, <1>13
        DEF Next, Handle, LookUp, SetBaseFee, SetDiscount, Expire

\* The handlers implement Admission, for any requests, faults, changes and
\* map races: no refused or flawed order is queued, none twice.
THEOREM ImplementsAdmission == Spec => Admits
<1>1. Spec => []Inv
  BY InvInit, InvStep, PTL DEF Spec
<1> QED BY <1>1, RefInit, RefStep, PTL DEF Spec, Admits, A!Spec

-----------------------------------------------------------------------------
(* Fees and the blacklist.  A stable request has read nothing that was     *)
(* changed since, so what it has computed so far can be said in terms of   *)
(* the tables as they are now.                                             *)

\* The pool without a row, and the row that a request's fee is taken from.
EmptyPool == [share |-> Unit, expired |-> FALSE]
PoolRow(r) == IF input[r].pool \in DOMAIN Pools THEN Pools[input[r].pool] ELSE EmptyPool

\* The pool's fee, the account that accounts.Get finds, and the fee that is due.
ShareOwed(r) == (baseFee * PoolRow(r).share) \div Unit
Asked(r) == [bl |-> accounts[Maker(r)].bl, dp |-> accounts[Maker(r)].dp,
             ends |-> accounts[Maker(r)].ends, base |-> baseFee]
Owed(r) == ShareOwed(r) - Discount(Asked(r))

\* The handler has its account: FeeHandler waits for the network after that.
PastAccount(r) == pc[r] \in Queueing \/ (pc[r] = "network" /\ input[r].kind = "fees")

StableInv(r) ==
  /\ pc[r] # "idle"
  /\ pc[r] \notin {"pool", "done", "aborted"} => pool[r] = PoolRow(r)
  /\ account[r] = "found" => found[r] = Asked(r)
  /\ pc[r] = "account" => minFee[r] = ShareOwed(r)
  /\ PastAccount(r) \/ answer[r] = "quoted" => minFee[r] = Owed(r)
  /\ answer[r] = "fee" => input[r].fee < Owed(r)
  /\ (CarriesOrder(r) /\ pc[r] \in Queueing) \/ r \in enqueued => ~accounts[Maker(r)].bl
  /\ input[r].kind = "postOrder" /\ pc[r] = "answer" => r \in enqueued
  /\ (CarriesOrder(r) /\ answer[r] = "accepted" /\ pc[r] = "done") =>
       r \in enqueued \/ accounts[Maker(r)].bl

FeeInv(r) == /\ pc[r] \in {"idle", "pool"} => pool[r] = EmptyPool
             /\ r \in stable => StableInv(r)

\* What follows each stage, of quotes as well.
LEMMA FeeStage ==
  ASSUME NEW r \in Requests, input[r] \in Input
  PROVE  /\ pc[r] = "decode" => /\ After(r) \in {"network", "affiliate"}
                                /\ After(r) = "network" => input[r].kind # "fees"
         /\ pc[r] = "network" => /\ After(r) \in {"affiliate", "answer"}
                                 /\ After(r) = "answer" => input[r].kind = "fees"
         /\ pc[r] = "affiliate" => After(r) = "poolFee"
         /\ pc[r] = "poolFee" => After(r) = "account"
         /\ pc[r] = "account" => After(r) \in {"answer", "publish", "network"}
         /\ pc[r] = "answer" => After(r) \in {"publish", "done"}
<1>1. input[r].kind \in {"order", "postOrder", "fees", "postConfig"}
  BY DEF Input, Kinds, OrderKinds, QuoteKinds
<1>2. CASE input[r].kind = "order"
  BY <1>2 DEF After, OrderStages
<1>3. CASE input[r].kind = "postOrder"
  BY <1>3 DEF After, PostOrderStages
<1>4. CASE input[r].kind = "fees"
  BY <1>4 DEF After, FeesStages
<1>5. CASE input[r].kind = "postConfig"
  BY <1>5 DEF After, PostConfigStages
<1> QED BY <1>1, <1>2, <1>3, <1>4, <1>5

\* What is due stays due while nobody changes the tables.
LEMMA SameOwed ==
  ASSUME NEW r \in Requests, input'[r] = input[r], UNCHANGED redis
  PROVE  /\ PoolRow(r)' = PoolRow(r) /\ ShareOwed(r)' = ShareOwed(r) /\ Maker(r)' = Maker(r)
         /\ Asked(r)' = Asked(r) /\ Owed(r)' = Owed(r) /\ CarriesOrder(r)' = CarriesOrder(r)
         /\ accounts' = accounts
<1>1. /\ PoolRow(r)' = PoolRow(r) /\ Maker(r)' = Maker(r) /\ CarriesOrder(r)' = CarriesOrder(r)
      /\ accounts' = accounts /\ baseFee' = baseFee /\ late' = late
  BY DEF PoolRow, Maker, CarriesOrder, redis, EmptyPool
<1>2. ShareOwed(r)' = ShareOwed(r)
  BY <1>1 DEF ShareOwed
<1>3. Asked(r)' = Asked(r)
  BY <1>1 DEF Asked
<1>4. Discount(Asked(r))' = Discount(Asked(r))
  BY <1>1, <1>3 DEF Discount
<1>5. Owed(r)' = Owed(r)
  BY <1>2, <1>4 DEF Owed
<1> QED BY <1>1, <1>2, <1>3, <1>5

\* A request that a step leaves alone.
LEMMA FeeFrame ==
  ASSUME NEW q \in Requests, FeeInv(q), input'[q] = input[q], UNCHANGED redis,
         q \in stable' => q \in stable,
         pc'[q] = pc[q], pool'[q] = pool[q], account'[q] = account[q], found'[q] = found[q],
         minFee'[q] = minFee[q], answer'[q] = answer[q], q \in enqueued' <=> q \in enqueued
  PROVE  FeeInv(q)'
<1>1. EmptyPool' = EmptyPool
  BY DEF EmptyPool
<1>2. PastAccount(q)' = PastAccount(q)
  BY DEF PastAccount
<1> QED BY <1>1, <1>2, SameOwed DEF FeeInv, StableInv

\* A request that a fault has made unstable, or that the step of a handler
\* makes go on from one stage to a later one.
LEMMA Unstable ==
  ASSUME NEW r \in Requests, r \notin stable', pc'[r] \notin {"idle", "pool"}
  PROVE  FeeInv(r)'
BY DEF FeeInv

\* The requests that a step is not about.
Alone(q) == /\ pc'[q] = pc[q] /\ input'[q] = input[q] /\ pool'[q] = pool[q]
            /\ account'[q] = account[q] /\ found'[q] = found[q] /\ minFee'[q] = minFee[q]
            /\ answer'[q] = answer[q]
            /\ q \in enqueued' <=> q \in enqueued
            /\ q \in stable' => q \in stable

\* A step of one request leaves the others alone.
LEMMA StepAlone ==
  ASSUME TypeOK, NEW r \in Requests,
         \/ Arrive(r) \/ DecorateFails(r) \/ PoolFeeFails(r) \/ PublishFails(r)
         \/ QueryExchangeFails(r) \/ GetAffiliateFails(r) \/ GetAccountFails(r)
         \/ Handle(r) \/ LookUp(r)
  PROVE  UNCHANGED redis /\ \A q \in Requests \ {r} : Alone(q)
<1> USE DEF TypeOK, RequestTypes, LookupTypes, Alone, Goto, Finish, Proceed, Fault, NoFault, lookups
<1>1. CASE Arrive(r)
  BY <1>1 DEF Arrive
<1>2. CASE DecorateFails(r) \/ Decorate(r)
  BY <1>2 DEF Decorate, DecorateFails, Enter
<1>3. CASE PoolFeeFails(r) \/ PoolFee(r)
  BY <1>3 DEF PoolFee, PoolFeeFails
<1>4. CASE PublishFails(r) \/ Publish(r)
  BY <1>4 DEF Publish, PublishFails
<1>5. CASE QueryExchangeFails(r) \/ GetAffiliateFails(r) \/ ReadCache(r) \/ QueryExchange(r) \/ GetAffiliate(r)
  BY <1>5 DEF QueryExchangeFails, GetAffiliateFails, ReadCache, QueryExchange, GetAffiliate, Handler
<1>6. CASE GetAccount(r) \/ GetAccountFails(r)
  BY <1>6 DEF GetAccount, GetAccountFails, SendAccount, Handler
<1>7. CASE Header(r) \/ DecodePanics(r)
  BY <1>7 DEF Header, DecodePanics
<1>8. CASE Decode(r)
  BY <1>8 DEF Decode
<1>9. CASE TakeNetwork(r) \/ TakeAffiliate(r)
  BY <1>9 DEF TakeNetwork, TakeAffiliate
<1>10. CASE TakeAccount(r)
  BY <1>10 DEF TakeAccount
<1>11. CASE Answer(r)
  BY <1>11 DEF Answer
<1> QED BY <1>1, <1>2, <1>3, <1>4, <1>5, <1>6, <1>7, <1>8, <1>9, <1>10, <1>11 DEF Handle, LookUp

\* A handler goes on without a result that matters here.
LEMMA FeeGoesOn ==
  ASSUME TypeOK, NEW r \in Requests, FeeInv(r), input'[r] = input[r], UNCHANGED redis,
         r \in stable' => r \in stable,
         pool'[r] = pool[r], found'[r] = found[r], minFee'[r] = minFee[r],
         account'[r] = "found" => account[r] = "found",
         r \in enqueued' => r \in enqueued \/ (CarriesOrder(r) /\ pc[r] \in Queueing),
         pc'[r] = "answer" => r \in enqueued' \/ input[r].kind # "postOrder",
         r \in stable' /\ answer'[r] = "accepted" /\ pc'[r] = "done" =>
           r \in enqueued' \/ ~CarriesOrder(r),
         answer'[r] = "quoted" => answer[r] = "quoted" \/ PastAccount(r),
         answer'[r] = "fee" => answer[r] = "fee",
         pc'[r] \notin {"idle", "pool", "account"},
         PastAccount(r)' => PastAccount(r),
         pc'[r] \in Queueing => pc[r] \in Queueing \/ ~CarriesOrder(r),
         pc'[r] \notin {"done", "aborted"} => pc[r] \notin {"pool", "done", "aborted"}
  PROVE  FeeInv(r)'
<1>1. SUFFICES ASSUME r \in stable, r \in stable' PROVE StableInv(r)'
  BY DEF FeeInv
<1>2. StableInv(r)
  BY <1>1 DEF FeeInv
<1> QED BY <1>1, <1>2, SameOwed DEF StableInv

\* A stable order that TakeAccount lets through pays what is due.
LEMMA AccountTaken ==
  ASSUME Inv, NEW r \in Requests, r \in stable, StableInv(r), pc[r] = "account",
         account[r] = "found"
  PROVE  Due(r) = Owed(r) /\ found[r].bl = accounts[Maker(r)].bl
<1>1. minFee[r] = ShareOwed(r) /\ found[r] = Asked(r)
  BY DEF StableInv
<1>2. Due(r) = Owed(r)
  BY <1>1 DEF Due, Owed
<1> QED BY <1>1, <1>2 DEF Asked

\* No fee has been quoted and no account looked up at first.
LEMMA FeeInit == Init => \A r \in Requests : FeeInv(r)
BY DEF Init, FeeInv, EmptyPool

\* The steps of a request, for itself.
LEMMA FeeOwnStep ==
  ASSUME Inv, NEW r \in Requests, FeeInv(r),
         \/ Arrive(r) \/ DecorateFails(r) \/ PoolFeeFails(r) \/ PublishFails(r)
         \/ QueryExchangeFails(r) \/ GetAffiliateFails(r) \/ GetAccountFails(r)
         \/ Handle(r) \/ LookUp(r)
  PROVE  FeeInv(r)'
<1> USE DEF Inv, TypeInv, TypeOK
<1>1. UNCHANGED redis
  BY StepAlone
<1>2. CASE Arrive(r)
  <2>1. /\ pc[r] = "idle" /\ pc'[r] = "pool" /\ UNCHANGED <<pool, account, answer, enqueued>>
    BY <1>2 DEF Arrive, Goto, RequestTypes, lookups
  <2>2. account[r] = "off" /\ answer[r] = "none" /\ r \notin enqueued /\ pool[r] = EmptyPool
    BY <2>1 DEF RequestInv, BeforeAnswer, FeeInv
  <2> QED BY <2>1, <2>2 DEF FeeInv, StableInv, PastAccount, Queueing, EmptyPool
<1>3. CASE DecorateFails(r) \/ PoolFeeFails(r) \/ PublishFails(r)
  <2>1. r \notin stable'
    BY <1>3 DEF DecorateFails, PoolFeeFails, PublishFails, Fault
  <2>2. pc'[r] \notin {"idle", "pool"}
    <3>1. CASE DecorateFails(r)
      BY <3>1 DEF DecorateFails, Enter, Goto, Finish, RequestTypes
    <3>2. CASE PoolFeeFails(r)
      BY <3>2 DEF PoolFeeFails, Goto, Finish, RequestTypes
    <3>3. CASE PublishFails(r)
      <4>1. pc[r] = "publish" /\ input[r].kind \in OrderKinds
        BY <3>3 DEF PublishFails, CarriesOrder
      <4>2. After(r) \in {"done", "answer"}
        BY <4>1, AfterPublish
      <4> QED BY <3>3, <4>2 DEF PublishFails, Proceed, Finish, Goto, RequestTypes
    <3> QED BY <1>3, <3>1, <3>2, <3>3
  <2> QED BY <2>1, <2>2, Unstable
<1>4. CASE QueryExchangeFails(r) \/ GetAffiliateFails(r) \/ GetAccountFails(r)
  <2>1. r \notin stable' /\ UNCHANGED <<pc, pool>>
    BY <1>4 DEF QueryExchangeFails, GetAffiliateFails, GetAccountFails, SendAccount, Fault, Handler
  <2> QED BY <2>1 DEF FeeInv, EmptyPool
<1>5. CASE ReadCache(r) \/ QueryExchange(r) \/ GetAffiliate(r)
  <2>1. UNCHANGED <<pc, input, pool, account, found, minFee, answer, enqueued, stable>>
    BY <1>5 DEF ReadCache, QueryExchange, GetAffiliate, Handler, NoFault
  <2> QED BY <1>1, <2>1, FeeFrame
<1>6. CASE GetAccount(r)
  <2>1. /\ UNCHANGED <<pc, input, pool, minFee, answer, enqueued, stable>>
        /\ found' = [found EXCEPT ![r] = Asked(r)]
    BY <1>6 DEF GetAccount, SendAccount, Handler, NoFault, Asked
  <2>2. found'[r] = Asked(r)
    BY <2>1 DEF LookupTypes
  <2>3. EmptyPool' = EmptyPool /\ PastAccount(r)' = PastAccount(r)
    BY <2>1 DEF EmptyPool, PastAccount
  <2> QED BY <1>1, <2>1, <2>2, <2>3, SameOwed DEF FeeInv, StableInv
<1>7. CASE Decorate(r)
  <2>1. pc[r] = "pool" /\ UNCHANGED <<input, account, found, minFee, enqueued, stable>>
    BY <1>7 DEF Decorate, NoFault, lookups
  <2>2. pc'[r] \in {"header", "decode", "done"} /\ answer'[r] \in {answer[r], "refused"}
    BY <1>7 DEF Decorate, Enter, Goto, Finish, RequestTypes
  <2>3. pool[r] = EmptyPool /\ answer[r] = "none" /\ r \notin enqueued
    BY <2>1 DEF FeeInv, RequestInv, BeforeAnswer
  <2>4. pool'[r] = PoolRow(r)
    BY <1>7, <2>3 DEF Decorate, PoolRow, RequestTypes
  <2>5. ~PastAccount(r)'
    BY <2>2 DEF PastAccount, Queueing
  <2> QED BY <1>1, <2>1, <2>2, <2>3, <2>4, <2>5, SameOwed DEF FeeInv, StableInv, Queueing
<1>8. CASE PoolFee(r)
  <2>1. /\ pc[r] = "poolFee" /\ UNCHANGED <<input, pool, account, found, answer, enqueued, stable>>
        /\ minFee' = [minFee EXCEPT ![r] = (baseFee * pool[r].share) \div Unit]
        /\ pc' = [pc EXCEPT ![r] = After(r)]
    BY <1>8 DEF PoolFee, Proceed, Goto, NoFault, lookups
  <2>2. pc'[r] = "account" /\ answer[r] = "none" /\ r \notin enqueued
    BY <2>1, Arrived, FeeStage DEF RequestInv, BeforeAnswer, RequestTypes
  <2>3. minFee'[r] = (baseFee * pool[r].share) \div Unit
    BY <2>1 DEF RequestTypes
  <2>4. r \in stable => minFee'[r] = ShareOwed(r)
    BY <2>1, <2>3 DEF FeeInv, StableInv, ShareOwed
  <2>5. ~PastAccount(r)'
    BY <2>2 DEF PastAccount, Queueing
  <2> QED BY <1>1, <2>1, <2>2, <2>4, <2>5, SameOwed DEF FeeInv, StableInv, Queueing
<1>9. CASE TakeAccount(r)
  <2>1. /\ pc[r] = "account" /\ account[r] = "found"
        /\ UNCHANGED <<input, pool, account, found, enqueued, stable>>
        /\ minFee' = [minFee EXCEPT ![r] = Due(r)]
    BY <1>9 DEF TakeAccount, NoFault, lookups
  <2>2. minFee'[r] = Due(r) /\ answer[r] = "none" /\ r \notin enqueued
    BY <2>1 DEF RequestTypes, RequestInv, BeforeAnswer
  <2>3. /\ After(r) \in {"answer", "publish", "network"} /\ (CarriesOrder(r) <=> IsOrder(r))
    BY <2>1, Arrived, FeeStage
  <2>4. \/ pc'[r] = "done" /\ answer'[r] = "fee" /\ input[r].fee < Due(r)
        \/ pc'[r] = "done" /\ answer'[r] = "accepted" /\ found[r].bl
        \/ pc'[r] = After(r) /\ answer'[r] = "none" /\ (IsOrder(r) => ~found[r].bl)
    BY <1>9, <2>2 DEF TakeAccount, Blacklisted, Finish, Proceed, Goto, RequestTypes
  <2>5. SUFFICES ASSUME r \in stable PROVE StableInv(r)'
    BY <2>1, <2>3, <2>4 DEF FeeInv
  <2>6. StableInv(r)
    BY <2>1, <2>5 DEF FeeInv
  <2>7. Due(r) = Owed(r) /\ found[r].bl = accounts[Maker(r)].bl
    BY <2>1, <2>5, <2>6, AccountTaken
  <2>8. pc'[r] \notin {"idle", "pool", "account"}
    BY <2>3, <2>4
  <2>9. ASSUME CarriesOrder(r), pc'[r] \in Queueing PROVE ~accounts[Maker(r)].bl
    <3>1. ~found[r].bl
      BY <2>3, <2>4, <2>9 DEF Queueing
    <3> QED BY <2>7, <3>1
  <2>10. minFee'[r] = Owed(r) /\ (answer'[r] = "fee" => input[r].fee < Owed(r))
    BY <2>2, <2>4, <2>7
  <2>11. pc'[r] \notin {"done", "aborted"} => pool[r] = PoolRow(r)
    BY <2>1, <2>6 DEF StableInv
  <2>12. found[r] = Asked(r)
    BY <2>1, <2>6 DEF StableInv
  <2>13. pc'[r] = "answer" => input[r].kind # "postOrder"
    BY <2>1, <2>4, Arrived, AfterStage DEF IsOrder, OrderKinds
  <2>14. pc'[r] = "done" /\ answer'[r] = "accepted" => accounts[Maker(r)].bl
    BY <2>3, <2>4, <2>7
  <2> QED BY <1>1, <2>1, <2>2, <2>8, <2>9, <2>10, <2>11, <2>12, <2>13, <2>14, SameOwed DEF StableInv
<1>10. CASE Header(r) \/ DecodePanics(r)
  <2>1. /\ UNCHANGED <<input, pool, account, found, minFee, answer, enqueued, stable>>
        /\ pc[r] \in {"header", "decode"}
        /\ pc' = [pc EXCEPT ![r] = "decode"] \/ pc' = [pc EXCEPT ![r] = "aborted"]
    BY <1>10 DEF Header, DecodePanics, Goto, NoFault, lookups
  <2>2. pc'[r] \in {"decode", "aborted"}
    BY <2>1 DEF RequestTypes
  <2> QED BY <1>1, <2>1, <2>2, FeeGoesOn DEF PastAccount, Queueing
<1>11. CASE Decode(r)
  <2>1. /\ UNCHANGED <<input, pool, found, minFee, enqueued, stable>> /\ pc[r] = "decode"
        /\ account'[r] = "found" => account[r] = "found"
    BY <1>11 DEF Decode, NoFault, LookupTypes
  <2>2. /\ pc'[r] \in {"done", After(r)} /\ answer'[r] \in {answer[r], "malformed", "refused"}
    BY <1>11 DEF Decode, Finish, Proceed, Goto, RequestTypes
  <2>3. /\ After(r) \in {"network", "affiliate"}
        /\ After(r) = "network" => input[r].kind # "fees"
    BY <2>1, Arrived, FeeStage
  <2>4. answer[r] = "none"
    BY <2>1 DEF RequestInv, BeforeAnswer
  <2> QED BY <1>1, <2>1, <2>2, <2>3, <2>4, FeeGoesOn DEF PastAccount, Queueing
<1>12. CASE TakeNetwork(r) \/ TakeAffiliate(r)
  <2>1. /\ UNCHANGED <<input, pool, account, found, minFee, enqueued, stable>>
        /\ pc[r] \in {"network", "affiliate"}
        /\ pc'[r] \in {"done", After(r)} /\ answer'[r] \in {answer[r], "refused"}
    BY <1>12 DEF TakeNetwork, TakeAffiliate, Finish, Proceed, Goto, NoFault, RequestTypes, lookups
  <2>2. /\ After(r) \in {"affiliate", "answer", "poolFee"}
        /\ After(r) = "answer" => pc[r] = "network" /\ input[r].kind = "fees"
    BY <2>1, Arrived, FeeStage
  <2>3. After(r) = "answer" => ~CarriesOrder(r)
    BY <2>2 DEF CarriesOrder, OrderKinds
  <2>4. answer[r] = "none"
    BY <2>1 DEF RequestInv, BeforeAnswer
  <2> QED BY <1>1, <2>1, <2>2, <2>3, <2>4, FeeGoesOn DEF PastAccount, Queueing
<1>13. CASE Answer(r)
  <2>1. /\ UNCHANGED <<input, pool, account, found, minFee, enqueued, stable>>
        /\ pc[r] = "answer" /\ pc'[r] = After(r) /\ answer'[r] \in {"accepted", "quoted"}
    BY <1>13 DEF Answer, Goto, NoFault, RequestTypes, lookups
  <2>2. After(r) \in {"publish", "done"}
    BY <2>1, Arrived, FeeStage
  <2>3. After(r) = "done" /\ CarriesOrder(r) => input[r].kind = "postOrder"
    BY <2>1, Arrived, AfterStage DEF CarriesOrder, OrderKinds
  <2>4. r \in stable /\ After(r) = "done" => r \in enqueued \/ ~CarriesOrder(r)
    BY <2>1, <2>3 DEF FeeInv, StableInv
  <2> QED BY <1>1, <2>1, <2>2, <2>4, FeeGoesOn DEF PastAccount, Queueing
<1>14. CASE Publish(r)
  <2>1. /\ UNCHANGED <<input, pool, account, found, minFee, answer, stable>>
        /\ pc[r] = "publish" /\ pc'[r] = After(r) /\ enqueued' = enqueued \cup {r}
    BY <1>14 DEF Publish, Proceed, Goto, NoFault, RequestTypes, lookups
  <2>2. CarriesOrder(r) /\ After(r) \in {"answer", "done"}
    BY <2>1, AfterPublish DEF CarriesOrder
  <2> QED BY <1>1, <2>1, <2>2, FeeGoesOn DEF PastAccount, Queueing
<1> QED BY <1>2, <1>3, <1>4, <1>5, <1>6, <1>7, <1>8, <1>9, <1>10, <1>11, <1>12, <1>13, <1>14
        DEF Handle, LookUp

\* Every step keeps FeeInv of every request: the step's own request, and those
\* whose goroutines stand still while Redis changes under them.
LEMMA FeeStep ==
  ASSUME Inv, \A q \in Requests : FeeInv(q), [Next]_vars
  PROVE  \A q \in Requests : FeeInv(q)'
<1> SUFFICES ASSUME NEW q \in Requests PROVE FeeInv(q)'
  OBVIOUS
<1>1. FeeInv(q) /\ TypeOK
  BY DEF Inv, TypeInv
<1>2. ASSUME NEW r \in Requests,
             \/ Arrive(r) \/ DecorateFails(r) \/ PoolFeeFails(r) \/ PublishFails(r)
             \/ QueryExchangeFails(r) \/ GetAffiliateFails(r) \/ GetAccountFails(r)
             \/ Handle(r) \/ LookUp(r)
      PROVE  FeeInv(q)'
  <2>1. CASE q = r
    BY <1>1, <1>2, <2>1, FeeOwnStep
  <2>2. CASE q # r
    <3>1. UNCHANGED redis /\ Alone(q)
      BY <1>1, <1>2, <2>2, StepAlone
    <3> QED BY <1>1, <3>1, FeeFrame DEF Alone
  <2> QED BY <2>1, <2>2
<1>3. ASSUME NEW s \in Servers, MapRace(s) PROVE FeeInv(q)'
  <2>1. /\ UNCHANGED <<input, pool, found, minFee, answer, enqueued, redis, stable>>
        /\ pc'[q] = pc[q] \/ (pc'[q] = "aborted" /\ pc[q] # "idle")
        /\ account'[q] \in {account[q], "off"}
    BY <1>3 DEF MapRace, NoFault, OnServer
  <2>2. CASE pc'[q] = "aborted"
    BY <1>1, <2>1, <2>2, FeeGoesOn DEF PastAccount, Queueing
  <2>3. CASE pc'[q] = pc[q]
    <3>1. EmptyPool' = EmptyPool /\ PastAccount(q)' = PastAccount(q)
      BY <2>1, <2>3 DEF EmptyPool, PastAccount
    <3> QED BY <1>1, <2>1, <2>3, <3>1, SameOwed DEF FeeInv, StableInv
  <2> QED BY <2>1, <2>2, <2>3
<1>4. ASSUME Change PROVE FeeInv(q)'
  <2>1. stable' = {} /\ UNCHANGED <<pc, pool>>
    BY <1>4 DEF Change, Handler
  <2> QED BY <1>1, <2>1 DEF FeeInv, EmptyPool
<1>5. CASE UNCHANGED vars
  <2>1. UNCHANGED <<pc, input, pool, account, found, minFee, answer, enqueued, redis, stable>>
    BY <1>5 DEF vars, lookups
  <2> QED BY <1>1, <2>1, FeeFrame
<1> QED BY <1>2, <1>3, <1>4, <1>5 DEF Next, SetBaseFee, SetDiscount, Expire

\* FeeInv holds throughout, together with the invariant of the refinement.
LEMMA FeeInductive == Spec => [](Inv /\ \A q \in Requests : FeeInv(q))
<1>1. ASSUME Inv, \A q \in Requests : FeeInv(q), [Next]_vars
      PROVE  Inv' /\ \A q \in Requests : FeeInv(q)'
  BY <1>1, InvStep, FeeStep
<1>2. Init => Inv /\ \A q \in Requests : FeeInv(q)
  BY InvInit, FeeInit
<1> DEFINE I == Inv /\ \A q \in Requests : FeeInv(q)
<1>3. Init => I
  BY <1>2
<1>4. I /\ [Next]_vars => I'
  BY <1>1
<1>5. Spec => []I
  <2> HIDE DEF I
  <2> QED BY <1>3, <1>4, PTL DEF Spec
<1> QED BY <1>5

\* An order that pays what was quoted to its maker is not refused for its fee,
\* whatever other requests do meanwhile and in whichever order the handlers
\* take their lookups (FeeHandler, PostOrderConfig, Handler, PostOrder).
THEOREM QuotesHonoured == Spec => []QuoteHonoured
<1>1. Inv /\ (\A q \in Requests : FeeInv(q)) => QuoteHonoured
  <2> SUFFICES ASSUME Inv, \A q \in Requests : FeeInv(q),
                      NEW q \in stable, NEW r \in stable, answer[q] = "quoted", CarriesOrder(r),
                      Maker(q) = Maker(r), input[q].pool = input[r].pool,
                      input[r].fee >= minFee[q], answer[r] = "fee"
               PROVE  FALSE
    BY DEF QuoteHonoured
  <2>1. q \in Requests /\ r \in Requests /\ TypeOK
    BY DEF Inv, TypeInv, TypeOK, RequestTypes
  <2>2. minFee[q] = Owed(q) /\ input[r].fee < Owed(r) /\ pc[r] # "idle"
    BY <2>1 DEF FeeInv, StableInv
  <2>3. Owed(q) = Owed(r)
    <3>1. ShareOwed(q) = ShareOwed(r)
      BY DEF ShareOwed, PoolRow
    <3>2. Asked(q) = Asked(r)
      BY DEF Asked
    <3> QED BY <3>1, <3>2 DEF Owed
  <2>4. minFee[q] \in Int /\ input[r].fee \in Nat
    BY <2>1, <2>2, Arrived DEF TypeOK, RequestTypes, Input
  <2> QED BY <2>2, <2>3, <2>4
<1> QED BY <1>1, FeeInductive, PTL

\* An order is queued, once it was accepted, exactly if its maker is not
\* blacklisted, unless a fault or an operator has come between (TakeAccount of
\* both handlers; ingest.go:351-356, post_order.go:312-336): no handler returns
\* between its answer and the queue.
THEOREM QueuedOrDropped == Spec => []QueuedUnlessBlacklisted
<1>1. Inv /\ (\A q \in Requests : FeeInv(q)) => QueuedUnlessBlacklisted
  BY DEF Inv, TypeInv, TypeOK, RequestTypes, FeeInv, StableInv, QueuedUnlessBlacklisted
<1> QED BY <1>1, FeeInductive, PTL

-----------------------------------------------------------------------------
(* The content type.  A request that is alone in ingest.Handler finds its  *)
(* own header in the variable that all of them share.                      *)

PastDecode == {"network", "affiliate", "poolFee", "account"} \cup Queueing

SentInv(r) ==
  /\ pc[r] = "header" => input[r].kind = "order"
  /\ (CarriesOrder(r) /\ input[r].kind = "order" /\ r \notin overlapped) =>
       /\ pc[r] = "decode" => contentType = input[r].type
       /\ pc[r] \in PastDecode => OrderDecodes(input[r], input[r].type)
       /\ answer[r] = "malformed" => ~OrderDecodes(input[r], input[r].type)
       /\ answer[r] \in {"accepted", "fee"} => OrderDecodes(input[r], input[r].type)

\* Two requests in the handler have both met the other.
OverlapInv == \A q, r \in Requests : q # r /\ InHandler(q) /\ InHandler(r) => q \in overlapped

HeaderInv == OverlapInv /\ \A r \in Requests : SentInv(r)

\* No request is in ingest.Handler at first.
LEMMA HeaderInit == Init => HeaderInv
BY DEF Init, HeaderInv, OverlapInv, InHandler, SentInv, CarriesOrder

\* A request that a step leaves alone, or another one's header would reach.
LEMMA SentFrame ==
  ASSUME NEW q \in Requests, SentInv(q), pc'[q] = pc[q], input'[q] = input[q], answer'[q] = answer[q],
         q \in overlapped => q \in overlapped',
         contentType' = contentType \/ q \in overlapped' \/ ~InHandler(q) \/ pc[q] # "decode"
  PROVE  SentInv(q)'
BY DEF SentInv, CarriesOrder, OrderDecodes, InHandler

\* A handler past the decoding goes on with its answer none or a good one.
LEMMA SentGoesOn ==
  ASSUME NEW r \in Requests, SentInv(r), input'[r] = input[r],
         r \in overlapped => r \in overlapped',
         pc[r] \in PastDecode, pc'[r] \notin {"header", "decode"},
         answer'[r] = "malformed" => answer[r] = "malformed"
  PROVE  SentInv(r)'
BY DEF SentInv, CarriesOrder, OrderDecodes

\* Nobody enters the handler in this step.
LEMMA SameOverlap ==
  ASSUME HeaderInv, overlapped \subseteq overlapped',
         \A q \in Requests : InHandler(q)' => InHandler(q)
  PROVE  OverlapInv'
BY DEF HeaderInv, OverlapInv

\* Every step keeps HeaderInv: the closure's content type is that of the request
\* between Header and Read, unless another has entered since.
LEMMA HeaderStep == ASSUME Inv, HeaderInv, [Next]_vars PROVE HeaderInv'
<1> USE DEF Inv, TypeInv, TypeOK
<1>1. CASE UNCHANGED <<pc, input, contentType, answer, overlapped>>
  <2>1. \A q \in Requests : InHandler(q)' = InHandler(q)
    BY <1>1 DEF InHandler
  <2> QED BY <1>1, <2>1, SentFrame, SameOverlap DEF HeaderInv
<1>2. ASSUME NEW r \in Requests, Arrive(r) PROVE HeaderInv'
  <2>1. /\ pc[r] = "idle" /\ pc'[r] = "pool" /\ UNCHANGED <<contentType, answer, overlapped>>
        /\ \A q \in Requests \ {r} : pc'[q] = pc[q] /\ input'[q] = input[q]
    BY <1>2 DEF Arrive, Goto, RequestTypes
  <2>2. answer[r] = "none"
    BY <2>1 DEF RequestInv, BeforeAnswer
  <2>3. SentInv(r)'
    BY <2>1, <2>2 DEF SentInv, PastDecode, Queueing
  <2>4. \A q \in Requests : InHandler(q)' => InHandler(q)
    BY <2>1 DEF InHandler
  <2> QED BY <2>1, <2>3, <2>4, SentFrame, SameOverlap DEF HeaderInv
<1>3. ASSUME NEW r \in Requests, Decorate(r) \/ DecorateFails(r) PROVE HeaderInv'
  <2>1. /\ pc[r] = "pool" /\ UNCHANGED <<input, contentType>>
    BY <1>3 DEF Decorate, DecorateFails
  <2>2. \/ Enter(r)
        \/ Finish(r, "refused") /\ UNCHANGED overlapped
    BY <1>3 DEF Decorate, DecorateFails
  <2>3. answer[r] = "none"
    BY <2>1 DEF RequestInv, BeforeAnswer
  <2>4. CASE Finish(r, "refused") /\ UNCHANGED overlapped
    <3>1. /\ pc'[r] = "done" /\ answer'[r] = "refused"
          /\ \A q \in Requests \ {r} : pc'[q] = pc[q] /\ answer'[q] = answer[q]
      BY <2>4 DEF Finish, Goto, RequestTypes
    <3>2. SentInv(r)'
      BY <3>1 DEF SentInv, PastDecode, Queueing
    <3>3. \A q \in Requests : InHandler(q)' => InHandler(q)
      BY <2>1, <3>1 DEF InHandler
    <3> QED BY <2>1, <2>4, <3>1, <3>2, <3>3, SentFrame, SameOverlap DEF HeaderInv
  <2>5. CASE Enter(r) /\ input[r].kind = "order"
    <3> DEFINE others == {q \in Requests \ {r} : InHandler(q)}
    <3>1. /\ pc' = [pc EXCEPT ![r] = "header"] /\ UNCHANGED answer
          /\ overlapped' = IF others # {} THEN overlapped \cup others \cup {r} ELSE overlapped
      BY <2>5 DEF Enter, Goto
    <3>2. pc'[r] = "header" /\ \A q \in Requests \ {r} : pc'[q] = pc[q] /\ InHandler(q)' = InHandler(q)
      BY <2>1, <3>1 DEF RequestTypes, InHandler
    <3>3. SentInv(r)'
      BY <2>1, <2>3, <2>5, <3>1, <3>2 DEF SentInv, PastDecode, Queueing
    <3>4. overlapped \subseteq overlapped'
      BY <3>1
    <3>5. OverlapInv'
      <4> SUFFICES ASSUME NEW p \in Requests, NEW q \in Requests, p # q, InHandler(p)', InHandler(q)'
                   PROVE  p \in overlapped'
        BY DEF OverlapInv
      <4>1. CASE p = r
        <5>1. q \in others
          BY <3>2, <4>1
        <5> QED BY <3>1, <4>1, <5>1
      <4>2. CASE q = r
        <5>1. p \in others
          BY <3>2, <4>2
        <5> QED BY <3>1, <5>1
      <4>3. CASE p # r /\ q # r
        BY <3>2, <3>4, <4>3 DEF HeaderInv, OverlapInv
      <4> QED BY <4>1, <4>2, <4>3
    <3> QED BY <2>1, <3>1, <3>2, <3>3, <3>4, <3>5, SentFrame DEF HeaderInv
  <2>6. CASE Enter(r) /\ input[r].kind # "order"
    <3>1. /\ pc' = [pc EXCEPT ![r] = "decode"] /\ UNCHANGED <<answer, overlapped>>
      BY <2>6 DEF Enter, Goto
    <3>2. pc'[r] = "decode" /\ \A q \in Requests \ {r} : pc'[q] = pc[q]
      BY <3>1 DEF RequestTypes
    <3>3. SentInv(r)'
      BY <2>1, <2>6, <3>2 DEF SentInv
    <3>4. \A q \in Requests : InHandler(q)' => InHandler(q)
      BY <2>1, <2>6, <3>2 DEF InHandler
    <3> QED BY <2>1, <3>1, <3>2, <3>3, <3>4, SentFrame, SameOverlap DEF HeaderInv
  <2> QED BY <2>2, <2>4, <2>5, <2>6
<1>4. ASSUME NEW r \in Requests, Header(r) PROVE HeaderInv'
  <2>1. /\ pc[r] = "header" /\ contentType' = input[r].type /\ UNCHANGED <<input, answer, overlapped>>
        /\ pc' = [pc EXCEPT ![r] = "decode"]
    BY <1>4 DEF Header, OwnType, Goto
  <2>2. pc'[r] = "decode" /\ \A q \in Requests \ {r} : pc'[q] = pc[q]
    BY <2>1 DEF RequestTypes
  <2>3. InHandler(r) /\ answer[r] = "none"
    BY <2>1 DEF HeaderInv, SentInv, InHandler, RequestInv, BeforeAnswer
  <2>4. SentInv(r)'
    BY <2>1, <2>2, <2>3 DEF SentInv, PastDecode, Queueing
  <2>5. \A q \in Requests \ {r} : q \in overlapped \/ ~InHandler(q)
    BY <2>3 DEF HeaderInv, OverlapInv
  <2>6. \A q \in Requests : InHandler(q)' => InHandler(q)
    BY <2>1, <2>2, <2>3 DEF InHandler
  <2> QED BY <2>1, <2>2, <2>4, <2>5, <2>6, SentFrame, SameOverlap DEF HeaderInv
<1>5. ASSUME NEW r \in Requests, Decode(r) PROVE HeaderInv'
  <2>1. pc[r] = "decode" /\ UNCHANGED <<input, contentType, overlapped>>
    BY <1>5 DEF Decode
  <2>2. /\ pc'[r] \in {"done", After(r)} /\ answer[r] = "none"
        /\ answer'[r] \in {"none", "malformed", "refused"}
        /\ \A q \in Requests \ {r} : pc'[q] = pc[q] /\ answer'[q] = answer[q]
    BY <1>5, <2>1 DEF Decode, Finish, Proceed, Goto, RequestTypes, RequestInv, BeforeAnswer
  <2>3. After(r) \in {"network", "affiliate"}
    BY <2>1, Arrived, FeeStage
  <2>4. ASSUME input[r].kind = "order", r \notin overlapped, CarriesOrder(r)
        PROVE  /\ pc'[r] \in PastDecode => OrderDecodes(input[r], input[r].type)
               /\ answer'[r] = "malformed" => ~OrderDecodes(input[r], input[r].type)
    <3>1. contentType = input[r].type
      BY <2>1, <2>4 DEF HeaderInv, SentInv
    <3>2. ~\E q \in Requests \ {r} : pc[q] = "header"
      <4> SUFFICES ASSUME NEW q \in Requests \ {r}, pc[q] = "header" PROVE FALSE
        OBVIOUS
      <4>1. InHandler(q) /\ InHandler(r)
        BY <2>1, <2>4 DEF HeaderInv, SentInv, InHandler
      <4> QED BY <2>4, <4>1 DEF HeaderInv, OverlapInv
    <3>3. TypesRead(r) = {input[r].type}
      BY <2>4, <3>1, <3>2 DEF TypesRead, Read
    <3>4. \/ /\ ~Decodes(r, input[r].type) /\ pc'[r] = "done"
          \/ /\ Decodes(r, input[r].type) /\ answer'[r] # "malformed"
      BY <1>5, <2>2, <2>4, <3>3 DEF Decode, Finish, Proceed, Goto, RequestTypes
    <3>5. Decodes(r, input[r].type) <=> OrderDecodes(input[r], input[r].type)
      BY <2>4 DEF Decodes
    <3> QED BY <3>4, <3>5 DEF PastDecode, Queueing
  <2>5. SentInv(r)'
    BY <2>1, <2>2, <2>3, <2>4 DEF SentInv, CarriesOrder, OrderDecodes
  <2>6. \A q \in Requests : InHandler(q)' => InHandler(q)
    BY <2>1, <2>2, <2>3 DEF InHandler
  <2> QED BY <2>1, <2>2, <2>5, <2>6, SentFrame, SameOverlap DEF HeaderInv
<1>6. ASSUME NEW r \in Requests, DecodePanics(r) PROVE HeaderInv'
  <2>1. /\ pc[r] = "decode" /\ UNCHANGED <<input, contentType, answer, overlapped>>
        /\ pc' = [pc EXCEPT ![r] = "aborted"]
    BY <1>6 DEF DecodePanics, Goto
  <2>2. pc'[r] = "aborted" /\ \A q \in Requests \ {r} : pc'[q] = pc[q]
    BY <2>1 DEF RequestTypes
  <2>3. SentInv(r)'
    BY <2>1, <2>2 DEF HeaderInv, SentInv, CarriesOrder, PastDecode, Queueing, OrderDecodes
  <2>4. \A q \in Requests : InHandler(q)' => InHandler(q)
    BY <2>1, <2>2 DEF InHandler
  <2> QED BY <2>1, <2>2, <2>3, <2>4, SentFrame, SameOverlap DEF HeaderInv
<1>7. ASSUME NEW r \in Requests,
             \/ TakeNetwork(r) \/ TakeAffiliate(r) \/ PoolFee(r) \/ PoolFeeFails(r)
             \/ TakeAccount(r) \/ Answer(r) \/ Publish(r) \/ PublishFails(r)
      PROVE  HeaderInv'
  <2>1. /\ pc[r] \in PastDecode /\ UNCHANGED <<input, contentType, overlapped>>
    BY <1>7 DEF TakeNetwork, TakeAffiliate, PoolFee, PoolFeeFails, TakeAccount, Answer, Publish,
       PublishFails, PastDecode, Queueing
  <2>3. After(r) \notin {"header", "decode"}
    <3>1. CASE pc[r] = "publish"
      BY <3>1, AfterPublish DEF CarriesOrder
    <3>2. CASE pc[r] # "publish"
      BY <2>1, <3>2, Arrived, FeeStage DEF PastDecode, Queueing
    <3> QED BY <3>1, <3>2
  <2>4. \A q \in Requests \ {r} : pc'[q] = pc[q] /\ answer'[q] = answer[q]
    BY <1>7 DEF TakeNetwork, TakeAffiliate, PoolFee, PoolFeeFails, TakeAccount, Answer, Publish,
       PublishFails, Finish, Proceed, Goto, RequestTypes
  <2>5. pc'[r] \notin {"header", "decode"} /\ (answer'[r] = "malformed" => answer[r] = "malformed")
    BY <1>7, <2>3 DEF TakeNetwork, TakeAffiliate, PoolFee, PoolFeeFails, TakeAccount, Answer, Publish,
       PublishFails, Finish, Proceed, Goto, RequestTypes
  <2>6. SentInv(r)'
    BY <2>1, <2>5, SentGoesOn DEF HeaderInv
  <2>7. \A q \in Requests : InHandler(q)' => InHandler(q)
    BY <2>1, <2>4, <2>5 DEF InHandler
  <2> QED BY <2>1, <2>4, <2>6, <2>7, SentFrame, SameOverlap DEF HeaderInv
<1>8. ASSUME NEW r \in Requests,
             \/ LookUp(r) \/ QueryExchangeFails(r) \/ GetAffiliateFails(r) \/ GetAccountFails(r)
      PROVE  UNCHANGED <<pc, input, contentType, answer, overlapped>>
  BY <1>8 DEF LookUp, ReadCache, QueryExchange, QueryExchangeFails, GetAffiliate, GetAffiliateFails,
     GetAccount, GetAccountFails, SendAccount, Handler
<1>9. ASSUME NEW s \in Servers, MapRace(s) PROVE HeaderInv'
  <2>1. /\ UNCHANGED <<input, answer, overlapped>>
        /\ contentType' = IF s = "ingest" THEN "none" ELSE contentType
        /\ \A q \in Requests : pc'[q] = IF q \in OnServer(s) /\ pc[q] # "done" THEN "aborted" ELSE pc[q]
    BY <1>9 DEF MapRace
  <2>2. ASSUME NEW q \in Requests PROVE SentInv(q)'
    <3>1. CASE pc'[q] = "aborted"
      BY <2>1, <3>1 DEF HeaderInv, SentInv, CarriesOrder, PastDecode, Queueing, OrderDecodes
    <3>2. CASE pc'[q] # "aborted"
      <4>1. pc'[q] = pc[q]
        BY <2>1, <3>2
      <4>2. s = "ingest" => ~InHandler(q)
        BY <2>1, <3>2 DEF OnServer, InHandler, ServerOf
      <4> QED BY <2>1, <4>1, <4>2, SentFrame DEF HeaderInv
    <3> QED BY <3>1, <3>2
  <2>3. \A q \in Requests : InHandler(q)' => InHandler(q)
    BY <2>1 DEF InHandler
  <2> QED BY <2>1, <2>2, <2>3, SameOverlap DEF HeaderInv
<1>10. ASSUME Change PROVE UNCHANGED <<pc, input, contentType, answer, overlapped>>
  BY <1>10 DEF Change, Handler
<1>11. CASE UNCHANGED vars
  BY <1>1, <1>11 DEF vars
<1> QED BY <1>1, <1>2, <1>3, <1>4, <1>5, <1>6, <1>7, <1>8, <1>9, <1>10, <1>11
        DEF Next, Handle, SetBaseFee, SetDiscount, Expire

\* A request that met no other one in ingest.Handler is taken for what its own
\* header says, although the variable is shared and never reset.
THEOREM HeadersKept == Spec => []DecodedAsSent
<1>1. Inv /\ HeaderInv => DecodedAsSent
  BY DEF HeaderInv, SentInv, DecodedAsSent
<1>2. Init => Inv /\ HeaderInv
  BY InvInit, HeaderInit
<1>3. Inv /\ HeaderInv /\ [Next]_vars => Inv' /\ HeaderInv'
  BY InvStep, HeaderStep
<1> QED BY <1>1, <1>2, <1>3, PTL DEF Spec
=============================================================================
