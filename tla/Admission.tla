----------------------------- MODULE Admission ------------------------------
(***************************************************************************)
(* What the order API promises about the queue of new orders, whatever     *)
(* goes on inside: a request is answered at most once, an order reaches    *)
(* the queue at most once per request, only a sound order is accepted or   *)
(* queued, and a refused order is not on the queue and never gets there.   *)
(* The answer "unknown" (status 500 when Redis did not answer in time)     *)
(* leaves open whether the order was queued.  "accepted" does not promise  *)
(* that it was: an order of a blacklisted maker is accepted and dropped;   *)
(* one that Redis refused is accepted and lost, by ingest.Handler, which   *)
(* answers before it publishes, and by PostOrder, for which only a timeout *)
(* is an error (redisErrIsNil).                                            *)
(***************************************************************************)
CONSTANTS Requests,  \* the HTTP requests
          Orders,    \* the orders they may carry
          Sound,     \* the orders that may be relayed
          NoOrder    \* not an order

VARIABLES order,     \* the order of each request
          answer,    \* what its client was told
          enqueued   \* the requests whose order is on the queue

avars == <<order, answer, enqueued>>

Init ==
  /\ order = [r \in Requests |-> NoOrder]
  /\ answer = [r \in Requests |-> "none"]
  /\ enqueued = {}

Submit(r) ==
  /\ order[r] = NoOrder
  /\ \E o \in Orders : order' = [order EXCEPT ![r] = o]
  /\ UNCHANGED <<answer, enqueued>>

Answer(r, a) ==
  /\ answer[r] = "none"
  /\ answer' = [answer EXCEPT ![r] = a]
  /\ UNCHANGED order

Accept(r) == order[r] \in Sound /\ Answer(r, "accepted") /\ UNCHANGED enqueued

Refuse(r) == order[r] \in Orders /\ r \notin enqueued /\ Answer(r, "refused") /\ UNCHANGED enqueued

Enqueue(r) ==
  /\ order[r] \in Sound
  /\ r \notin enqueued
  /\ answer[r] \in {"none", "accepted"}
  /\ enqueued' = enqueued \cup {r}
  /\ UNCHANGED <<order, answer>>

Fail(r) ==
  /\ order[r] \in Sound
  /\ r \notin enqueued
  /\ Answer(r, "unknown")
  /\ enqueued' \in {enqueued, enqueued \cup {r}}

Next == \E r \in Requests : Submit(r) \/ Accept(r) \/ Refuse(r) \/ Enqueue(r) \/ Fail(r)

Spec == Init /\ [][Next]_avars
=============================================================================
