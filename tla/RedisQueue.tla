----------------------------- MODULE RedisQueue -----------------------------
(***************************************************************************)
(* A queue:// channel and the services that consume it: channels/          *)
(* (publisher.go, queue_consumer.go, delivery.go, relay.go, util.go).      *)
(*                                                                         *)
(* A queue is three Redis lists.  Every step below that touches one is ONE *)
(* Redis command; everything a consumer does between two commands can be   *)
(* interleaved with the other processes and cut off by the end of its own. *)
(* A list's head (Redis: left) is the head of the sequence.                *)
(*                                                                         *)
(* A process has a consume() goroutine that moves messages from ready to   *)
(* unacked and into deliveryChan, a goroutine that takes them out and      *)
(* calls Consume, and one worker goroutine per semaphore slot.  A worker   *)
(* relays (filter, publish to every destination, Ack), or rejects (the SQL *)
(* indexers on an error), or returns the message and exits the process     *)
(* (the chain monitors and poolfilter on an error).                        *)
(***************************************************************************)
EXTENDS Naturals, Sequences, SequencesExt, FiniteSets

CONSTANTS Procs,       \* consuming processes of one queue
          Msgs,        \* payloads
          Passes,      \* payloads the RelayFilter lets through
          NDest,       \* number of destinations of the relay
          Prefetch,    \* capacity of deliveryChan
          Concurrency, \* capacity of the semaphore
          Ends,        \* what a worker may do: "relay", "reject", "return"
          None,        \* no delivery
          Empty,       \* the delivery consume() makes of a failed BRPOPLPUSH
          MaxPublish,  \* bound: messages published
          MaxExits,    \* bound: crashes, panics and shutdowns
          MaxErrors,   \* bound: Redis errors the code carries on after
          MaxAdmin     \* bound: calls of ReturnAllUnacked and PurgeRejected

ASSUME SetAssumption ==
  /\ IsFiniteSet(Procs)
  /\ Passes \subseteq Msgs /\ None \notin Msgs /\ Empty \notin Msgs \cup {None}

ASSUME CapacityAssumption ==
  /\ Prefetch \in Nat \ {0} /\ Concurrency \in Nat \ {0} /\ NDest \in Nat \ {0}
  /\ MaxPublish \in Nat /\ MaxExits \in Nat /\ MaxErrors \in Nat /\ MaxAdmin \in Nat

VARIABLES
  ready, unacked, rejected, \* the Redis lists of the queue
  dest,      \* the Redis lists the relay publishes to
  loop,      \* consume(): "down", "fetch", "send", "ended"
  fetched,   \* the delivery consume() is sending to deliveryChan
  chan,      \* deliveryChan
  held,      \* the delivery whose Consume waits for the semaphore
  work,      \* the worker goroutines
  stop,      \* consumingStopped # nil
  sent,      \* every message published to the queue, oldest last
  purged,    \* rejected messages that were purged
  sweep,     \* ReturnAllUnacked: moves still to make
  purge,     \* PurgeRejected: entries still to trim
  exits, errors, admin

lists == <<ready, unacked, rejected>>
local == <<loop, fetched, chan, held, work, stop>>
tools == <<purged, sweep, purge, admin>>
vars  == <<lists, dest, local, sent, tools, exits, errors>>

Workers == 1..Concurrency
Dests   == 1..NDest

\* A worker: where it is, its delivery, and the destination it publishes to.
Idle == [at |-> "idle", msg |-> None, to |-> 0]

Count(s, m) == Cardinality({i \in DOMAIN s : s[i] = m})

-----------------------------------------------------------------------------
Init ==
  /\ ready = <<>> /\ unacked = <<>> /\ rejected = <<>>
  /\ dest = [d \in Dests |-> <<>>]
  /\ loop = [p \in Procs |-> "fetch"]
  /\ fetched = [p \in Procs |-> None]
  /\ chan = [p \in Procs |-> <<>>]
  /\ held = [p \in Procs |-> None]
  /\ work = [p \in Procs |-> [w \in Workers |-> Idle]]
  /\ stop = [p \in Procs |-> FALSE]
  /\ sent = <<>> /\ purged = <<>> /\ sweep = 0 /\ purge = 0
  /\ exits = 0 /\ errors = 0 /\ admin = 0

\* LPUSH of a message by some other service.
Publish(m) ==
  /\ Len(sent) < MaxPublish
  /\ ready' = <<m>> \o ready
  /\ sent' = <<m>> \o sent
  /\ UNCHANGED <<unacked, rejected, dest, local, tools, exits, errors>>

-----------------------------------------------------------------------------
(* consume(), AddConsumer's goroutine and the semaphore.                   *)

\* A Redis error within the bound.
RedisError == errors < MaxErrors /\ errors' = errors + 1

\* BRPOPLPUSH, in Redis.
BRPopLPush ==
  /\ ready # <<>>
  /\ ready' = Front(ready)
  /\ unacked' = <<Last(ready)>> \o unacked
  /\ UNCHANGED rejected

\* Mutant of Fetch: BLPOP order, the newest message first.
FetchNewest(p) ==
  /\ loop[p] = "fetch" /\ ready # <<>>
  /\ ready' = Tail(ready) /\ unacked' = <<Head(ready)>> \o unacked
  /\ fetched' = [fetched EXCEPT ![p] = Head(ready)]
  /\ loop' = [loop EXCEPT ![p] = "send"]
  /\ UNCHANGED <<rejected, dest, chan, held, work, stop, sent, tools, exits, errors>>

Fetch(p) ==
  /\ loop[p] = "fetch"
  /\ BRPopLPush
  /\ fetched' = [fetched EXCEPT ![p] = Last(ready)]
  /\ loop' = [loop EXCEPT ![p] = "send"]
  /\ UNCHANGED <<dest, chan, held, work, stop, sent, tools, exits, errors>>

\* The consume() loop ends once StopConsuming was called.
NextLoop(p) == IF stop[p] THEN "ended" ELSE "fetch"

\* The answer to BRPOPLPUSH is lost, whether Redis has done it or not.  For a
\* timeout redisErrIsNil answers true and the loop goes on; for any other
\* error it answers false, and the empty string is delivered.
FetchError(p) ==
  /\ loop[p] = "fetch"
  /\ RedisError
  /\ BRPopLPush \/ UNCHANGED lists
  /\ \/ loop' = [loop EXCEPT ![p] = NextLoop(p)] /\ UNCHANGED fetched
     \/ /\ fetched' = [fetched EXCEPT ![p] = Empty]
        /\ loop' = [loop EXCEPT ![p] = "send"]
  /\ UNCHANGED <<dest, chan, held, work, stop, sent, tools, exits>>

\* Mutant of Send: deliveryChan has no capacity.
SendUnbounded(p) ==
  /\ loop[p] = "send"
  /\ chan' = [chan EXCEPT ![p] = Append(@, fetched[p])]
  /\ fetched' = [fetched EXCEPT ![p] = None]
  /\ loop' = [loop EXCEPT ![p] = NextLoop(p)]
  /\ UNCHANGED <<lists, dest, held, work, stop, sent, tools, exits, errors>>

\* The blocking send to deliveryChan, then the check of consumingStopped.
Send(p) ==
  /\ loop[p] = "send"
  /\ Len(chan[p]) < Prefetch
  /\ chan' = [chan EXCEPT ![p] = Append(@, fetched[p])]
  /\ fetched' = [fetched EXCEPT ![p] = None]
  /\ loop' = [loop EXCEPT ![p] = NextLoop(p)]
  /\ UNCHANGED <<lists, dest, held, work, stop, sent, tools, exits, errors>>

\* BRPOPLPUSH times out on an empty list; seen only when it ends the loop.
FetchTimeout(p) ==
  /\ loop[p] = "fetch" /\ stop[p] /\ ready = <<>>
  /\ loop' = [loop EXCEPT ![p] = NextLoop(p)]
  /\ UNCHANGED <<lists, dest, fetched, chan, held, work, stop, sent, tools, exits, errors>>

\* range deliveryChan: Consume is called and waits for the semaphore.
Dispatch(p) ==
  /\ loop[p] # "down"
  /\ held[p] = None /\ chan[p] # <<>>
  /\ held' = [held EXCEPT ![p] = Head(chan[p])]
  /\ chan' = [chan EXCEPT ![p] = Tail(@)]
  /\ UNCHANGED <<lists, dest, loop, fetched, work, stop, sent, tools, exits, errors>>

\* Mutant of Acquire: the delivery is acked before it is worked on.
AcquireAcks(p, w) ==
  /\ held[p] # None /\ work[p][w] = Idle
  /\ unacked' = RemoveFirst(unacked, held[p])
  /\ work' = [work EXCEPT ![p][w] = [at |-> "filter", msg |-> held[p], to |-> 1]]
  /\ held' = [held EXCEPT ![p] = None]
  /\ UNCHANGED <<ready, rejected, dest, loop, fetched, chan, stop, sent, tools, exits, errors>>

\* s.Acquire(), then go func().
Acquire(p, w) ==
  /\ held[p] # None /\ work[p][w] = Idle
  /\ work' = [work EXCEPT ![p][w] = [at |-> "filter", msg |-> held[p], to |-> 1]]
  /\ held' = [held EXCEPT ![p] = None]
  /\ UNCHANGED <<lists, dest, loop, fetched, chan, stop, sent, tools, exits, errors>>

-----------------------------------------------------------------------------
(* The worker goroutines.                                                  *)

\* Worker w of p goes on to `at`.
Goto(p, w, at) == work' = [work EXCEPT ![p][w].at = at]

\* Mutant of LRem: LREM key 0 payload, every copy.
LRemAll(m) == SelectSeq(unacked, LAMBDA x : x # m)

\* LREM key 1 payload: one copy, counted from the head; none if there is none.
LRem(m) == RemoveFirst(unacked, m)

\* An end of a process within the bound.
MayEnd == exits < MaxExits /\ exits' = exits + 1

\* filter.Filter.
Filter(p, w) ==
  /\ "relay" \in Ends
  /\ work[p][w].at = "filter"
  /\ Goto(p, w, IF work[p][w].msg \in Passes \cup {Empty} THEN "publish" ELSE "ack")
  /\ UNCHANGED <<lists, dest, loop, fetched, chan, held, stop, sent, tools, exits, errors>>

\* The next publisher of the relay, or Ack after the last one.
Advance(p, w) ==
  LET r == work[p][w] IN
  work' = [work EXCEPT ![p][w] =
             IF r.to = NDest THEN [r EXCEPT !.at = "ack"] ELSE [r EXCEPT !.to = r.to + 1]]

\* publisher.Publish to one destination; the empty message is skipped.
RelayPublish(p, w) ==
  /\ work[p][w].at = "publish"
  /\ dest' = IF work[p][w].msg = Empty THEN dest
             ELSE [dest EXCEPT ![work[p][w].to] = <<work[p][w].msg>> \o @]
  /\ Advance(p, w)
  /\ UNCHANGED <<lists, loop, fetched, chan, held, stop, sent, tools, exits, errors>>

\* publisher.Publish fails; the relay does not look at its answer.
RelayPublishError(p, w) ==
  /\ work[p][w].at = "publish" /\ work[p][w].msg # Empty
  /\ RedisError
  /\ Advance(p, w)
  /\ UNCHANGED <<lists, dest, loop, fetched, chan, held, stop, sent, tools, exits>>

\* Mutant of Ack: the semaphore is not released.
AckNoRelease(p, w) ==
  /\ work[p][w].at = "ack"
  /\ unacked' = LRem(work[p][w].msg)
  /\ Goto(p, w, "idle")
  /\ UNCHANGED <<ready, rejected, dest, loop, fetched, chan, held, stop, sent, tools,
                 exits, errors>>

\* delivery.Ack, then s.Release().
Ack(p, w) ==
  /\ work[p][w].at = "ack"
  /\ unacked' = LRem(work[p][w].msg)
  /\ work' = [work EXCEPT ![p][w] = Idle]
  /\ UNCHANGED <<ready, rejected, dest, loop, fetched, chan, held, stop, sent, tools,
                 exits, errors>>

\* delivery.Reject: LPUSH to the rejected list ...
RejectPush(p, w) ==
  /\ "reject" \in Ends
  /\ work[p][w].at = "filter"
  /\ rejected' = <<work[p][w].msg>> \o rejected
  /\ Goto(p, w, "rejecting")
  /\ UNCHANGED <<ready, unacked, dest, loop, fetched, chan, held, stop, sent, tools,
                 exits, errors>>

\* ... then LREM.
RejectRem(p, w) ==
  /\ work[p][w].at = "rejecting"
  /\ unacked' = LRem(work[p][w].msg)
  /\ work' = [work EXCEPT ![p][w] = Idle]
  /\ UNCHANGED <<ready, rejected, dest, loop, fetched, chan, held, stop, sent, tools,
                 exits, errors>>

\* The LREM of an Ack or a Reject, or the LPUSH of a Reject, fails: after a
\* timeout the delivery is given up where it is, after another error the
\* Reject goes on to its LREM.  No caller looks at the answer.
AckError(p, w) ==
  /\ RedisError
  /\ \/ /\ work[p][w].at \in {"ack", "rejecting"}
        /\ work' = [work EXCEPT ![p][w] = Idle]
     \/ /\ work[p][w].at = "filter" /\ "reject" \in Ends
        /\ work' = [work EXCEPT ![p][w] = Idle] \/ Goto(p, w, "rejecting")
  /\ UNCHANGED <<lists, dest, loop, fetched, chan, held, stop, sent, tools, exits>>

\* delivery.Return: RPUSH to the ready list, so that it is the next one out ...
ReturnPush(p, w) ==
  /\ "return" \in Ends
  /\ MayEnd
  /\ work[p][w].at = "filter"
  /\ ready' = Append(ready, work[p][w].msg)
  /\ Goto(p, w, "returning")
  /\ UNCHANGED <<unacked, rejected, dest, loop, fetched, chan, held, stop, sent, tools,
                 errors>>

\* The process ends: what it holds in memory is gone, the Redis lists stay.
ProcessEnds(p) ==
  /\ loop' = [loop EXCEPT ![p] = "down"]
  /\ fetched' = [fetched EXCEPT ![p] = None]
  /\ chan' = [chan EXCEPT ![p] = <<>>]
  /\ held' = [held EXCEPT ![p] = None]
  /\ work' = [work EXCEPT ![p] = [w \in Workers |-> Idle]]
  /\ stop' = [stop EXCEPT ![p] = FALSE]

\* ... then LREM, and the log.Fatalf that follows every Return.
ReturnRem(p, w) ==
  /\ work[p][w].at = "returning"
  /\ unacked' = LRem(work[p][w].msg)
  /\ ProcessEnds(p)
  /\ UNCHANGED <<ready, rejected, dest, sent, tools, exits, errors>>

\* The RPUSH of a Return fails: after a timeout Return gives up and the
\* process ends, after another error the LREM follows.
ReturnError(p, w) ==
  /\ "return" \in Ends
  /\ MayEnd /\ RedisError
  /\ work[p][w].at = "filter"
  /\ \/ ProcessEnds(p)
     \/ Goto(p, w, "returning") /\ UNCHANGED <<loop, fetched, chan, held, stop>>
  /\ UNCHANGED <<lists, dest, sent, tools>>

-----------------------------------------------------------------------------
(* Processes.                                                              *)

\* A kill, or a panic in a worker goroutine: RelayConsumer.Consume's recover
\* is in another goroutine and never sees it.
Crash(p) ==
  /\ loop[p] # "down"
  /\ MayEnd
  /\ ProcessEnds(p)
  /\ UNCHANGED <<lists, dest, sent, tools, errors>>

\* StopConsuming.
StopConsuming(p) ==
  /\ loop[p] \in {"fetch", "send"} /\ ~stop[p]
  /\ MayEnd
  /\ stop' = [stop EXCEPT ![p] = TRUE]
  /\ UNCHANGED <<lists, dest, loop, fetched, chan, held, work, sent, tools, errors>>

\* StopConsuming has returned and so does main, with what is in memory.
Shutdown(p) ==
  /\ loop[p] = "ended"
  /\ ProcessEnds(p)
  /\ UNCHANGED <<lists, dest, sent, tools, exits, errors>>

\* StartConsuming in a new process.
Restart(p) ==
  /\ loop[p] = "down"
  /\ loop' = [loop EXCEPT ![p] = "fetch"]
  /\ UNCHANGED <<lists, dest, fetched, chan, held, work, stop, sent, tools, exits, errors>>

-----------------------------------------------------------------------------
(* ReturnAllUnacked and PurgeRejected: a length, then as many moves.       *)

SweepStart ==
  /\ sweep = 0 /\ admin < MaxAdmin /\ unacked # <<>>
  /\ sweep' = Len(unacked) /\ admin' = admin + 1
  /\ UNCHANGED <<lists, dest, local, sent, purged, purge, exits, errors>>

\* RPOPLPUSH unacked ready; an empty list ends the sweep.
SweepMove ==
  /\ sweep > 0
  /\ IF unacked = <<>> THEN sweep' = 0 /\ UNCHANGED lists
     ELSE /\ sweep' = sweep - 1
          /\ ready' = <<Last(unacked)>> \o ready
          /\ unacked' = Front(unacked)
          /\ UNCHANGED rejected
  /\ UNCHANGED <<dest, local, sent, purged, purge, admin, exits, errors>>

PurgeStart ==
  /\ purge = 0 /\ admin < MaxAdmin /\ rejected # <<>>
  /\ purge' = Len(rejected) /\ admin' = admin + 1
  /\ UNCHANGED <<lists, dest, local, sent, purged, sweep, exits, errors>>

\* LTRIM rejected 0 -(1+batch): the oldest entries go; one batch is all of
\* them below purgeBatchSize.
PurgeTrim ==
  /\ purge > 0
  /\ rejected' = SubSeq(rejected, 1, Len(rejected) - purge)
  /\ purged' = SubSeq(rejected, Len(rejected) - purge + 1, Len(rejected)) \o purged
  /\ purge' = 0
  /\ UNCHANGED <<ready, unacked, dest, local, sent, sweep, admin, exits, errors>>

-----------------------------------------------------------------------------
Work(p, w) == \/ Acquire(p, w) \/ Filter(p, w) \/ RelayPublish(p, w) \/ Ack(p, w)
              \/ RejectPush(p, w) \/ RejectRem(p, w) \/ ReturnRem(p, w)

Loop(p) == Fetch(p) \/ Send(p) \/ FetchTimeout(p) \/ Dispatch(p) \/ Restart(p)

Environment ==
  \/ \E m \in Msgs : Publish(m)
  \/ \E p \in Procs : FetchError(p) \/ Crash(p) \/ StopConsuming(p) \/ Shutdown(p)
  \/ \E p \in Procs, w \in Workers :
       RelayPublishError(p, w) \/ AckError(p, w) \/ ReturnPush(p, w) \/ ReturnError(p, w)
  \/ SweepStart \/ SweepMove \/ PurgeStart \/ PurgeTrim

Next == \/ Environment
        \/ \E p \in Procs : Loop(p)
        \/ \E p \in Procs, w \in Workers : Work(p, w)

Spec == Init /\ [][Next]_vars

\* Goroutines of a running process are scheduled, and an ended process is
\* restarted.
FairSpec ==
  /\ Spec
  /\ \A p \in Procs : WF_vars(Fetch(p) \/ Send(p) \/ FetchTimeout(p) \/ Restart(p))
  /\ \A p \in Procs : WF_vars(Dispatch(p))
  /\ \A p \in Procs, w \in Workers : WF_vars(Work(p, w))

-----------------------------------------------------------------------------
(* Properties.                                                             *)

Deliveries == Msgs \cup {Empty}
WorkerStates ==
  [at : {"idle", "filter", "publish", "ack", "rejecting", "returning"},
   msg : Deliveries \cup {None}, to : 0..NDest]

TypeOK ==
  /\ ready \in Seq(Deliveries) /\ unacked \in Seq(Deliveries) /\ rejected \in Seq(Deliveries)
  /\ dest \in [Dests -> Seq(Msgs)]
  /\ loop \in [Procs -> {"down", "fetch", "send", "ended"}]
  /\ fetched \in [Procs -> Deliveries \cup {None}]
  /\ \A p \in Procs : chan[p] \in Seq(Deliveries) /\ Len(chan[p]) <= Prefetch
  /\ held \in [Procs -> Deliveries \cup {None}]
  /\ work \in [Procs -> [Workers -> WorkerStates]]
  /\ stop \in [Procs -> BOOLEAN]

\* Where a process has deliveries in memory, and what is there.
Places == ({"fetched", "held"} \X {1}) \cup ({"chan"} \X (1..Prefetch)) \cup ({"work"} \X Workers)

DeliveryAt(p, x) ==
  CASE x[1] = "fetched" -> fetched[p]
    [] x[1] = "held"    -> held[p]
    [] x[1] = "chan"    -> IF x[2] <= Len(chan[p]) THEN chan[p][x[2]] ELSE None
    [] x[1] = "work"    -> work[p][x[2]].msg

\* The copies of m in memory of any process.
InMemory(m) == {y \in Procs \X Places : DeliveryAt(y[1], y[2]) = m}

\* Every delivery in the memory of a process has a copy of its own in the
\* unacked list (queue_consumer.go:153-164, delivery.go:55-93), so that its
\* end can never lose one; also while equal payloads, whose LREMs cannot be
\* told apart, are acked, rejected and returned by several processes; until
\* ReturnAllUnacked takes the copies of deliveries still under way.
InFlightBacked == admin = 0 => \A m \in Msgs : Count(unacked, m) >= Cardinality(InMemory(m))

\* At least once (relay.go:60-68): every copy of a message the filter passes
\* is in a list of the queue, was purged after a rejection, or has been
\* published to each destination, wherever the processes end in between and
\* whatever ReturnAllUnacked and PurgeRejected do; an error that util.go:20
\* takes for a success costs one copy and no more.
AtLeastOnce ==
  \A m \in Passes, d \in Dests :
    Count(sent, m) <= Count(ready, m) + Count(unacked, m) + Count(rejected, m)
                      + Count(purged, m) + Count(dest[d], m) + errors

\* The i-th message pushed to a list.
Nth(list, i) == list[Len(list) + 1 - i]

\* list holds exactly those of the first n messages sent that pass, in the
\* order in which they were sent: its i-th one is the f[i]-th one sent.
Relays(list, n) ==
  LET passing == {k \in 1..n : Nth(sent, k) \in Passes}
  IN  \E f \in [1..Len(list) -> passing] :
        /\ \A i, j \in 1..Len(list) : i < j => f[i] < f[j]
        /\ \A k \in passing : \E i \in 1..Len(list) : f[i] = k
        /\ \A i \in 1..Len(list) : Nth(list, i) = Nth(sent, f[i])

\* One process with one worker relays in the order of publication
\* (queue_consumer.go:155, publisher.go:26): each destination holds exactly
\* the oldest messages that pass.
InOrder == \A d \in Dests : \E n \in 0..Len(sent) : Relays(dest[d], n)

\* A delivered message is handled (relay.go:51-69): from any point on, the
\* queue is eventually empty, nothing being published any more.
EventuallyHandled == []<>(ready = <<>> /\ unacked = <<>>)

\* A message in unacked that no process has in memory.
Orphan(m) == Count(unacked, m) > Cardinality(InMemory(m))

\* relay.go:54: after a panic, "Return in-flight messages before continuing".
OrphansReturned == \A m \in Msgs : Orphan(m) ~> ~Orphan(m)

=============================================================================
