----------------------------- MODULE DelayRelay -----------------------------
(***************************************************************************)
(* The delay relay: channels/delay_relay.go on the Relay of relay.go, run  *)
(* by cmd/delayrelay.                                                      *)
(*                                                                         *)
(* A relay with one worker consumes a queue.  When it takes out a sentinel *)
(* it acks it and waits on delayChan; Flush publishes another sentinel and *)
(* then signals delayChan, so that the messages between the two sentinels  *)
(* are relayed.  Flushes come from a signal channel; on a topic they run   *)
(* concurrently, and sync.Once lets one of them through at a time.         *)
(*                                                                         *)
(* Messages are numbered in the order they are sent.  The queue is FIFO    *)
(* (RedisQueue!InOrder): it is one sequence, oldest first, whose first     *)
(* `pre` entries consume() has already moved to the unacked list and into  *)
(* memory.                                                                 *)
(***************************************************************************)
EXTENDS Naturals, Sequences, FiniteSets

CONSTANTS Flushers,   \* goroutines that may call Flush
          Prefetch,   \* deliveries the process keeps in memory ahead of the worker
          MaxSend,    \* bound: messages sent
          MaxFlush,   \* bound: calls of Flush
          MaxEnds,    \* bound: ends of the process
          MaxErrors   \* bound: Redis errors when a sentinel is published

ASSUME BoundAssumption ==
  /\ Prefetch \in Nat \ {0} /\ MaxSend \in Nat /\ MaxFlush \in Nat
  /\ MaxEnds \in Nat /\ MaxErrors \in Nat

\* The sentinel payload, "pause"; the messages are the numbers from 1 on.
Sentinel == 0

VARIABLES
  up,        \* the process runs
  pipe, pre, \* the queue and how much of it is in memory
  unacked,   \* copies of each payload in the unacked list
  worker,    \* the goroutine that holds the semaphore
  once,      \* which sync.Once the relay has; an earlier one has been used
  flusher,   \* the calls of Flush under way
  sent,      \* messages sent so far
  mark,      \* messages sent before the last sentinel a Flush published
  relayed,   \* messages that reached the destination
  calls, ends, errors

vars == <<up, pipe, pre, unacked, worker, once, flusher, sent, mark, relayed,
          calls, ends, errors>>

Payloads == 0..MaxSend

IdleWorker  == [at |-> "idle", msg |-> Sentinel]
IdleFlusher == [at |-> "idle", gen |-> 0, seen |-> 0]

\* NewDelayRelay has published its sentinel to an empty queue and the relay
\* has been started.
Init ==
  /\ up = TRUE
  /\ pipe = <<Sentinel>> /\ pre = 0 /\ unacked = [m \in Payloads |-> 0]
  /\ worker = IdleWorker
  /\ once = 0 /\ flusher = [f \in Flushers |-> IdleFlusher]
  /\ sent = 0 /\ mark = 0 /\ relayed = {}
  /\ calls = 0 /\ ends = 0 /\ errors = 0

\* Another service publishes a message to the queue.
Send ==
  /\ sent < MaxSend
  /\ sent' = sent + 1
  /\ pipe' = Append(pipe, sent + 1)
  /\ UNCHANGED <<up, pre, unacked, worker, once, flusher, mark, relayed, calls, ends, errors>>

\* Publish of a sentinel, whose answer nobody looks at.
PublishSentinel ==
  \/ pipe' = Append(pipe, Sentinel) /\ UNCHANGED errors
  \/ errors < MaxErrors /\ errors' = errors + 1 /\ UNCHANGED pipe

\* Mutant of Start: NewDelayRelay publishes no sentinel.
StartWithout ==
  /\ ~up
  /\ up' = TRUE
  /\ UNCHANGED <<pipe, pre, unacked, worker, once, flusher, sent, mark, relayed, calls, ends, errors>>

\* NewDelayRelay and Start in a new process.
Start ==
  /\ ~up
  /\ up' = TRUE
  /\ PublishSentinel
  /\ UNCHANGED <<pre, unacked, worker, once, flusher, sent, mark, relayed, calls, ends>>

-----------------------------------------------------------------------------
(* The relay.                                                              *)

\* Mutant of Fetch: no limit to what is in memory.
FetchUnbounded ==
  /\ up
  /\ pre < Len(pipe)
  /\ pre' = pre + 1
  /\ unacked' = [unacked EXCEPT ![pipe[pre + 1]] = @ + 1]
  /\ UNCHANGED <<up, pipe, worker, once, flusher, sent, mark, relayed, calls, ends, errors>>

\* consume() moves the next message to unacked and into memory.
Fetch ==
  /\ up
  /\ pre < Prefetch /\ pre < Len(pipe)
  /\ pre' = pre + 1
  /\ unacked' = [unacked EXCEPT ![pipe[pre + 1]] = @ + 1]
  /\ UNCHANGED <<up, pipe, worker, once, flusher, sent, mark, relayed, calls, ends, errors>>

\* The semaphore is free and the worker gets the next delivery.
Take ==
  /\ worker.at = "idle" /\ pre > 0
  /\ worker' = [at |-> "filter", msg |-> Head(pipe)]
  /\ pipe' = Tail(pipe) /\ pre' = pre - 1
  /\ UNCHANGED <<up, unacked, once, flusher, sent, mark, relayed, calls, ends, errors>>

\* LREM of one copy of the payload, if there is one.
LRem(m) == [unacked EXCEPT ![m] = IF @ > 0 THEN @ - 1 ELSE @]

\* Filter on a message, and Publish to the destination.
Relay ==
  /\ worker.at = "filter" /\ worker.msg # Sentinel
  /\ relayed' = relayed \cup {worker.msg}
  /\ worker' = [worker EXCEPT !.at = "ack"]
  /\ UNCHANGED <<up, pipe, pre, unacked, once, flusher, sent, mark, calls, ends, errors>>

\* Filter on the sentinel: Ack, then wait on delayChan.
Pause ==
  /\ worker.at = "filter" /\ worker.msg = Sentinel
  /\ unacked' = LRem(Sentinel)
  /\ worker' = [worker EXCEPT !.at = "wait"]
  /\ UNCHANGED <<up, pipe, pre, once, flusher, sent, mark, relayed, calls, ends, errors>>

\* Mutant of Ack: the worker keeps the semaphore.
AckHolds ==
  /\ worker.at = "ack"
  /\ unacked' = LRem(worker.msg)
  /\ UNCHANGED <<up, pipe, pre, worker, once, flusher, sent, mark, relayed, calls, ends, errors>>

\* The relay's Ack; for the sentinel it is the second one.
Ack ==
  /\ worker.at = "ack"
  /\ unacked' = LRem(worker.msg)
  /\ worker' = IdleWorker
  /\ UNCHANGED <<up, pipe, pre, once, flusher, sent, mark, relayed, calls, ends, errors>>

-----------------------------------------------------------------------------
(* Flush.                                                                  *)

\* A signal arrives and Flush reads relay.once.
FlushCall(f) ==
  /\ up
  /\ flusher[f].at = "idle" /\ calls < MaxFlush
  /\ calls' = calls + 1
  /\ flusher' = [flusher EXCEPT ![f] = [at |-> "do", gen |-> once, seen |-> sent]]
  /\ UNCHANGED <<up, pipe, pre, unacked, worker, once, sent, mark, relayed, ends, errors>>

\* Somebody is inside the function of this sync.Once.
Inside(gen) == \E g \in Flushers : flusher[g].at \in {"signal", "renew"} /\ flusher[g].gen = gen

\* Mutant of FlushEnter: no sentinel is published.
FlushEnterWithout(f) ==
  /\ flusher[f].at = "do" /\ flusher[f].gen = once /\ ~Inside(once)
  /\ mark' = sent
  /\ flusher' = [flusher EXCEPT ![f].at = "signal"]
  /\ UNCHANGED <<up, pipe, pre, unacked, worker, once, sent, relayed, calls, ends, errors>>

\* once.Do lets this call in, and it publishes a sentinel.
FlushEnter(f) ==
  /\ flusher[f].at = "do" /\ flusher[f].gen = once /\ ~Inside(once)
  /\ PublishSentinel
  /\ mark' = sent
  /\ flusher' = [flusher EXCEPT ![f].at = "signal"]
  /\ UNCHANGED <<up, pre, unacked, worker, once, sent, relayed, calls, ends>>

\* once.Do has been done by another call: Flush returns.
FlushCoalesced(f) ==
  /\ flusher[f].at = "do" /\ flusher[f].gen # once
  /\ flusher' = [flusher EXCEPT ![f] = IdleFlusher]
  /\ UNCHANGED <<up, pipe, pre, unacked, worker, once, sent, mark, relayed, calls, ends, errors>>

\* delayChan <- true meets <-delayChan; Filter answers false.
Signal(f) ==
  /\ flusher[f].at = "signal" /\ worker.at = "wait"
  /\ flusher' = [flusher EXCEPT ![f].at = "renew"]
  /\ worker' = [worker EXCEPT !.at = "ack"]
  /\ UNCHANGED <<up, pipe, pre, unacked, once, sent, mark, relayed, calls, ends, errors>>

\* relay.once = &sync.Once{}, and Flush returns.
FlushRenew(f) ==
  /\ flusher[f].at = "renew"
  /\ once' = once + 1
  /\ flusher' = [flusher EXCEPT ![f] = IdleFlusher]
  /\ UNCHANGED <<up, pipe, pre, unacked, worker, sent, mark, relayed, calls, ends, errors>>

-----------------------------------------------------------------------------
\* The process ends; what it had in memory stays in unacked, out of the queue.
End ==
  /\ up /\ ends < MaxEnds
  /\ ends' = ends + 1
  /\ up' = FALSE /\ pre' = 0 /\ worker' = IdleWorker
  /\ once' = 0 /\ flusher' = [f \in Flushers |-> IdleFlusher]
  /\ pipe' = SubSeq(pipe, pre + 1, Len(pipe))
  /\ UNCHANGED <<unacked, sent, mark, relayed, calls, errors>>

RelayStep == Fetch \/ Take \/ Relay \/ Pause \/ Ack

FlushStep(f) == FlushEnter(f) \/ FlushCoalesced(f) \/ Signal(f) \/ FlushRenew(f)

Next == \/ Send \/ Start \/ End \/ Fetch \/ Take \/ Relay \/ Pause \/ Ack
        \/ \E f \in Flushers : FlushCall(f) \/ FlushStep(f)

Spec == Init /\ [][Next]_vars

\* The goroutines of a running process are scheduled.
FairSpec == Spec /\ WF_vars(Fetch) /\ WF_vars(Take \/ Relay \/ Pause \/ Ack)
                 /\ \A f \in Flushers : WF_vars(FlushStep(f))

-----------------------------------------------------------------------------
(* Properties.                                                             *)

TypeOK ==
  /\ up \in BOOLEAN
  /\ pipe \in Seq(Payloads) /\ pre \in 0..Prefetch /\ pre <= Len(pipe)
  /\ unacked \in [Payloads -> Nat]
  /\ worker \in [at : {"idle", "filter", "wait", "ack"}, msg : Payloads]
  /\ once \in Nat
  /\ flusher \in [Flushers -> [at : {"idle", "do", "signal", "renew"}, gen : Nat, seen : Nat]]
  /\ sent \in 0..MaxSend /\ mark \in 0..MaxSend
  /\ relayed \subseteq Payloads
  /\ calls \in Nat /\ ends \in Nat /\ errors \in Nat

\* Every message relayed was sent before the last Flush published its sentinel.
Piled == \A m \in relayed : m <= mark

\* delay_relay.go:42-43, "Messages will pile up on the DelayRelay until
\* DelayRelay.Flush() is called": a message is relayed only once a Flush that
\* published its sentinel after the message was sent.  It holds as long as
\* the process has not ended (a restart releases what had piled up, since the
\* sentinel that held it was acked before the wait, line 31) and every
\* sentinel reached Redis.
PilesUpUntilFlush == ends = 0 /\ errors = 0 => Piled

\* The sentinels on their way to the worker, or that it waits for.
Pauses ==
  Cardinality({i \in DOMAIN pipe : pipe[i] = Sentinel})
  + (IF worker.msg = Sentinel /\ worker.at \in {"filter", "wait"} THEN 1 ELSE 0)

\* One pause per Flush (delay_relay.go:16-22, 63): however many calls run at
\* the same time, there is one sentinel, and one more for the call that has
\* published its own and not yet released the worker.  A restart may add to
\* them, and never leaves fewer: a new process, too, stops at a sentinel until
\* its next Flush, as long as every sentinel could be published.
OnePausePerFlush ==
  LET due == 1 + (IF \E f \in Flushers : flusher[f].at = "signal" THEN 1 ELSE 0)
  IN  up /\ errors = 0 => Pauses >= due /\ (ends = 0 => Pauses = due)

\* delay_relay.go:43, "at which point any queued messages will flush": what
\* was sent before a call of Flush is eventually relayed, with no later call,
\* when no call is inside the sync.Once it reads (a call that is coalesced into
\* an earlier one releases nothing of its own), unless a process has ended with
\* some of it in memory.
FlushReleases ==
  \A f \in Flushers, n \in 0..MaxSend :
    (/\ flusher[f].at = "do" /\ flusher[f].seen = n
     /\ flusher[f].gen = once /\ ~Inside(once)) ~> (ends > 0 \/ 1..n \subseteq relayed)

=============================================================================
