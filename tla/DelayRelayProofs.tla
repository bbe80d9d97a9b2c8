-------------------------- MODULE DelayRelayProofs --------------------------
(***************************************************************************)
(* Proofs about DelayRelay, for any number of concurrent calls of Flush,   *)
(* of messages and of prefetched deliveries.                               *)
(***************************************************************************)
EXTENDS DelayRelay, SequenceTheorems, FiniteSetTheorems, TLAPS

\* The worker has a sentinel it has not been released from.
Holds == worker.msg = Sentinel /\ worker.at \in {"filter", "wait"}

Signalling == \E f \in Flushers : flusher[f].at = "signal"

\* Entry i of the queue is a sentinel behind which the unflushed messages are.
Barrier(i) == /\ i \in 1..Len(pipe) /\ pipe[i] = Sentinel
              /\ \A j \in 1..Len(pipe) : pipe[j] > mark => j > i

\* sync.Once: one call of Flush is inside at a time, and it has the current one.
OneInside ==
  /\ \A f \in Flushers : flusher[f].at \in {"signal", "renew"} => flusher[f].gen = once
  /\ \A f, g \in Flushers : /\ flusher[f].at \in {"signal", "renew"}
                            /\ flusher[g].at \in {"signal", "renew"}
                            => f = g

\* Whatever the worker may take next is flushed, or behind a sentinel.
Guarded == ~Signalling => Holds \/ \E i \in 1..Len(pipe) : Barrier(i)

\* A call that has published its sentinel has another one in front of it.
GuardedTwice ==
  Signalling => \E i \in 1..Len(pipe) :
                  Barrier(i) /\ (Holds \/ \E k \in 1..i-1 : pipe[k] = Sentinel)

\* Only messages that were sent are in the queue.
OnlySent == \A j \in 1..Len(pipe) : pipe[j] <= sent

\* What the worker holds may be relayed.
WorkerFlushed == worker.at # "idle" => worker.msg <= mark

\* The inductive invariant.  Piled alone says nothing of the
\* queue; that the next message out is flushed follows from Guarded, and a
\* release keeps Guarded because of GuardedTwice, which holds since OneInside
\* keeps a second Flush from taking the barrier of the first.
IInv == /\ TypeOK /\ OneInside /\ mark <= sent /\ OnlySent
        /\ Guarded /\ GuardedTwice /\ WorkerFlushed /\ Piled

USE BoundAssumption

-----------------------------------------------------------------------------
(* Type correctness.                                                       *)

\* A queue without its prefetched entries is a queue.
LEMMA SubSeqType ==
  ASSUME NEW S, NEW s \in Seq(S), NEW n \in Nat, n <= Len(s)
  PROVE  SubSeq(s, n + 1, Len(s)) \in Seq(S) /\ Len(SubSeq(s, n + 1, Len(s))) \in Nat
OBVIOUS

\* The sentinel and the messages are payloads.
LEMMA PayloadFacts == Sentinel \in Payloads /\ Payloads \subseteq Nat
BY DEF Sentinel, Payloads

\* Publishing a sentinel lengthens the queue or leaves it.
LEMMA PublishType ==
  ASSUME TypeOK, PublishSentinel
  PROVE  pipe' \in Seq(Payloads) /\ Len(pipe') >= Len(pipe) /\ errors' \in Nat
<1>1. CASE pipe' = Append(pipe, Sentinel) /\ UNCHANGED errors
  BY <1>1, PayloadFacts DEF TypeOK
<1>2. CASE errors' = errors + 1 /\ UNCHANGED pipe
  BY <1>2 DEF TypeOK
<1> QED BY <1>1, <1>2 DEF PublishSentinel

\* One LREM of a payload leaves a count of every payload.
LEMMA LRemType ==
  ASSUME unacked \in [Payloads -> Nat], NEW m \in Payloads
  PROVE  LRem(m) \in [Payloads -> Nat]
BY DEF LRem

\* A new relay is well typed.
LEMMA InitType == Init => TypeOK
BY PayloadFacts DEF Init, TypeOK, IdleWorker, IdleFlusher

\* Every step keeps the types.
LEMMA NextType == TypeOK /\ [Next]_vars => TypeOK'
<1> SUFFICES ASSUME TypeOK, [Next]_vars PROVE TypeOK'
  OBVIOUS
<1> USE DEF TypeOK
<1>1. CASE Send
  <2>1. sent + 1 \in Payloads
    BY <1>1 DEF Send, Payloads
  <2>2. pipe' \in Seq(Payloads) /\ Len(pipe') = Len(pipe) + 1
    BY <1>1, <2>1 DEF Send
  <2> QED BY <1>1, <2>2 DEF Send
<1>2. CASE Start
  <2>1. pipe' \in Seq(Payloads) /\ Len(pipe') >= Len(pipe) /\ errors' \in Nat
    BY <1>2, PublishType DEF Start
  <2> QED BY <1>2, <2>1 DEF Start
<1>3. CASE End
  <2>1. pipe' \in Seq(Payloads) /\ Len(pipe') \in Nat
    BY <1>3, SubSeqType DEF End
  <2>2. worker' \in [at : {"idle", "filter", "wait", "ack"}, msg : Payloads]
    BY <1>3, PayloadFacts DEF End, IdleWorker
  <2>3. flusher' \in [Flushers -> [at : {"idle", "do", "signal", "renew"}, gen : Nat, seen : Nat]]
    BY <1>3 DEF End, IdleFlusher
  <2>4. pre' \in 0..Prefetch /\ pre' <= Len(pipe') /\ ends' \in Nat
    BY <1>3, <2>1 DEF End
  <2> QED BY <1>3, <2>1, <2>2, <2>3, <2>4 DEF End
<1>4. CASE Fetch
  <2>1. pipe[pre + 1] \in Payloads
    BY <1>4 DEF Fetch
  <2>2. unacked' \in [Payloads -> Nat]
    BY <1>4, <2>1 DEF Fetch
  <2>3. pre' \in 0..Prefetch /\ pre' <= Len(pipe')
    BY <1>4 DEF Fetch
  <2> QED BY <1>4, <2>2, <2>3 DEF Fetch
<1>5. CASE Take
  <2>1. pipe # <<>> /\ Head(pipe) \in Payloads
    BY <1>5 DEF Take
  <2>2. pipe' \in Seq(Payloads) /\ Len(pipe') = Len(pipe) - 1
    BY <1>5, <2>1 DEF Take
  <2>3. worker' \in [at : {"idle", "filter", "wait", "ack"}, msg : Payloads]
    BY <1>5, <2>1 DEF Take
  <2> QED BY <1>5, <2>2, <2>3 DEF Take
<1>6. CASE Relay
  BY <1>6 DEF Relay
<1>7. CASE Pause
  <2>1. unacked' \in [Payloads -> Nat]
    BY <1>7, LRemType, PayloadFacts DEF Pause
  <2> QED BY <1>7, <2>1 DEF Pause
<1>8. CASE Ack
  <2>1. unacked' \in [Payloads -> Nat]
    BY <1>8, LRemType DEF Ack
  <2> QED BY <1>8, <2>1, PayloadFacts DEF Ack, IdleWorker
<1>9. ASSUME NEW f \in Flushers, FlushCall(f) PROVE TypeOK'
  <2>1. flusher' \in [Flushers -> [at : {"idle", "do", "signal", "renew"}, gen : Nat, seen : Nat]]
    BY <1>9 DEF FlushCall
  <2> QED BY <1>9, <2>1 DEF FlushCall
<1>10. ASSUME NEW f \in Flushers, FlushEnter(f) PROVE TypeOK'
  <2>1. pipe' \in Seq(Payloads) /\ Len(pipe') >= Len(pipe) /\ errors' \in Nat
    BY <1>10, PublishType DEF FlushEnter
  <2>2. pre' \in 0..Prefetch /\ pre' <= Len(pipe') /\ mark' \in 0..MaxSend
    BY <1>10, <2>1 DEF FlushEnter
  <2>3. flusher' \in [Flushers -> [at : {"idle", "do", "signal", "renew"}, gen : Nat, seen : Nat]]
    BY <1>10 DEF FlushEnter
  <2> QED BY <1>10, <2>1, <2>2, <2>3 DEF FlushEnter
<1>11. ASSUME NEW f \in Flushers, FlushCoalesced(f) PROVE TypeOK'
  BY <1>11 DEF FlushCoalesced, IdleFlusher
<1>12. ASSUME NEW f \in Flushers, Signal(f) PROVE TypeOK'
  BY <1>12 DEF Signal
<1>13. ASSUME NEW f \in Flushers, FlushRenew(f) PROVE TypeOK'
  BY <1>13 DEF FlushRenew, IdleFlusher
<1>14. CASE UNCHANGED vars
  BY <1>14 DEF vars
<1> QED
  BY <1>1, <1>2, <1>3, <1>4, <1>5, <1>6, <1>7, <1>8, <1>9, <1>10, <1>11, <1>12, <1>13,
     <1>14
  DEF Next, FlushStep

\* The delay relay is well typed, restarts and Redis errors included; never
\* is more prefetched than the queue had.
THEOREM TypeCorrect == Spec => []TypeOK
BY InitType, NextType, PTL DEF Spec

-----------------------------------------------------------------------------
(* Messages pile up until Flush.                                           *)

\* The entries of the queue are numbers.
LEMMA PipeFacts ==
  ASSUME TypeOK
  PROVE  /\ pipe \in Seq(Nat) /\ Len(pipe) \in Nat
         /\ sent \in Nat /\ mark \in Nat /\ pre \in Nat
         /\ worker.msg \in Nat /\ relayed \subseteq Nat
<1>1. pipe \in Seq(Payloads) /\ Len(pipe) \in Nat
  BY DEF TypeOK
<1>3. pipe \in Seq(Nat)
  BY <1>1, PayloadFacts, SeqMonotonic
<1>4. sent \in Nat /\ mark \in Nat /\ pre \in Nat
  BY DEF TypeOK
<1>5. worker.msg \in Nat /\ relayed \subseteq Nat
  BY PayloadFacts DEF TypeOK
<1> QED BY <1>1, <1>3, <1>4, <1>5

\* The invariant holds when the relay starts on an empty queue.
LEMMA InitIInv == Init => IInv
<1> SUFFICES ASSUME Init PROVE IInv
  OBVIOUS
<1>1. TypeOK
  BY InitType
<1>2. pipe = <<Sentinel>> /\ Len(pipe) = 1 /\ pipe[1] = 0
  BY DEF Init, Sentinel
<1>3. Barrier(1)
  BY <1>2 DEF Barrier, Init, Sentinel
<1>4. OneInside /\ ~Signalling /\ mark <= sent /\ OnlySent /\ WorkerFlushed /\ Piled
  BY <1>2 DEF OnlySent, Init, OneInside, Signalling, WorkerFlushed, Piled, IdleWorker,
         IdleFlusher
<1> QED BY <1>1, <1>2, <1>3, <1>4 DEF IInv, Guarded, GuardedTwice

\* A message sent later is behind every barrier.
LEMMA SendIInv == ASSUME IInv, Send PROVE IInv'
<1> USE DEF IInv
<1>1. TypeOK'
  BY NextType DEF Next
<1>2. /\ pipe \in Seq(Nat) /\ sent \in Nat /\ mark \in Nat
      /\ pipe' = Append(pipe, sent + 1) /\ sent' = sent + 1
      /\ UNCHANGED <<worker, once, flusher, mark, relayed>>
  BY PipeFacts DEF Send
<1>3. Len(pipe') = Len(pipe) + 1 /\ \A i \in 1..Len(pipe) : pipe'[i] = pipe[i]
  BY <1>2
<1>4. \A i \in 1..Len(pipe) : Barrier(i) => Barrier(i)'
  BY <1>2, <1>3 DEF Barrier
<1>5. OneInside' /\ mark' <= sent' /\ OnlySent' /\ WorkerFlushed' /\ Piled'
  BY <1>2, <1>3 DEF OnlySent, OneInside, WorkerFlushed, Piled
<1>6. Holds' = Holds /\ Signalling' = Signalling
  BY <1>2 DEF Holds, Signalling
<1>7. Guarded'
  BY <1>2, <1>3, <1>4, <1>6 DEF Guarded
<1>8. GuardedTwice'
  <2> SUFFICES ASSUME Signalling
               PROVE  (\E i \in 1..Len(pipe) :
                         Barrier(i) /\ (Holds \/ \E k \in 1..i-1 : pipe[k] = Sentinel))'
    BY <1>6 DEF GuardedTwice
  <2>1. PICK i \in 1..Len(pipe) :
          Barrier(i) /\ (Holds \/ \E k \in 1..i-1 : pipe[k] = Sentinel)
    BY DEF GuardedTwice
  <2>2. \A k \in 1..i-1 : k \in 1..Len(pipe)
    BY <1>2
  <2>3. Holds \/ \E k \in 1..i-1 : pipe'[k] = Sentinel
    BY <2>1, <2>2, <1>3
  <2> QED BY <2>1, <2>3, <1>2, <1>3, <1>4, <1>6
<1> QED BY <1>1, <1>5, <1>7, <1>8

\* The next delivery is flushed or is a sentinel, and what stays in the queue
\* is still guarded.
LEMMA TakeIInv == ASSUME IInv, Take PROVE IInv'
<1> USE DEF IInv
<1>1. TypeOK'
  BY NextType DEF Next
<1>2. /\ pipe \in Seq(Nat) /\ mark \in Nat /\ Len(pipe) > 0
      /\ pipe' = Tail(pipe) /\ worker.at = "idle"
      /\ worker' = [at |-> "filter", msg |-> pipe[1]]
      /\ UNCHANGED <<once, flusher, sent, mark, relayed>>
  BY PipeFacts DEF Take, TypeOK
<1>3. Len(pipe') = Len(pipe) - 1 /\ \A i \in 1..Len(pipe)-1 : pipe'[i] = pipe[i + 1]
  BY <1>2
<1>4. ~Holds /\ (Holds' <=> pipe[1] = Sentinel) /\ Signalling' = Signalling
  BY <1>2 DEF Holds, Signalling
<1>5. \A i \in 2..Len(pipe) : Barrier(i) => Barrier(i - 1)'
  <2> SUFFICES ASSUME NEW i \in 2..Len(pipe), Barrier(i) PROVE Barrier(i - 1)'
    OBVIOUS
  <2>1. i - 1 \in 1..Len(pipe') /\ pipe'[i - 1] = Sentinel
    BY <1>2, <1>3 DEF Barrier
  <2>2. ASSUME NEW j \in 1..Len(pipe'), pipe'[j] > mark' PROVE j > i - 1
    <3>1. j + 1 \in 1..Len(pipe) /\ pipe[j + 1] > mark
      BY <1>2, <1>3, <2>2
    <3> QED BY <3>1 DEF Barrier
  <2> QED BY <2>1, <2>2 DEF Barrier
<1>6. \E i \in 1..Len(pipe) :
        Barrier(i) /\ (Signalling => \E k \in 1..i-1 : pipe[k] = Sentinel)
  BY <1>4 DEF Guarded, GuardedTwice
<1>7. PICK i \in 1..Len(pipe) :
        Barrier(i) /\ (Signalling => \E k \in 1..i-1 : pipe[k] = Sentinel)
  BY <1>6
<1>8. pipe[1] <= mark
  BY <1>2, <1>7 DEF Barrier
<1>9. OneInside' /\ mark' <= sent' /\ OnlySent' /\ WorkerFlushed' /\ Piled'
  BY <1>2, <1>3, <1>8 DEF OnlySent, OneInside, WorkerFlushed, Piled
<1>10. i = 1 => pipe[1] = Sentinel /\ ~Signalling
  BY <1>7 DEF Barrier
<1>11. Guarded'
  <2>1. CASE i = 1
    BY <2>1, <1>4, <1>10 DEF Guarded
  <2>2. CASE i # 1
    <3>1. i \in 2..Len(pipe) /\ i - 1 \in 1..Len(pipe')
      BY <2>2, <1>2, <1>3
    <3>2. Barrier(i - 1)'
      BY <3>1, <1>5, <1>7
    <3> QED BY <3>1, <3>2 DEF Guarded
  <2> QED BY <2>1, <2>2
<1>12. GuardedTwice'
  <2> SUFFICES ASSUME Signalling
               PROVE  (\E n \in 1..Len(pipe) :
                         Barrier(n) /\ (Holds \/ \E k \in 1..n-1 : pipe[k] = Sentinel))'
    BY <1>4 DEF GuardedTwice
  <2>1. PICK k \in 1..i-1 : pipe[k] = Sentinel
    BY <1>7
  <2>2. i \in 2..Len(pipe) /\ i - 1 \in 1..Len(pipe')
    BY <2>1, <1>2, <1>3
  <2>3. Barrier(i - 1)'
    BY <2>2, <1>5, <1>7
  <2>4. Holds' \/ \E n \in 1..(i-1)-1 : pipe'[n] = Sentinel
    <3>1. CASE k = 1
      BY <3>1, <2>1, <1>4
    <3>2. CASE k # 1
      <4>1. k - 1 \in 1..(i-1)-1 /\ pipe'[k - 1] = pipe[k]
        BY <3>2, <2>2, <1>3
      <4> QED BY <4>1, <2>1
    <3> QED BY <3>1, <3>2
  <2> QED BY <2>2, <2>3, <2>4
<1> QED BY <1>1, <1>9, <1>11, <1>12

\* Flush publishes its sentinel behind everything sent so far.
LEMMA FlushEnterIInv ==
  ASSUME IInv, errors' = errors, NEW f \in Flushers, FlushEnter(f)
  PROVE  IInv'
<1> USE DEF IInv
<1>1. TypeOK'
  BY NextType DEF Next, FlushStep
<1>2. /\ pipe \in Seq(Nat) /\ mark \in Nat /\ sent \in Nat
      /\ pipe' = Append(pipe, Sentinel) /\ mark' = sent
      /\ UNCHANGED <<worker, once, sent, relayed>>
  <2>1. errors \in Nat /\ errors' # errors + 1
    BY DEF TypeOK
  <2> QED BY <2>1, PipeFacts DEF FlushEnter, PublishSentinel
<1>3. Len(pipe') = Len(pipe) + 1 /\ pipe'[Len(pipe) + 1] = Sentinel
      /\ \A i \in 1..Len(pipe) : pipe'[i] = pipe[i]
  BY <1>2
<1>4. \A g \in Flushers : flusher[g].at \notin {"signal", "renew"}
  BY DEF FlushEnter, Inside, OneInside
<1>5. /\ flusher'[f].at = "signal" /\ flusher'[f].gen = once
      /\ \A g \in Flushers \ {f} : flusher'[g] = flusher[g]
  BY DEF FlushEnter, TypeOK
<1>6. OneInside'
  BY <1>2, <1>4, <1>5 DEF OneInside
<1>7. mark' <= sent' /\ OnlySent' /\ WorkerFlushed' /\ Piled'
  <2>1. OnlySent'
    BY <1>2, <1>3 DEF OnlySent, Sentinel
  <2>2. WorkerFlushed' /\ Piled'
    BY <1>2, PipeFacts DEF WorkerFlushed, Piled
  <2> QED BY <2>1, <2>2, <1>2
<1>8. Signalling' /\ ~Signalling /\ Holds' = Holds
  BY <1>2, <1>4, <1>5 DEF Signalling, Holds
<1>9. Guarded'
  BY <1>8 DEF Guarded
<1>10. GuardedTwice'
  <2>1. PICK n \in Nat : n = Len(pipe) + 1 /\ n \in 1..Len(pipe')
    BY <1>2, <1>3
  <2>2. Barrier(n)'
    <3>1. ASSUME NEW j \in 1..Len(pipe'), pipe'[j] > mark' PROVE j > n
      BY <3>1, <2>1, <1>2, <1>3 DEF OnlySent, Sentinel
    <3> QED BY <3>1, <2>1, <1>3 DEF Barrier
  <2>3. Holds \/ \E k \in 1..Len(pipe) : pipe[k] = Sentinel
    BY <1>8 DEF Guarded, Barrier
  <2>4. Holds' \/ \E k \in 1..n-1 : pipe'[k] = Sentinel
    BY <2>1, <2>3, <1>2, <1>3, <1>8
  <2> QED BY <2>1, <2>2, <2>4 DEF GuardedTwice
<1> QED BY <1>1, <1>6, <1>7, <1>9, <1>10

\* A release leaves the relay guarded by the sentinel Flush published.
LEMMA SignalIInv == ASSUME IInv, NEW f \in Flushers, Signal(f) PROVE IInv'
<1> USE DEF IInv
<1>1. TypeOK'
  BY NextType DEF Next, FlushStep
<1>2. /\ flusher[f].at = "signal" /\ worker.at = "wait"
      /\ worker' = [worker EXCEPT !.at = "ack"]
      /\ UNCHANGED <<pipe, once, sent, mark, relayed>>
  BY DEF Signal
<1>3. /\ flusher'[f].at = "renew" /\ flusher'[f].gen = flusher[f].gen
      /\ \A g \in Flushers \ {f} : flusher'[g] = flusher[g]
  BY DEF Signal, TypeOK
<1>4. OneInside'
  BY <1>2, <1>3 DEF OneInside
<1>5. Signalling /\ ~Signalling'
  BY <1>2, <1>3 DEF OneInside, Signalling
<1>6. Guarded'
  BY <1>2, <1>5 DEF GuardedTwice, Guarded, Barrier
<1>7. GuardedTwice'
  BY <1>5 DEF GuardedTwice
<1>8. mark' <= sent' /\ OnlySent' /\ WorkerFlushed' /\ Piled'
  BY <1>2 DEF OnlySent, WorkerFlushed, Piled, TypeOK
<1> QED BY <1>1, <1>4, <1>6, <1>7, <1>8

\* The calls of Flush that neither publish nor release change nothing the
\* queue depends on.
LEMMA FlushOtherIInv ==
  ASSUME IInv, NEW f \in Flushers, FlushCall(f) \/ FlushCoalesced(f) \/ FlushRenew(f)
  PROVE  IInv'
<1> USE DEF IInv
<1>1. TypeOK'
  BY NextType DEF Next, FlushStep
<1>2. UNCHANGED <<pipe, worker, sent, mark, relayed>>
  BY DEF FlushCall, FlushCoalesced, FlushRenew
<1>3. /\ flusher[f].at # "signal" /\ flusher'[f].at \in {"idle", "do"}
      /\ \A g \in Flushers \ {f} : flusher'[g] = flusher[g]
  BY DEF FlushCall, FlushCoalesced, FlushRenew, TypeOK, IdleFlusher
<1>4. OneInside'
  <2>1. once' # once => flusher[f].at = "renew"
    BY DEF FlushCall, FlushCoalesced, FlushRenew
  <2> QED BY <1>3, <2>1 DEF OneInside
<1>5. Signalling' = Signalling /\ Holds' = Holds
  BY <1>2, <1>3 DEF Signalling, Holds
<1>6. Guarded' /\ GuardedTwice'
  BY <1>2, <1>5 DEF Guarded, GuardedTwice, Barrier
<1>7. mark' <= sent' /\ OnlySent' /\ WorkerFlushed' /\ Piled'
  BY <1>2 DEF OnlySent, WorkerFlushed, Piled
<1> QED BY <1>1, <1>4, <1>6, <1>7

\* The worker's and the consumer's other steps leave the queue as it is.
LEMMA WorkerIInv == ASSUME IInv, Fetch \/ Relay \/ Pause \/ Ack PROVE IInv'
<1> USE DEF IInv
<1>1. TypeOK'
  BY NextType DEF Next
<1>2. UNCHANGED <<pipe, once, flusher, sent, mark>>
  BY DEF Fetch, Relay, Pause, Ack
<1>3. OneInside' /\ mark' <= sent' /\ OnlySent' /\ Signalling' = Signalling
  BY <1>2 DEF OneInside, OnlySent, Signalling
<1>4. Holds' = Holds
  BY DEF Holds, Fetch, Relay, Pause, Ack, IdleWorker, TypeOK
<1>5. Guarded' /\ GuardedTwice'
  BY <1>2, <1>3, <1>4 DEF Guarded, GuardedTwice, Barrier
<1>6. WorkerFlushed' /\ Piled'
  BY <1>2 DEF Fetch, Relay, Pause, Ack, IdleWorker, TypeOK, WorkerFlushed, Piled
<1> QED BY <1>1, <1>3, <1>5, <1>6

\* The invariant holds until the process ends or a sentinel is lost.
OneLife == ends = 0 /\ errors = 0 => IInv /\ up

\* Every step keeps it: an end or a lost sentinel makes it vacuous.
LEMMA NextIInv ==
  ASSUME TypeOK, OneLife, [Next]_vars PROVE OneLife'
<1> SUFFICES ASSUME ends' = 0, errors' = 0 PROVE IInv' /\ up'
  BY DEF OneLife
<1>0. IInv /\ up /\ ends' = ends /\ errors' = errors
  <2>1. ends \in Nat /\ errors \in Nat
    BY DEF TypeOK
  <2>2. ends' >= ends /\ errors' >= errors
    BY <2>1 DEF Next, vars, Send, Start, PublishSentinel, End, Fetch, Relay, Pause, Ack, Take,
                FlushCall, FlushStep, FlushEnter, FlushCoalesced, Signal, FlushRenew
  <2> QED BY <2>1, <2>2 DEF OneLife
<1>1. CASE Send
  BY <1>0, <1>1, SendIInv DEF Send
<1>2. CASE Start
  BY <1>0, <1>2 DEF Start
<1>3. CASE End
  BY <1>0, <1>3 DEF End, IInv, TypeOK
<1>4. CASE Fetch \/ Relay \/ Pause \/ Ack
  BY <1>0, <1>4, WorkerIInv DEF Fetch, Relay, Pause, Ack
<1>5. CASE Take
  BY <1>0, <1>5, TakeIInv DEF Take
<1>6. ASSUME NEW f \in Flushers, FlushEnter(f) PROVE IInv' /\ up'
  BY <1>0, <1>6, FlushEnterIInv DEF FlushEnter
<1>7. ASSUME NEW f \in Flushers, Signal(f) PROVE IInv' /\ up'
  BY <1>0, <1>7, SignalIInv DEF Signal
<1>8. ASSUME NEW f \in Flushers, FlushCall(f) \/ FlushCoalesced(f) \/ FlushRenew(f)
      PROVE IInv' /\ up'
  BY <1>0, <1>8, FlushOtherIInv DEF FlushCall, FlushCoalesced, FlushRenew
<1>9. CASE UNCHANGED vars
  BY <1>0, <1>9 DEF vars, IInv, TypeOK, OneInside, OnlySent, Guarded, GuardedTwice, Barrier,
                    Holds, Signalling, WorkerFlushed, Piled
<1> QED
  BY <1>1, <1>2, <1>3, <1>4, <1>5, <1>6, <1>7, <1>8, <1>9 DEF Next, FlushStep

\* However many calls of Flush run at the same time, a relay relays no message
\* before a Flush that came after it (delay_relay.go:16-43), until its process
\* ends or a sentinel does not reach Redis.
THEOREM NothingBeforeFlush == Spec => []PilesUpUntilFlush
<1>1. Init => OneLife
  BY InitIInv DEF Init, OneLife
<1>2. TypeOK /\ OneLife /\ [Next]_vars => OneLife'
  BY NextIInv
<1>3. OneLife => PilesUpUntilFlush
  BY DEF OneLife, IInv, PilesUpUntilFlush
<1> QED BY <1>1, <1>2, <1>3, TypeCorrect, PTL DEF Spec

-----------------------------------------------------------------------------
(* One pause per Flush.                                                    *)

\* The places of the sentinels in a queue.
Stops(s) == {i \in DOMAIN s : s[i] = Sentinel}

\* A queue has finitely many sentinels.
LEMMA StopsFinite ==
  ASSUME NEW s \in Seq(Payloads)
  PROVE  IsFiniteSet(Stops(s)) /\ Cardinality(Stops(s)) \in Nat
<1>1. IsFiniteSet(1..Len(s))
  BY FS_Interval
<1>2. IsFiniteSet(Stops(s))
  BY <1>1, FS_Subset DEF Stops
<1> QED BY <1>2, FS_CardinalityType

\* Publishing a sentinel adds one, publishing a message none.
LEMMA StopsAppend ==
  ASSUME NEW s \in Seq(Payloads), NEW m \in Payloads
  PROVE  Cardinality(Stops(Append(s, m)))
           = Cardinality(Stops(s)) + (IF m = Sentinel THEN 1 ELSE 0)
<1>1. Stops(Append(s, m)) = IF m = Sentinel THEN Stops(s) \cup {Len(s) + 1} ELSE Stops(s)
  BY DEF Stops
<1>2. Len(s) + 1 \notin Stops(s)
  BY DEF Stops
<1>3. IsFiniteSet(Stops(s)) /\ Cardinality(Stops(s)) \in Nat
  BY StopsFinite
<1>4. Cardinality(Stops(s) \cup {Len(s) + 1}) = Cardinality(Stops(s)) + 1
  BY <1>2, <1>3, FS_AddElement
<1> QED BY <1>1, <1>3, <1>4

\* Taking the next delivery out takes its sentinel, if it is one.
LEMMA StopsTail ==
  ASSUME NEW s \in Seq(Payloads), s # <<>>
  PROVE  Cardinality(Stops(s))
           = Cardinality(Stops(Tail(s))) + (IF Head(s) = Sentinel THEN 1 ELSE 0)
<1> DEFINE T == Stops(Tail(s))
           K == {i + 1 : i \in T}
           f == [i \in T |-> i + 1]
<1>1. Tail(s) \in Seq(Payloads) /\ Len(Tail(s)) = Len(s) - 1 /\ Len(s) \in Nat \ {0}
  OBVIOUS
<1>2. \A i \in 1..Len(s)-1 : Tail(s)[i] = s[i + 1]
  OBVIOUS
<1>3. T \subseteq Nat \ {0}
  BY <1>1 DEF Stops
<1>4. Stops(s) = IF Head(s) = Sentinel THEN K \cup {1} ELSE K
  <2>1. ASSUME NEW i \in Stops(s) PROVE i \in K \/ (i = 1 /\ Head(s) = Sentinel)
    <3>1. i \in 1..Len(s) /\ s[i] = Sentinel
      BY DEF Stops
    <3>2. CASE i = 1
      BY <3>1, <3>2
    <3>3. CASE i # 1
      <4>1. i - 1 \in 1..Len(s)-1 /\ (i - 1) + 1 = i
        BY <1>1, <3>1, <3>3
      <4>2. i - 1 \in T
        BY <1>1, <1>2, <3>1, <4>1 DEF Stops
      <4> QED BY <4>1, <4>2
    <3> QED BY <3>2, <3>3
  <2>2. K \subseteq Stops(s)
    BY <1>1, <1>2 DEF Stops
  <2>3. Head(s) = Sentinel <=> 1 \in Stops(s)
    BY <1>1 DEF Stops
  <2> QED BY <2>1, <2>2, <2>3
<1>5. 1 \notin K
  BY <1>3
<1>6. IsFiniteSet(T) /\ Cardinality(T) \in Nat
  BY <1>1, StopsFinite
<1>7. f \in Bijection(T, K)
  <2>1. f \in Surjection(T, K)
    BY DEF Surjection
  <2>2. f \in Injection(T, K)
    BY <1>3 DEF Injection, IsInjective
  <2> QED BY <2>1, <2>2 DEF Bijection
<1>8. IsFiniteSet(K) /\ Cardinality(K) = Cardinality(T)
  BY <1>6, <1>7, FS_Bijection DEF ExistsBijection
<1> HIDE DEF T, K, f
<1>9. Cardinality(K \cup {1}) = Cardinality(K) + 1
  BY <1>5, <1>8, FS_AddElement
<1> QED BY <1>4, <1>6, <1>8, <1>9 DEF T

\* What the pauses are when the queue and the worker are as they are.
PausesOf(s, w) ==
  Cardinality(Stops(s)) + (IF w.msg = Sentinel /\ w.at \in {"filter", "wait"} THEN 1 ELSE 0)

\* They are those of Pauses.
LEMMA PausesFacts == Pauses = PausesOf(pipe, worker) /\ Pauses' = PausesOf(pipe', worker')
BY DEF Pauses, PausesOf, Stops

\* Pauses are counted in natural numbers.
LEMMA PausesNat == ASSUME TypeOK, TypeOK' PROVE Pauses \in Nat /\ Pauses' \in Nat
<1>1. pipe \in Seq(Payloads) /\ pipe' \in Seq(Payloads)
  BY DEF TypeOK
<1>2. Cardinality(Stops(pipe)) \in Nat /\ Cardinality(Stops(pipe')) \in Nat
  BY <1>1, StopsFinite
<1> QED BY <1>2, PausesFacts DEF PausesOf

\* The pauses there must be.
Due == IF Signalling THEN 2 ELSE 1

\* The inductive invariant of OnePausePerFlush, in all lives of the process:
\* a worker waits at sentinels only, and between two processes nothing is in
\* memory.
PauseInv ==
  /\ TypeOK /\ OneInside
  /\ worker.at = "wait" => worker.msg = Sentinel
  /\ ~up => /\ ends > 0 /\ pre = 0 /\ worker = IdleWorker
            /\ \A f \in Flushers : flusher[f].at = "idle"
  /\ up /\ errors = 0 => /\ Pauses >= Due
                         /\ ends = 0 => Pauses = Due

\* A step of a running process that changes the pauses by as much as it changes
\* what is due keeps the balance.
LEMMA Balanced ==
  ASSUME PauseInv, TypeOK', OneInside', up, up', worker'.at = "wait" => worker'.msg = Sentinel,
         errors' >= errors, ends' = ends,
         errors' = 0 => Pauses' - Pauses = Due' - Due
  PROVE  PauseInv'
<1>1. Due \in Nat /\ Due' \in Nat
  BY DEF Due
<1>2. Pauses \in Nat /\ Pauses' \in Nat
  BY PausesNat DEF PauseInv
<1>3. errors \in Nat /\ errors' \in Nat /\ ends \in Nat
  BY DEF TypeOK, PauseInv
<1>4. errors' = 0 => Pauses' >= Due' /\ (ends' = 0 => Pauses' = Due')
  BY <1>1, <1>2, <1>3 DEF PauseInv
<1> QED BY <1>4 DEF PauseInv

\* sync.Once, in all lives of the process.
LEMMA OneInsideStep == ASSUME TypeOK, OneInside, [Next]_vars PROVE OneInside'
<1> USE DEF TypeOK, OneInside
<1>1. CASE Send \/ Start \/ Fetch \/ Take \/ Relay \/ Pause \/ Ack \/ UNCHANGED vars
  BY <1>1 DEF Send, Start, Fetch, Take, Relay, Pause, Ack, vars
<1>2. CASE End
  BY <1>2 DEF End, IdleFlusher
<1>3. ASSUME NEW f \in Flushers, FlushCall(f) PROVE OneInside'
  BY <1>3 DEF FlushCall
<1>4. ASSUME NEW f \in Flushers, FlushEnter(f) PROVE OneInside'
  BY <1>4 DEF FlushEnter, Inside
<1>5. ASSUME NEW f \in Flushers, FlushCoalesced(f) PROVE OneInside'
  BY <1>5 DEF FlushCoalesced, IdleFlusher
<1>6. ASSUME NEW f \in Flushers, Signal(f) PROVE OneInside'
  BY <1>6 DEF Signal
<1>7. ASSUME NEW f \in Flushers, FlushRenew(f) PROVE OneInside'
  BY <1>7 DEF FlushRenew, IdleFlusher
<1> QED BY <1>1, <1>2, <1>3, <1>4, <1>5, <1>6, <1>7 DEF Next, FlushStep

\* Every step keeps the invariant.
LEMMA PauseStep == ASSUME PauseInv, [Next]_vars PROVE PauseInv'
<1> USE DEF PauseInv
<1>1. TypeOK /\ TypeOK' /\ OneInside /\ OneInside'
  BY NextType, OneInsideStep
<1>2. Pauses \in Nat /\ Pauses' \in Nat
  BY <1>1, PausesNat
<1>3. pipe \in Seq(Payloads) /\ errors \in Nat /\ ends \in Nat
  BY <1>1 DEF TypeOK
<1>4. CASE Send
  <2>1. sent + 1 \in Payloads /\ sent + 1 # Sentinel
    BY <1>1, <1>4 DEF Send, TypeOK, Payloads, Sentinel
  <2>2. Cardinality(Stops(pipe')) = Cardinality(Stops(pipe)) + 0
    BY <1>3, <1>4, <2>1, StopsAppend DEF Send
  <2>3. Pauses' = Pauses
    BY <1>3, <1>4, <2>2, StopsFinite, PausesFacts DEF Send, PausesOf
  <2>4. Due' = Due
    BY <1>4 DEF Send, Due, Signalling
  <2> QED BY <1>1, <1>4, <2>3, <2>4 DEF Send
<1>5. CASE Start
  <2>1. ends > 0 /\ worker = IdleWorker /\ Due = 1 /\ Due' = 1
    BY <1>5 DEF Start, Due, Signalling
  <2>2. CASE pipe' = Append(pipe, Sentinel) /\ UNCHANGED errors
    <3>1. Cardinality(Stops(pipe')) = Cardinality(Stops(pipe)) + 1
      BY <1>3, <2>2, StopsAppend, PayloadFacts
    <3>2. Pauses' >= 1
      BY <1>3, <1>5, <2>1, <3>1, StopsFinite, PausesFacts DEF Start, PausesOf, IdleWorker
    <3> QED BY <1>1, <1>5, <2>1, <3>2 DEF Start, IdleWorker
  <2>3. CASE errors' = errors + 1
    BY <1>1, <1>3, <1>5, <2>1, <2>3 DEF Start, IdleWorker
  <2> QED BY <1>5, <2>2, <2>3 DEF Start, PublishSentinel
<1>6. CASE End
  BY <1>1, <1>3, <1>6 DEF End, IdleWorker, IdleFlusher
<1>7. CASE Fetch
  <2>1. Pauses' = Pauses /\ Due' = Due
    BY <1>7 DEF Fetch, Pauses, Due, Signalling
  <2> QED BY <1>1, <1>7, <2>1 DEF Fetch
<1>8. CASE Take
  <2>1. up /\ up' /\ pipe # <<>>
    BY <1>1, <1>8 DEF Take, TypeOK
  <2>2. Cardinality(Stops(pipe))
          = Cardinality(Stops(pipe')) + (IF Head(pipe) = Sentinel THEN 1 ELSE 0)
    BY <1>3, <1>8, <2>1, StopsTail DEF Take
  <2>3. pipe' \in Seq(Payloads)
    BY <1>1 DEF TypeOK
  <2>4. Cardinality(Stops(pipe)) \in Nat /\ Cardinality(Stops(pipe')) \in Nat
    BY <1>3, <2>3, StopsFinite
  <2>5. Pauses' = Pauses
    BY <1>8, <2>2, <2>4, PausesFacts DEF Take, PausesOf
  <2>6. Due' = Due
    BY <1>8 DEF Take, Due, Signalling
  <2> QED BY <1>1, <1>2, <1>3, <1>8, <2>1, <2>5, <2>6 DEF Take
<1>9. CASE Relay \/ Pause
  <2>1. up /\ up'
    BY <1>9 DEF Relay, Pause, IdleWorker
  <2>2. Pauses' = Pauses
    BY <1>1, <1>9, PausesFacts DEF Relay, Pause, PausesOf, TypeOK
  <2>3. Due' = Due
    BY <1>9 DEF Relay, Pause, Due, Signalling
  <2>4. worker'.at = "wait" => worker'.msg = Sentinel
    BY <1>1, <1>9 DEF Relay, Pause, TypeOK
  <2> QED BY <1>1, <1>9, <2>1, <2>2, <2>3, <2>4 DEF Relay, Pause
<1>10. CASE Ack
  <2>1. up /\ up'
    BY <1>10 DEF Ack, IdleWorker
  <2>2. Pauses' = Pauses
    BY <1>1, <1>10, PausesFacts DEF Ack, PausesOf, TypeOK, IdleWorker
  <2>3. Due' = Due
    BY <1>10 DEF Ack, Due, Signalling
  <2> QED BY <1>1, <1>10, <2>1, <2>2, <2>3 DEF Ack, IdleWorker
<1>11. ASSUME NEW f \in Flushers, FlushCall(f) \/ FlushCoalesced(f) \/ FlushRenew(f)
       PROVE  PauseInv'
  <2>1. up /\ up'
    BY <1>11 DEF FlushCall, FlushCoalesced, FlushRenew
  <2>2. Pauses' = Pauses
    BY <1>11 DEF FlushCall, FlushCoalesced, FlushRenew, Pauses
  <2>3. Signalling' <=> Signalling
    <3>1. PICK r : r.at # "signal" /\ flusher' = [flusher EXCEPT ![f] = r]
      BY <1>11 DEF FlushCall, FlushCoalesced, FlushRenew, IdleFlusher
    <3>2. flusher[f].at # "signal"
      BY <1>11 DEF FlushCall, FlushCoalesced, FlushRenew
    <3>3. DOMAIN flusher = Flushers
      BY <1>1 DEF TypeOK
    <3>4. flusher'[f].at # "signal"
      BY <3>1, <3>3
    <3>5. \A g \in Flushers : g # f => flusher'[g] = flusher[g]
      BY <3>1, <3>3
    <3> QED BY <3>2, <3>4, <3>5 DEF Signalling
  <2>4. Due' = Due
    BY <2>3 DEF Due
  <2> QED BY <1>1, <1>11, <2>1, <2>2, <2>4 DEF FlushCall, FlushCoalesced, FlushRenew
<1>12. ASSUME NEW f \in Flushers, FlushEnter(f) PROVE PauseInv'
  <2>1. up /\ up' /\ worker' = worker /\ ends' = ends
    BY <1>12 DEF FlushEnter
  <2>2. ~Signalling /\ Signalling'
    BY <1>1, <1>12 DEF FlushEnter, Inside, Signalling, OneInside, TypeOK
  <2>3. Due = 1 /\ Due' = 2
    BY <2>2 DEF Due
  <2>4. CASE pipe' = Append(pipe, Sentinel) /\ UNCHANGED errors
    <3>1. Cardinality(Stops(pipe')) = Cardinality(Stops(pipe)) + 1
      BY <1>3, <2>4, StopsAppend, PayloadFacts
    <3>2. Pauses' = Pauses + 1
      BY <1>3, <2>1, <3>1, StopsFinite, PausesFacts DEF PausesOf
    <3>3. Pauses' - Pauses = Due' - Due
      BY <1>2, <2>3, <3>2
    <3>4. errors' >= errors
      BY <1>3, <2>4
    <3> QED BY <1>1, <2>1, <3>3, <3>4, Balanced
  <2>5. CASE errors' = errors + 1
    BY <1>1, <1>3, <2>1, <2>5
  <2> QED BY <1>12, <2>4, <2>5 DEF FlushEnter, PublishSentinel
<1>13. ASSUME NEW f \in Flushers, Signal(f) PROVE PauseInv'
  <2>1. up /\ up' /\ ends' = ends /\ errors' = errors /\ pipe' = pipe
    BY <1>13 DEF Signal
  <2>2. Signalling /\ ~Signalling'
    BY <1>1, <1>13 DEF Signal, Signalling, OneInside, TypeOK
  <2>3. Due = 2 /\ Due' = 1
    BY <2>2 DEF Due
  <2>4. worker.msg = Sentinel /\ worker.at = "wait" /\ worker'.at = "ack"
    BY <1>1, <1>13 DEF Signal, TypeOK
  <2>5. Pauses = Pauses' + 1
    BY <1>3, <2>1, <2>4, StopsFinite, PausesFacts DEF PausesOf
  <2>6. Pauses' - Pauses = Due' - Due
    BY <1>2, <2>3, <2>5
  <2> QED BY <1>1, <1>3, <2>1, <2>4, <2>6, Balanced
<1>14. CASE UNCHANGED vars
  BY <1>14 DEF vars, Pauses, Due, Signalling, OneInside, TypeOK, IdleWorker
<1> QED BY <1>4, <1>5, <1>6, <1>7, <1>8, <1>9, <1>10, <1>11, <1>12, <1>13, <1>14 DEF Next, FlushStep

\* One pause per Flush (delay_relay.go:16-22, 63): at every moment of a first
\* life there is one sentinel more than there are calls about to release the
\* worker, and a restarted process, too, has at least that many, however many
\* callers, messages and ends there are.
THEOREM PausesMatchFlushes == Spec => []OnePausePerFlush
<1>1. Init => PauseInv
  <2> SUFFICES ASSUME Init PROVE PauseInv
    OBVIOUS
  <2>1. TypeOK
    BY InitType
  <2>2. Stops(pipe) = {1}
    BY DEF Init, Stops
  <2>3. Pauses = 1
    <3>1. Cardinality(Stops(pipe)) = 1
      BY <2>2, FS_Singleton
    <3>2. ~(worker.at \in {"filter", "wait"})
      BY DEF Init, IdleWorker
    <3> QED BY <3>1, <3>2, PausesFacts DEF PausesOf
  <2>4. Due = 1
    BY DEF Init, Due, Signalling, IdleFlusher
  <2>5. OneInside
    BY DEF Init, OneInside, IdleFlusher
  <2> QED BY <2>1, <2>3, <2>4, <2>5 DEF Init, PauseInv, IdleWorker
<1>2. PauseInv /\ [Next]_vars => PauseInv'
  BY PauseStep
<1>3. PauseInv => OnePausePerFlush
  BY DEF PauseInv, OnePausePerFlush, Due, Signalling
<1> QED BY <1>1, <1>2, <1>3, PTL DEF Spec

=============================================================================
