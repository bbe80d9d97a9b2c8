---------------------------- MODULE BlockMonitor ----------------------------
(***************************************************************************)
(* The block monitor service: monitor/blocks (blocks.go,                   *)
(* block_ring_buffer.go, block_recorder.go) run by cmd/blockmonitor.       *)
(*                                                                         *)
(* One process polls an Ethereum node for the header at the number after   *)
(* the last one it added to its ring buffer, walks back to a known         *)
(* ancestor when the chain was reorganised, adds ONE header to the ring    *)
(* buffer, publishes it and records its number in Redis.  The node's       *)
(* chain moves between any two RPCs; the process can die between any two   *)
(* steps and is restarted with an empty ring buffer (docker-compose.yml,   *)
(* restart: on-failure).                                                   *)
(*                                                                         *)
(* The blocks and their parents are a constant tree; a block stands for    *)
(* its header, and a block is its own hash.                                *)
(***************************************************************************)
EXTENDS Integers, FiniteSets

CONSTANTS Blocks,      \* every block any fork of the chain ever has
          Parent,      \* header.ParentHash, as a block; a root is its own parent
          Number,      \* header.Number
          Size,        \* brbSize, 200 in cmd/blockmonitor
          NoBlock,     \* nil *MiniBlock, nil *types.Header
          MaxFaults,   \* bound: crashes, RPC errors and reported Redis errors
          MaxIgnored   \* bound: Redis errors the code carries on after

ASSUME SizeAssumption == Size \in Nat \ {0}

ASSUME TreeAssumption ==
  /\ Number \in [Blocks -> Nat]
  /\ Parent \in [Blocks -> Blocks]
  /\ \A b \in Blocks : Number[b] > 0 => Number[b] = Number[Parent[b]] + 1

ASSUME NoBlockAssumption == NoBlock \notin Blocks

ASSUME BoundAssumption == MaxFaults \in Nat /\ MaxIgnored \in Nat

\* The recorder's Redis key before the first Record.
NoNumber == -1

VARIABLES
  head,      \* the head of the chain the Ethereum node considers canonical
  ring,      \* blockRingBuffer.blocks
  rhead,     \* blockRingBuffer.head
  pc,        \* where Process is
  header,    \* Process's local header
  counter,   \* Process's local counter: parents walked back so far
  recorded,  \* the number in Redis, kept across restarts
  published, \* blocks that reached the publisher's Redis list
  fresh,     \* starting blocks taken from the node's latest header
  resumed,   \* starting blocks taken from the recorded number
  cut,       \* blocks added after the walk had exhausted the ring buffer
  lost,      \* blocks whose Publish returned true and stored nothing
  faults,    \* faults so far
  ignored    \* ignored Redis errors so far

procVars == <<ring, rhead, pc, header, counter>>
history  == <<fresh, resumed, cut, lost>>
vars     == <<head, procVars, recorded, published, history, faults, ignored>>

-----------------------------------------------------------------------------
(* The Ethereum node, as the monitor sees it.                              *)

\* The blocks of the chain that ends in b, b included.
Chain[b \in Blocks] == IF Number[b] = 0 THEN {b} ELSE {b} \cup Chain[Parent[b]]

\* HeaderByNumber: the canonical block at number n; empty is NotFound.
HeaderByNumber(n) == {b \in Blocks : b \in Chain[head] /\ Number[b] = n}

\* The canonical chain moves to a longer one, on the same fork or another.
NewHead ==
  /\ \E b \in Blocks : Number[b] > Number[head] /\ head' = b
  /\ UNCHANGED <<procVars, recorded, published, history, faults, ignored>>

-----------------------------------------------------------------------------
(* The ring buffer.                                                        *)

EmptyRing == [i \in 0..Size-1 |-> NoBlock]

Get(count) ==
  LET index == rhead - count
  IN  ring[IF index < 0 THEN index + Size ELSE index]

\* Mutant of InRing: a block is recognized by its number.
InRingByNumber(b) == \E i \in 0..Size-1 : Get(i) # NoBlock /\ Number[Get(i)] = Number[b]

\* HashIndex(b) # -1
InRing(b) == \E i \in 0..Size-1 : Get(i) = b

\* Mutant of Add: the head is not wrapped.
AddUnwrapped(b) ==
  /\ rhead' = rhead + 1
  /\ ring' = [ring EXCEPT ![(rhead + 1) % Size] = b]

Add(b) ==
  /\ rhead' = (rhead + 1) % Size
  /\ ring' = [ring EXCEPT ![(rhead + 1) % Size] = b]

-----------------------------------------------------------------------------
(* Process.                                                                *)

Init ==
  /\ head \in Blocks
  /\ ring = EmptyRing /\ rhead = 0
  /\ pc = "down" /\ header = NoBlock /\ counter = 0
  /\ recorded = NoNumber
  /\ published = {}
  /\ fresh = {} /\ resumed = {} /\ cut = {} /\ lost = {}
  /\ faults = 0 /\ ignored = 0

\* A fault within its bound.
Fault   == faults < MaxFaults /\ faults' = faults + 1
Ignored == ignored < MaxIgnored /\ ignored' = ignored + 1

\* The process ends; ring buffer and locals go with it, Redis stays.
Exit(final) ==
  /\ pc' = final
  /\ ring' = EmptyRing /\ rhead' = 0
  /\ header' = NoBlock /\ counter' = 0

\* The first block is added to the ring buffer; only block 0 is published.
StartAt(b) ==
  /\ Add(b)
  /\ pc' = IF Number[b] = 0 THEN "publish" ELSE "poll"
  /\ header' = b /\ counter' = 0
  /\ UNCHANGED <<head, recorded, published, cut, lost, faults>>

\* blockRecorder.Get has a number and the node has a header for it.
StartRecorded ==
  /\ pc \in {"down", "fatal"}
  /\ recorded # NoNumber
  /\ \E b \in HeaderByNumber(recorded) : StartAt(b) /\ resumed' = resumed \cup {b}
  /\ UNCHANGED <<fresh, ignored>>

\* blockRecorder.Get fails (no number yet, or a Redis error): the node's
\* latest header is used.
StartLatest ==
  /\ pc \in {"down", "fatal"}
  /\ StartAt(head)
  /\ fresh' = fresh \cup {head}
  /\ \/ recorded = NoNumber /\ UNCHANGED ignored
     \/ recorded # NoNumber /\ Ignored
  /\ UNCHANGED resumed

\* Mutant of Poll: the counter of the last walk is not reset.
PollNoReset ==
  /\ pc = "poll"
  /\ \E b \in HeaderByNumber(Number[Get(0)] + 1) : header' = b
  /\ pc' = "walk"
  /\ UNCHANGED <<head, ring, rhead, counter, recorded, published, history, faults, ignored>>

\* The header after the last added block is there.  While it is not
\* (NotFound) the monitor sleeps and polls again, which changes nothing.
Poll ==
  /\ pc = "poll"
  /\ \E b \in HeaderByNumber(Number[Get(0)] + 1) : header' = b
  /\ counter' = 0
  /\ pc' = "walk"
  /\ UNCHANGED <<head, ring, rhead, recorded, published, history, faults, ignored>>

\* The loop condition of the walk back to a recognized ancestor.
MustWalkBack == ~InRing(Parent[header]) /\ counter < Size /\ Number[header] # 0

\* HeaderByHash(header.ParentHash): a node keeps the headers of stale forks.
WalkBack ==
  /\ pc = "walk"
  /\ MustWalkBack
  /\ counter' = counter + 1
  /\ header' = Parent[header]
  /\ UNCHANGED <<head, ring, rhead, pc, recorded, published, history, faults, ignored>>

\* The walk ends at a header that is already in the ring buffer: log.Fatalf.
AlreadyExists ==
  /\ pc = "walk"
  /\ ~MustWalkBack
  /\ InRing(header)
  /\ Exit("fatal")
  /\ UNCHANGED <<head, recorded, published, history, faults, ignored>>

\* The walk ends at a new header, which is added to the ring buffer.
AddNext ==
  /\ pc = "walk"
  /\ ~MustWalkBack
  /\ ~InRing(header)
  /\ Add(header)
  /\ cut' = IF InRing(Parent[header]) \/ Number[header] = 0 THEN cut ELSE cut \cup {header}
  /\ pc' = "publish"
  /\ UNCHANGED <<head, header, counter, recorded, published, fresh, resumed, lost,
                 faults, ignored>>

\* publish: the message is on the queue.
Publish ==
  /\ pc = "publish"
  /\ published' = published \cup {Get(0)}
  /\ pc' = "record"
  /\ UNCHANGED <<head, ring, rhead, header, counter, recorded, history, faults, ignored>>

\* publish: the LPUSH failed with an error that redisErrIsNil logs and
\* answers with false, so that Publish answers true (channels/util.go).
PublishIgnored ==
  /\ pc = "publish"
  /\ Ignored
  /\ lost' = lost \cup {Get(0)}
  /\ pc' = "record"
  /\ UNCHANGED <<head, ring, rhead, header, counter, recorded, published, fresh, resumed,
                 cut, faults>>

\* Mutant of PublishFails: Process carries on to the next block.
PublishFailsOn ==
  /\ pc = "publish"
  /\ Fault
  /\ pc' = "poll"
  /\ UNCHANGED <<head, ring, rhead, header, counter, published, recorded, history, ignored>>

\* publish: the LPUSH timed out, whether Redis had done it or not; Process
\* returns the error and main exits.
PublishFails ==
  /\ pc = "publish"
  /\ Fault
  /\ published' \in {published, published \cup {Get(0)}}
  /\ Exit("down")
  /\ UNCHANGED <<head, recorded, history, ignored>>

\* Mutant of Record: the number of the block that comes next is recorded.
RecordNext ==
  /\ pc = "record"
  /\ recorded' = Number[Get(0)] + 1
  /\ pc' = "poll"
  /\ UNCHANGED <<head, ring, rhead, header, counter, published, history, faults, ignored>>

\* blockRecorder.Record, after which the main loop polls again.
Record ==
  /\ pc = "record"
  /\ recorded' = Number[Get(0)]
  /\ pc' = "poll"
  /\ UNCHANGED <<head, ring, rhead, header, counter, published, history, faults, ignored>>

\* The process ends at any other point: an RPC or Record error that Process
\* returns (main exits), the nil header dereferenced when HeaderByHash
\* answers NotFound, the quit signal, a kill.
Crash ==
  /\ pc \notin {"down", "fatal"}
  /\ Fault
  /\ Exit("down")
  /\ UNCHANGED <<head, recorded, published, history, ignored>>

\* Process, running and not sleeping.
Step == \/ StartRecorded \/ StartLatest \/ Poll \/ WalkBack \/ AlreadyExists
        \/ AddNext \/ Publish \/ Record

Next == NewHead \/ Step \/ PublishIgnored \/ PublishFails \/ Crash

Spec == Init /\ [][Next]_vars

\* Process is one goroutine that never waits for anything but the node and
\* Redis, and a process that ended is restarted.
FairSpec == Spec /\ WF_vars(Step)

-----------------------------------------------------------------------------
(* Properties.                                                             *)

TypeOK ==
  /\ head \in Blocks
  /\ ring \in [0..Size-1 -> Blocks \cup {NoBlock}]
  /\ rhead \in 0..Size-1
  /\ pc \in {"down", "fatal", "poll", "walk", "publish", "record"}
  /\ header \in Blocks \cup {NoBlock}
  /\ counter \in 0..Size
  /\ recorded \in Nat \cup {NoNumber}
  /\ published \subseteq Blocks
  /\ fresh \subseteq Blocks /\ resumed \subseteq Blocks
  /\ cut \subseteq Blocks /\ lost \subseteq Blocks
  /\ faults \in 0..MaxFaults /\ ignored \in 0..MaxIgnored

\* No gap in the emitted chain (blocks.go:44-47): the parent of every emitted
\* block was emitted too, or is a block the monitor started from, or its
\* message is the one an ignored Redis error lost; the exceptions are the
\* root and the blocks at which the walk back had exhausted the ring buffer.
NoGap ==
  \A b \in published \ cut :
    Number[b] = 0 \/ Parent[b] \in published \cup fresh \cup resumed \cup lost

\* The walk back gives up only when it has to (blocks.go:45-47, "so long as
\* the common ancestor is in its block ring buffer"): when it ends without a
\* known parent, no ancestor of the header is in the ring buffer.
WalkFindsAncestor ==
  (pc = "walk" /\ ~MustWalkBack /\ ~InRing(Parent[header]))
    => \A b \in Chain[header] \ {header} : ~InRing(b)

\* The recorder never runs ahead of the queue (blocks.go:155-168): the number
\* a restart resumes from is the number of a block that was emitted, or whose
\* message is one an ignored Redis error lost.
RecordedWasPublished ==
  recorded # NoNumber => \E b \in published \cup lost : Number[b] = recorded

\* Every block of the chain the node settles on is emitted, or lost by an
\* ignored Redis error, from the last start at the node's latest header on,
\* however often the chain was reorganised and the process restarted
\* (blocks.go:44-51): as long as every walk back finds an ancestor, no restart
\* resumes from a block that was never emitted, and the monitor does not hit
\* its "already exists" exit.
ChainEmitted ==
  [](pc # "fatal" /\ cut = {} /\ resumed \subseteq published \cup lost) =>
    <>[](\A b \in Chain[head] :
           (\A s \in fresh : Number[s] < Number[b]) => b \in published \cup lost)

=============================================================================
