# Verification of bora

bora is a Python extension in C that sends and receives *blocks* (contents cut
into fragments of at most MTU = 1400 bytes) over UDP, with acknowledgements,
retransmission, three outgoing queues of different priority, bandwidth
measurement and pacing. This directory holds TLA+ models of its core, the TLC
configurations that check them and proofs for TLAPS.

The models follow the build of `setup.py`: `BORA_RETRANSMISSION` and
`BORA_TIMEOUT` defined, `BORA_DROP` not, POSIX threads.

## 1. Inventory

Threads: the Python threads (all calls into the module run with the GIL, except
where they wait), the **sender** (`send_packet`), the **puller** (`send_pull`),
the **receiver** (`packet_receiver`), the **processor** (`packet_processor`) and
the **bandwidth thread** (`bws_thread`).

| component | state | operations | meets | hard part, and what makes it correct |
|---|---|---|---|---|
| sender queues (`packet_sender.c`) | rings `prio_buf`, `retr_buf`, `send_buf` with `c_*`, `f_*`; semaphores `sFull`, `qEmpty`; `z`, `lasthost` | `send_data`, `packet_send`, `send_packet` | called by Python threads and the processor, drained by the sender | counters and semaphores change in different critical sections; they must stay in step, each queue must be FIFO, pairs must be real pairs, everything queued must leave |
| shutdown (`die`, `sender_end_threads`) | `kill_bora_threads`, `death` | `die` | all threads | the flag is tested once per loop; `die` must return, with at most one stale packet sent |
| block cache (`blockcache.c`) | list `blockcache` under `rwlock`, a lock per block | `addblock`, `addfragment`, `deleteblock`, `sendblock`, `get_block_data`, `iscomplete`, `get_consecutives`, the two lists | Python threads and the processor | check-then-insert over two critical sections, lock order, fragments in any order; acknowledged implies stored, complete implies announced and cut as at the source |
| cookie exchange (`cookie_sender.c`, `bora_send_cookie`) | `ckData`, `havecookie`, `gotcookie`, `ckResult`; `ckFull`, `ckEmpty` | `send_cookie`, `get_cookie_data`, `cookie_received`, `check_answers`, `cookie_cleanup` | a Python thread, the sender, the processor, with no lock in common | a timed wait that races late answers; results must be those of the call, the call must return |
| acks and retransmission (`ack.c`, `ack_received.c`) | `nacklist` under `nack_lock`, `seq_num` (16 bit), `peeracklist` under `ack_list` | `append_ack`, `pop_ack`, `remove_lost_acks`, `resend_ooo_nacks`, `remove_ooo_nacks`, `resend_timeout_nacks` | sender, processor, Python thread in `bws_set`, the network | loss, duplication, reordering, wrap of `seq_num`, two sources of retransmission; no fragment lost unnoticed, none under way twice |
| receiver and processor (`packet_receiver.c`) | ring `buffer`, `bEmpty`, `bFull`, `stats_r` | `packet_receiver`, `packet_processor` | the network, all of the above | blocks on the iterator's ring while it holds `stat_lock_r` |
| puller (`send_pull`, `bpuller_bridge.c`) | conditions `produceBlock`, `blockProduced` | `block_pull`, iterator | sender, Python | conditions without predicates: lost wakeups |
| block iterator (`biter_bridge.c`) | ring of 20, two semaphores | `block_completed`, iterator | processor, Python | a full ring stops the processor |
| bandwidth control (`bw_stats.c`, `bws_set`) | `bandwidth`, two semaphores, `bwLock`, `ack_list` | `bws_thread`, iterator, `bws_set` | sender, processor | locks held from one Python call to the next |
| bandwidth samples and messages (`recv_stats.c`, `bw_msgs.c`) | per-host lists | `fragment_received`, fetch | processor, Python | pairs by `BLOCK_CONSECUTIVE` |
| encoding (`netencoder.c`) | none | encode, decode, validate | processor, sender | flags and lengths at the boundary |

Not part of the system's logic: `queue.h` (vendored list macros), `main.c` and
`spam.c` (a manual driver and an extension example), the Windows code, the
Python type objects.

## 2. Modules

Each action is one critical section, or one step that another thread can
interleave with; `PROJECT.json` maps every definition to the lines it models.
Definitions whose comment begins with *Mutant* are deliberately wrong variants of
the definition that follows them; no specification uses them. They show that a
property notices the fault.

* **`SendQueues`** – `packet_sender.c`. `buf`, `c`, `f` are the three rings,
  `sFull`/`qEmpty`/`ckFull` the semaphores. `send_data` is `SendDataCall`
  (trywait), `SendDataInsert` (the critical section of the chosen ring),
  `SendDataPost` (post of `sFull`). The sender is `SenderTop` (the pair test at
  the top of the loop), `SenderWait`, `SenderCookie`, `SenderPrio`, `SenderRetr`,
  `SenderData`, `SenderXmit`, `SenderPost`. `stolen` and `bypass` are history
  variables. Pacing and counters are left out.
* **`FifoClasses`** – what the queues promise: one bounded FIFO queue per traffic
  class, from which the sender hands out one packet at a time. `SendQueues`
  implements it under the mapping `queue[q]` = the `f[q]` slots before `c[q]`,
  `out` = `d`.
* **`SenderShutdown`** – extends `SendQueues` by `die()` and the exit of the sender.
  No cookies are sent in it: a cookie leaves a packet behind (section 3, known
  exceptions).
* **`BlockCache`** – `blockcache.c` between the application and the processor;
  a block is its id, the set of fragments it has, `fs.lastlen` and
  `content.length`. An uninitialised `lastlen` that is used and a block freed
  while locked set `ub`, after which nothing is claimed; a read outside the array
  `f` is a choice over the two answers it can lead to.
* **`CookieSender`** – `cookie_sender.c` and `bora_send_cookie`, with the GIL as a
  variable.
* **`Retransmission`** – `ack.c` and the part of `ack_received.c` that changes the
  nack lists, one sending node, its peers and the network. The send queues are
  the FIFO queues that `SendQueues` implements. `send_data` drops a packet without
  telling anyone when its ring or `qEmpty` has no room; because other traffic shares
  both, any fragment of `sendblock` (`Accepted`) and any retransmission (`Resend`) may be
  refused. A refused packet is in `forgotten`. `nacks[p]` is the list of a peer as a set: every packet joins it
  at the head, so that the list's order is that of the send numbers, and "first in
  the list" is `Newest`. The two loops that retransmit take one packet per step with
  `nack_lock` held.
* **`Wire`** – operators, no state: the packets the encoders make, what `packet_send`
  appends (`Transmit`), what the processor strips (`Stripped`), the three
  validations and the dispatch (`Handling`). A first byte is the set of its
  flags; of the rest only lengths, the length field and the NAT port are kept.
  `Purpose` is the reference: what each kind of packet is for.
* **`PacketReceiver`** – extends `Wire`. `packet_receiver.c`, `biter_bridge.c`, the
  list of `bw_msgs.c` and `stats_r`, with one iterating and one calling Python
  thread. `Recv*` is the receiver, `Proc*` the processor: `ProcHandle` is
  everything under `stat_lock_r` up to `block_completed`, `BlockCompleted` the
  wait for room, `ProcCount` the end of the loop. What `addfragment` and `pop_ack`
  answer is left open here. `GetOutStats` may meet the processor in the middle
  of an addition: then one counter keeps its old value.
* **`BwControl`** – `bw_stats.c`, the iterator `bora_BWIter`, `bws_set`, the
  statistics `ack_received` keeps per peer, the sender's `bwLock` and counters,
  and `die()`. The increment of a counter is a load and a store, because the
  report and the reset do not take `stat_lock_s`.
* **`BlockPuller`** – `send_pull`, `bpuller_bridge.c`, the pull iterator and
  `sendblock`'s signal. A condition variable is a place where the puller waits:
  a signal moves it on if it is there and is lost otherwise; a wait may also end by
  itself (`PullerSpurious`). `HitThreshold` is false for a negative `f_send`, which the
  code divides as an unsigned number.
* **`BwSamples`** – `recv_stats.c` at a node with several sources, and the pairs
  that `send_packet` forms at each source. A sample is kept as the positions of its
  two packets in the order they were sent, which the code does not know.
* **`*Proofs`** – the theorems (section 4); `SendQueuesProofs` is about `SendQueues` and
  `SenderShutdown`. **`MC*`** – instances for TLC.

## 3. Runs

| run | instance | shows |
|---|---|---|
| `send_queues` | N = 2, two hosts, two callers, 3 packets, one cookie call | the accounting of both semaphores, packets always found, acks overtaken at most twice, refinement of `FifoClasses`, pairs are pairs |
| `sender_shutdown` | N = 1, 4 packets, `die()` at any time | every packet goes out unless `die()` is called first; `die()` returns; at most one stale slot is sent |
| `block_cache` | MTU 2, two ids, contents of different lengths under one id, 2 calls, 3 fragments | no lock cycle, announcements, acks and stored fragments agree, blocks are cut alike |
| `cookie_sender` | one caller, two peers, 2 calls, both may time out | the call returns; until a timeout its results are its own; what a timeout can leak |
| `retransmission` | two peers, 3 and 1 fragments, `seq_num` modulo 3, a retransmission queue of one, 2 faults | nothing lost unnoticed, nothing twice, blocks arrive, but for what is given up or refused |
| `packet_receiver` | rings of 2 datagrams and 1 announcement; 3 datagrams, of which the first is of any kind `packet_send` makes; one call before `die()` | datagrams are handled once, in order and as sent but for four kinds; the iterator returns everything in order; the counters are exact; what the calls can hang on |
| `bw_control` | two peers, seq numbers 1 and 2, 2 packets sent, rounds without bound | `acked_last` and `highest_seq` agree with the stored values; at most one packet slips out while the sender is stopped; the sender resumes, `die()` returns |
| `block_puller` | a ring of 3 packets, threshold 2, blocks of 1 and 3 fragments, room for two pulls, no bound on calls | one block is asked for at a time unless a wait ends by itself; blocks repair lost wakeups; `die()` hangs only on a missed signal |
| `bw_samples` | two sources, two blocks of two fragments, 3 calls of `send_block`, one retransmission | samples are of packets sent back to back |

Bounds. N = 2 and three packets let a ring wrap, fill and drain; N = 1 with four
packets makes every ring refuse and exhausts `qEmpty`. In `BlockCache` two
calls and three fragments are enough for insertion to race insertion, deletion to
race every step of the processor, and a block of two fragments to arrive in
both orders with a duplicate. In `CookieSender` two calls are needed for one to see
what another left behind. In `Retransmission` three fragments are the fewest for
an ack to stand for another one at a known peer, and a second peer is needed for
an old packet to share its number with a new one; two faults combine loss,
duplication and early timeout pairwise.
In `PacketReceiver` a ring of one
announcement and three datagrams fill the ring, stop the processor on it and
then the receiver; one call is enough to meet each of these moments. Two seq
numbers make an ack that is not the highest, two packets one that is counted
before and one that slips. In `BwSamples` three calls are needed to send one block
twice and another in between.

The runs expected to fail document disagreements between the code and what it
says of itself; each is a finding in `PROJECT.json`:

* `cookie_gil` – two Python threads in `send_cookie` wait for each other.
* `nat_port` – the processor tests one byte of the NAT port and cuts it off twice: a
  peer with a port of 256 or more has every packet but raw messages rejected.
* `die_puller` – `die()` signals before the puller waits, and joins it for ever.

### Known exceptions

Some properties hold only with an exception that the code really has. They are
written into the property, so that a run shows that there is no other one:

* `TokensMatchPackets`, `EveryPacketGoesOut`: a cookie goes out on the unit of
  `sFull` of a queued packet (`stolen`), which stays until another is queued.
* `CompleteBlockCutsAlike`: when the last fragment arrives first, `content.length`
  stays a multiple of MTU and `get_block_content` returns padding.
* `UnitsLeakedByTimeouts`, `UnitsAreCookies`: a call that times out before the
  sender took its cookies leaves units in `ckFull`; the next packet sent then ends
  the process (`exit(0)` in `get_cookie_data`).
* `NotLostUnnoticed`, `BlockArrives`: the first ack of a peer drops the packets it
  overtook, and `send_data` drops what it has no room for, fragments of a block that is
  sent and retransmissions alike (`forgotten`).
* `OneBlockAtATime`: the wait for `blockProduced` has no predicate. When it ends by itself
  (`woken`) the puller asks for a block again although the last request was not
  answered. After `die()` nothing is claimed.
* `HandledAsSent`: datagrams that have no effect: NAT ports above 255; a raw message
  that was the second packet of a pair (its flag is set whatever it is); a retransmitted cookie; a raw message of one or two bytes.
* `InCountersExact`: `get_out_stats(1)` resets the counters of the other direction. The
  bytes of a datagram are what is left of it (`Payload`): from a NAT port above 255, which
  is cut off twice, two too few.
* `ReceivedIsReturned`, `CallsReturn`: `get_in_stats` or `die()`, with the GIL, while the
  processor waits for room in the iterator's ring and the iterating thread for
  the GIL.
* `SenderResumes`: `get_in_stats` between a report and its `bws_set`, while the
  processor waits for `ack_list` with `stat_lock_r`.
* `DieReturnsUnlessHeld`: `die()` between a report and its `bws_set`.
* `OnePacketSlips`: a report made while the sender is sending.
* `SamplesAreBackToBack`: a retransmission that overtook the second packet, or a
  block sent twice by one source.

### Fairness

`SendQueues`, `SenderShutdown`: weak fairness of the sender's steps (it runs
whenever it is not blocked on `sFull`) and of a caller inside `send_data`, and of
the thread in `die()`; nobody is obliged to call. `CookieSender`: weak fairness
of a thread inside a function, and of the timed wait, which ends by the clock;
none for the traffic that wakes the sender or for acks. `Retransmission`: the
threads run, the application keeps calling `bws_set` (which the documentation
requires to "restore the sending thread"), and what the network does not lose it
delivers. Its faults are finitely many; the code cannot promise arrival over a
network that loses everything. `PacketReceiver`: the threads run, and the iterating
thread goes on (it is a `for` loop over the iterator) and gets the GIL if that is
free again and again (strong fairness: the interpreter hands it round); nothing
has to arrive and nobody has to call. `BwControl`: the same, the application
answers each report with `bws_set`, and the sender gets `bwLock` if it is free again
and again, because `bws_thread` sleeps between two rounds. `BlockPuller`: the threads
and a call once made go on; nobody has to iterate or send, and no wait has to
end without a signal.

## 4. Proofs

The modules `*Proofs` extend the module they are about, and every theorem holds for
all values of its constants. In each of them one inductive invariant, a conjunction
of named parts, is shown to hold initially and to be kept by every action (one
lemma or case per action); the properties follow from it. TLC checked each of
these invariants on the instance of the run before it was proved.

**`SendQueuesProofs`** (assumes `ConstantsOK`: `N > 0`, finitely many threads).

* `Accounting` = `TypeOK`, `TokensMatchPackets`, `CreditsMatchRoom` and
  `TakeFindsPacket`, which are inductive only together: that `f_send` does not go
  below zero needs `TakeFindsPacket` at `"data"`; that needs `TokensMatchPackets` at
  `SenderWait` (a unit taken means a packet queued, and the sender alone takes
  packets out); and the units match only while no counter underflows. `InMove`
  says how the number of threads at a place changes when one moves. Theorems
  `TypeCorrect`, `TokensCorrect`, `CreditsCorrect`, `TakeCorrect`.
* `FifoImplemented`: the rings refine `FifoClasses`. `RingAppend` and `RingTail` say what
  the indices modulo `N` do to the contents of a ring; `RefinesStep` maps each
  action to a step of the abstract queues or to a stutter.
* `PairInv` adds `Pairing` (while `z` is set, the head of the send queue is for the
  host of the packet that just left) and `Overtaking` (how far an ack can have been
  overtaken, by place of the sender): `AckOvertakenTwiceCorrect`, `ConsecutiveCorrect`.
* `ShutInv`, for `ShutSpec`: the same equation with the one unit of `sFull` that
  `die()` posts for no packet. Before it a packet is found wherever one is taken
  without a test; after it only the first packet of a turn can find the send
  queue empty, and then the sender tests `kill_bora_threads` before it takes
  another. Theorem `AtMostOneStaleCorrect`.

**`BlockCacheProofs`** (assumes `CacheConstantsOK`). `IInv` says who is where (`Places`),
who holds which lock (`Locks`), what a block and a task look like (`Blocks`, `Ops`),
that an id is twice in the list only after a race (`Alone`), that the block the
processor has found is the one it works on (`AtHand`), and that acknowledged and
announced fragments are in it (`Kept`, `Told`). Theorems `TypeCorrect`,
`NoLockCycleCorrect`, `AcknowledgedCorrect`, `AnnouncedCorrect`. `AtHand` carries the weight:
the processor lets go of all locks between `get_consecutives`, `addfragment` and
`iscomplete`. `CutsAlikeCorrect` rests on a second invariant, `CutInv` (theorem `CutHolds`): a
block was made by `addblock` from a content, or by `addfragment` from the first
fragment that arrived, which came from one (`Made`). It has the hypothesis `ShortContents`,
that no content has more fragments than the 16-bit `fn` can count: with more,
`calcfragments` wraps around and the fragments do not add up. The lemma `CutAddsUp` is
what `calcfragments` does for the others.

**`RetransmissionProofs`** (assumes `RetransmissionConstants`). `IInv`: the types; what
travels stands for the packet with its number and the peer has what an ack counts
(`Travelling`, `Confirmed`); the number of a datagram is still in the list, or every
number up to it is gone or about to go (`Order`); the two queues, the packet in
hand and the lists are disjoint, and disjoint from what is done or given up
(`Apart`); no packet of a block sent is missing (`Tracked`; `AcceptedElems` is what `send_data`
may take of a block). The key lemma is
`FoundPacket`: by `Order` and because a datagram is gone before its number is given out
again, the newest packet with the seq number of an ack is the one it answers.
Theorems `TypeCorrect`, `NotLostCorrect`, `OneCopyCorrect`. That a datagram does not live for a
round of 2^16 packets is an assumption on the network, in the guard of
`SenderAppend`.

**`PacketReceiverProofs`** (assumes `ReceiverConstants` and `MTUAssumption`, MTU <= 1400: every
datagram is one that `packet_send` makes, as `Sendable` says, and
`Stripped(d) >= 0`, which leaves out an empty raw message that is the second of a
pair from a NAT port above 255, whose length would go below zero). `IInv` gives the
contents of both rings slot by slot as what is between two points of the
traffic, and the counters as what was handled. Theorems `TypeCorrect`,
`HandledAsSentCorrect`, `IteratorCorrect`, `InCountersCorrect`. `Shapes` reduces all traffic to the five
shapes the dispatch tells apart.

**`CookieSenderProofs`** (assumes `CookieConstants`). For any callers: `TypeCorrect`, with at most
two cookies per call. With the hypothesis `SingleCaller`, because two callers
deadlock (run `cookie_gil`): `FreshResultsCorrect`, `UnitsLeakedCorrect`, `UnitsAreCookiesCorrect`, from
`OneInv`, which lists the stages of an exchange (`Sending`, `Answering`) as long as no call
has timed out, and counts the units of `ckEmpty` always.

**`BwControlProofs`** (assumes `BwConstants`). `IInv`: until `die()` a round is in exactly one
place (`Round`); a packet that is out and not counted is missing in the counter
(`Counters`); while `ack_list` is held every store is empty (`PeerData`), which makes the
statistics consistent when it is released; `Slips`, `Reports`. Theorems `TypeCorrect`,
`PeerStatsCorrect`, `OnePacketSlipsCorrect`.

**`BlockPullerProofs`** (assumes `PullerConstants`). `IInv`: a unit of `sFull` is a packet or the one
of `die()`, the bridge's semaphores make up its size, and until `die()` the puller is at
`block_pull` again only after an answer or a wait for it that ended by itself (`Asked`). Theorems `TypeCorrect`, `OneBlockCorrect` (an action
property).

**`BwSamplesProofs`** (assumes `SamplesConstants`). The exception of `SamplesAreBackToBack` for a block
sent twice is what the invariant turns on: of a block a source was told to send
once, the fragments stand in the send queue next to each other and in order
(`Queued`); if some were sent, the others are first in the queue and come after them
(`Started`); and while the first packet of a pair is the last one sent, the head of
the queue either belongs to its block, with all other fragments sent of it before
that packet, or to a block not begun (`Paired`, by `Follows`). `Follows` then travels with
every flagged datagram (`Travelling`); it depends only on the log up to that packet, so it
survives later sending, loss and reordering. With the fragment recorded last
(`Recorded`) it leaves no room between the two packets of a sample (`SampleIs`), unless the
recorded one was sent later, as a retransmission.
Theorems `SamplesHold`, `BackToBackCorrect`.

Model-checked only:

* all liveness properties (`EveryPacketGoesOut`, `DieReturns`, `BlockArrives` and the others under
  a specification with fairness): out of the prover's reach;
* what the three runs expected to fail state, which the code violates.

## 5. Plan

Done: all modules of section 2, and a theorem for every safety property of the
passing runs. Four theorems need a hypothesis beyond the assumptions on the
constants: `SingleCaller` for three of the cookie exchange, `ShortContents` for the cut of
blocks (section 4).

Left: the hazards without a property (the destruction of semaphores and locks that
are still in use, and the comparison of `highest_seq` after its wrap).

## 6. Not modelled

* The length of pauses, time stamps, RTT values and floating point rates: no
  control depends on them but the timeout, which `Retransmission` leaves open.
* Restart: `death` is never reset, so after `die()` every call answers None and a new
  `listen_on` starts threads nobody can use.
* The destruction of semaphores and locks in `die()` while a thread that is stopped
  later may still use them, and `listen_on`, which starts threads before the
  iterators' semaphores exist: a few instructions of undefined behaviour each.
* Two threads on one iterator, and `bws_set` without a report: misuse that the
  module neither documents nor prevents.
* Memory exhaustion (the code exits), payload bytes, byte order, argument parsing,
  `queue.h`, `main.c`, `spam.c` and the Windows code.
