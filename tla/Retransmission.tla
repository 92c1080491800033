--------------------------- MODULE Retransmission ---------------------------
(***************************************************************************)
(* Acknowledgement and retransmission of block fragments (ack.c and        *)
(* ack_received.c): a node that sent a block to each of its peers, the     *)
(* list nacks of the packets that wait for an ack, and the three ways a    *)
(* packet leaves it: its own ack, an ack of a later fragment that counts   *)
(* it among its consecutive ones, and a retransmission, ordered by an ack  *)
(* that overtook it or by the timeout at bws_set.                          *)
(*                                                                         *)
(* The sender thread (append_ack), the packet processor (ack_received) and *)
(* the Python thread in bws_set (resend_timeout_nacks) share the list      *)
(* under nack_lock; the last two exclude each other by ack_list.  The      *)
(* queues are the FIFO queues that SendQueues implements.  send_data drops *)
(* a packet when its ring or qEmpty has no room, which depends also on the *)
(* acks, raw messages and other blocks that share them and are not in this *)
(* module: it may refuse any packet.                                       *)
(*                                                                         *)
(* The network loses, duplicates and reorders, but a datagram and its ack  *)
(* are gone before the 16-bit seq_num comes round to the same number.  A   *)
(* clock tick separates two sends, so that sendtime orders packets as they *)
(* left.                                                                   *)
(* append_ack puts every packet at the head of its peer's list: the list   *)
(* is a set of packets here, and its order that of their sending.          *)
(***************************************************************************)
EXTENDS Integers, Sequences, FiniteSets, Functions

CONSTANTS
  Peers,
  FN,             \* FN[p]: fragments of the block peer p is sent
  SeqRange,         \* 2^16: seq_num is a uint16_t
  NRetr,          \* slots of retr_buf
  MaxFaults       \* bound: datagrams the network loses or delivers twice, and packets
                  \* that time out although they or their ack still travel

ASSUME RetransmissionConstants ==
  /\ FN \in [Peers -> Nat \ {0}]
  /\ SeqRange \in Nat \ {0}
  /\ NRetr \in Nat \ {0}
  /\ MaxFaults \in Nat

Frag == UNION {0..(FN[p] - 1) : p \in Peers}

Packet == {x \in [p : Peers, f : Frag] : x.f < FN[x.p]}

VARIABLES
  sendQ,       \* fragments in send_buf
  retrQ,       \* fragments in retr_buf
  d,           \* the packet packet_send has taken, as a sequence of length 0 or 1
  n,           \* packets that got a seq number; seq_num = n % SeqRange, sendtime = n
  nacks,       \* nacks[p]: the packets in the list of peer p
  known,       \* peers with an entry in peeracklist
  data,        \* fragments on the network
  acks,        \* acks on the network
  have,        \* have[p]: the fragments peer p has stored
  ppc,         \* where the processor is with an ack
  pop,         \* the ack it works on: the popped packet and cons
  apc,         \* the Python thread: "idle", or "expire" in resend_timeout_nacks
  cut,         \* cut[p]: packets of p sent up to then have timed out
  handed,      \* history: peers the block was sent to
  done,        \* history: packets whose ack, own or implied, came
  forgotten,   \* history: packets given up without an ack
  faults       \* datagrams lost or repeated and packets timed out too early so far

queueVars == <<sendQ, retrQ, d>>
procVars  == <<ppc, pop>>
appVars   == <<apc, cut>>
netVars   == <<data, acks>>
vars == <<queueVars, n, nacks, known, netVars, have, procVars, appVars, handed, done,
          forgotten, faults>>

NoPop == [p |-> "none"]

Init ==
  /\ sendQ = <<>> /\ retrQ = <<>> /\ d = <<>>
  /\ n = 0
  /\ nacks = [p \in Peers |-> {}]
  /\ known = {}
  /\ data = {} /\ acks = {}
  /\ have = [p \in Peers |-> {}]
  /\ ppc = "idle" /\ pop = NoPop
  /\ apc = "idle" /\ cut = [p \in Peers |-> 0]
  /\ handed = {} /\ done = {} /\ forgotten = {}
  /\ faults = 0

(* nack_lock is held across the calls of send_data in the two loops. *)
NackLockFree == ppc # "resend" /\ apc = "idle"

-----------------------------------------------------------------------------
(* The fragments of the block for p, and what send_data may accept of them: *)
(* some, in order.                                                          *)
BlockOf(p) == {x \in Packet : x.p = p}

Accepted(p) ==
  { q \in UNION {[1..m -> BlockOf(p)] : m \in 0..FN[p]} :
    \A i, j \in DOMAIN q : i < j => q[i].f < q[j].f }

(* sendblock passes the fragments of the block to send_data, in order; the  *)
(* refused ones are lost, and nobody is told.  The sender may take the      *)
(* first before the last is queued, which makes no difference: it takes     *)
(* them at the other end.                                                   *)
SendBlock(p) ==
  /\ apc = "idle"
  /\ p \notin handed
  /\ handed' = handed \cup {p}
  /\ \E q \in Accepted(p) :
       /\ sendQ' = sendQ \o q
       /\ forgotten' = forgotten \cup (BlockOf(p) \ Range(q))
  /\ UNCHANGED <<retrQ, d, n, nacks, known, netVars, have, procVars, appVars, done,
                 faults>>

(* packet_send takes a packet: a retransmission first, unless the packet is *)
(* the second of a pair.                                                    *)
SenderTake ==
  /\ d = <<>>
  /\ \/ retrQ # <<>> /\ d' = <<Head(retrQ)>> /\ retrQ' = Tail(retrQ) /\ UNCHANGED sendQ
     \/ sendQ # <<>> /\ d' = <<Head(sendQ)>> /\ sendQ' = Tail(sendQ) /\ UNCHANGED retrQ
  /\ UNCHANGED <<n, nacks, known, netVars, have, procVars, appVars, handed, done,
                 forgotten, faults>>

(* Before the seq number of a datagram is given out again it is gone. *)
NetworkIsFast == \A m \in data \cup acks : n + 1 - m.n < SeqRange

(* append_ack, and sendto. *)
SenderAppend ==
  /\ d # <<>>
  /\ NackLockFree
  /\ NetworkIsFast
  /\ n' = n + 1
  /\ nacks' = [nacks EXCEPT ![d[1].p] = @ \cup {[n |-> n + 1, f |-> d[1].f]}]
  /\ data' = data \cup {[p |-> d[1].p, f |-> d[1].f, n |-> n + 1]}
  /\ d' = <<>>
  /\ UNCHANGED <<sendQ, retrQ, known, acks, have, procVars, appVars, handed, done,
                 forgotten, faults>>

-----------------------------------------------------------------------------
(* The network and the peer.                                                *)

Lose ==
  /\ faults < MaxFaults
  /\ faults' = faults + 1
  /\ \/ \E m \in data : data' = data \ {m} /\ UNCHANGED acks
     \/ \E m \in acks : acks' = acks \ {m} /\ UNCHANGED data
  /\ UNCHANGED <<queueVars, n, nacks, known, have, procVars, appVars, handed, done,
                 forgotten>>

(* A delivered datagram leaves the set, or is delivered once more. *)
Delivered(set, m) ==
  \/ set' = set \ {m} /\ UNCHANGED faults
  \/ faults < MaxFaults /\ faults' = faults + 1 /\ UNCHANGED set

(* get_consecutives: the fragments the peer has directly before f. *)
Consecutives(p, f) ==
  LET gap == {i \in 0..(f - 1) : i \notin have[p]}
  IN  IF gap = {} THEN f ELSE f - 1 - (CHOOSE i \in gap : \A j \in gap : j <= i)

(* The peer acknowledges the fragment and stores it. *)
PeerReceives ==
  /\ \E m \in data :
       /\ Delivered(data, m)
       /\ acks' = acks \cup {[p |-> m.p, n |-> m.n, cons |-> Consecutives(m.p, m.f)]}
       /\ have' = [have EXCEPT ![m.p] = @ \cup {m.f}]
  /\ UNCHANGED <<queueVars, n, nacks, known, procVars, appVars, handed, done, forgotten>>

-----------------------------------------------------------------------------
(* The packet processor.                                                    *)

(* The first packet of S in the list, and the last one. *)
Newest(S) == CHOOSE k \in S : \A j \in S : j.n <= k.n

OldestOf(S) == CHOOSE k \in S : \A j \in S : k.n <= j.n

(* The packets of peer p with the seq number of ack a. *)
Matching(a) == {k \in nacks[a.p] : k.n % SeqRange = a.n % SeqRange}

(* The packet k of peer a.p leaves the list. *)
Popped(a, k) ==
  /\ nacks' = [nacks EXCEPT ![a.p] = @ \ {k}]
  /\ pop' = [p |-> a.p, f |-> k.f, n |-> k.n, cons |-> a.cons]
  /\ ppc' = "popped"
  /\ done' = done \cup {[p |-> a.p, f |-> k.f]}

(* Mutant: the oldest packet with the seq number. *)
AckPopOldest ==
  /\ ppc = "idle"
  /\ NackLockFree
  /\ \E a \in acks :
       /\ Delivered(acks, a)
       /\ IF Matching(a) = {}
          THEN UNCHANGED <<nacks, procVars, done>>
          ELSE Popped(a, OldestOf(Matching(a)))
  /\ UNCHANGED <<queueVars, n, known, data, have, appVars, handed, forgotten>>

(* pop_ack: the newest packet of this peer with the seq number of the ack;  *)
(* with none it is a bad ack.                                               *)
AckPop ==
  /\ ppc = "idle"
  /\ NackLockFree
  /\ \E a \in acks :
       /\ Delivered(acks, a)
       /\ IF Matching(a) = {}
          THEN UNCHANGED <<nacks, procVars, done>>
          ELSE Popped(a, Newest(Matching(a)))
  /\ UNCHANGED <<queueVars, n, known, data, have, appVars, handed, forgotten>>

Older(k) == k.n < pop.n

Packets(p, S) == {[p |-> p, f |-> k.f] : k \in S}

(* The packets that the popped one has overtaken. *)
Overtaken == {k \in nacks[pop.p] : Older(k)}

(* ack_received for the first ack of a peer: the packets sent to it before  *)
(* are dropped (remove_ooo_nacks), not sent again.                          *)
AckFromNewPeer ==
  /\ ppc = "popped"
  /\ apc = "idle"
  /\ pop.p \notin known
  /\ known' = known \cup {pop.p}
  /\ nacks' = [nacks EXCEPT ![pop.p] = @ \ Overtaken]
  /\ forgotten' = forgotten \cup Packets(pop.p, Overtaken)
  /\ ppc' = "idle" /\ pop' = NoPop
  /\ UNCHANGED <<queueVars, n, netVars, have, appVars, handed, done, faults>>

(* The packets whose ack got lost, by the count of consecutive fragments in *)
(* this one.                                                                *)
Implied(k) == Older(k) /\ k.f < pop.f /\ pop.f - k.f <= pop.cons

LostAcks == {k \in nacks[pop.p] : Implied(k)}

(* ack_received for a known peer: remove_lost_acks. *)
AckFromKnownPeer ==
  /\ ppc = "popped"
  /\ apc = "idle"
  /\ pop.p \in known
  /\ nacks' = [nacks EXCEPT ![pop.p] = @ \ LostAcks]
  /\ done' = done \cup Packets(pop.p, LostAcks)
  /\ ppc' = "resend"
  /\ UNCHANGED <<queueVars, n, known, netVars, have, pop, appVars, handed, forgotten, faults>>

(* Mutants: the packet stays in the list; the queue is not tested for room; *)
(* the packet is not passed to send_data.                                   *)
ResendKeep(p, k) ==
  /\ \/ Len(retrQ) < NRetr /\ retrQ' = Append(retrQ, [p |-> p, f |-> k.f])
     \/ UNCHANGED retrQ
  /\ UNCHANGED <<nacks, forgotten>>

ResendDropped(p, k) ==
  /\ nacks' = [nacks EXCEPT ![p] = @ \ {k}]
  /\ UNCHANGED <<retrQ, forgotten>>

ResendUnchecked(p, k) ==
  /\ nacks' = [nacks EXCEPT ![p] = @ \ {k}]
  /\ retrQ' = Append(retrQ, [p |-> p, f |-> k.f])
  /\ UNCHANGED forgotten

(* The packet goes to the retransmission queue, or nowhere when send_data   *)
(* refuses it, and leaves the list.                                         *)
Resend(p, k) ==
  LET pkt == [p |-> p, f |-> k.f]
  IN  /\ nacks' = [nacks EXCEPT ![p] = @ \ {k}]
      /\ \/ Len(retrQ) < NRetr /\ retrQ' = Append(retrQ, pkt) /\ UNCHANGED forgotten
         \/ forgotten' = forgotten \cup {pkt} /\ UNCHANGED retrQ

(* One turn of the loop of resend_ooo_nacks, and its end. *)
ResendOoo ==
  /\ ppc = "resend"
  /\ IF Overtaken # {}
     THEN Resend(pop.p, Newest(Overtaken)) /\ UNCHANGED procVars
     ELSE ppc' = "idle" /\ pop' = NoPop /\ UNCHANGED <<nacks, retrQ, forgotten>>
  /\ UNCHANGED <<sendQ, d, n, known, netVars, have, appVars, handed, done, faults>>

-----------------------------------------------------------------------------
(* bws_set: resend_timeout_nacks.                                           *)

Travels(p, k) == \E m \in data \cup acks : m.p = p /\ m.n = k.n

(* The packets of p sent up to c, and those of them that still travel. *)
UpTo(p, c) == {k \in nacks[p] : k.n <= c}

Early(p, c) == {<<p, k>> : k \in {j \in UpTo(p, c) : Travels(p, j)}}

(* Where the packets of p that have timed out may end. *)
Cuts(p) == {0} \cup {k.n : k \in nacks[p]}

(* Some packet has timed out; a peer's packets time out in the order they   *)
(* were sent, and rarely before their ack had the time to come.             *)
TimeoutStart ==
  /\ apc = "idle"
  /\ ppc \in {"idle", "popped"}
  /\ \E c \in [Peers -> UNION {Cuts(p) : p \in Peers}] :
       /\ \A p \in Peers : c[p] \in Cuts(p)
       /\ \E p \in Peers : c[p] > 0
       /\ \E early \in 0..(MaxFaults - faults) :
            /\ early = Cardinality(UNION {Early(p, c[p]) : p \in Peers})
            /\ faults' = faults + early
       /\ cut' = c
  /\ apc' = "expire"
  /\ UNCHANGED <<queueVars, n, nacks, known, netVars, have, procVars, handed, done,
                 forgotten>>

(* One turn of the loop, and its end. *)
TimeoutStep ==
  /\ apc = "expire"
  /\ \/ \E p \in Peers : /\ UpTo(p, cut[p]) # {}
                          /\ Resend(p, Newest(UpTo(p, cut[p])))
                          /\ UNCHANGED appVars
     \/ /\ \A p \in Peers : UpTo(p, cut[p]) = {}
        /\ apc' = "idle" /\ cut' = [p \in Peers |-> 0]
        /\ UNCHANGED <<nacks, retrQ, forgotten>>
  /\ UNCHANGED <<sendQ, d, n, known, netVars, have, procVars, handed, done, faults>>

-----------------------------------------------------------------------------
Sender == SenderTake \/ SenderAppend

Processor == AckPop \/ AckFromNewPeer \/ AckFromKnownPeer \/ ResendOoo

Next == \/ \E p \in Peers : SendBlock(p)
        \/ Sender \/ Processor \/ TimeoutStart \/ TimeoutStep \/ Lose \/ PeerReceives

Spec == Init /\ [][Next]_vars

(* The threads run, the application keeps calling bws_set, and what the    *)
(* network does not lose it delivers.                                      *)
FairSpec == /\ Spec
            /\ WF_vars(Sender) /\ WF_vars(Processor)
            /\ WF_vars(TimeoutStart) /\ WF_vars(TimeoutStep)
            /\ WF_vars(PeerReceives)

-----------------------------------------------------------------------------
(* Properties.                                                             *)

(* Every variable keeps its type; the retransmission queue stays within    *)
(* its ring and no list has two packets with one send time.                *)
TypeOK ==
  /\ sendQ \in Seq(Packet) /\ retrQ \in Seq(Packet) /\ Len(retrQ) <= NRetr
  /\ d \in Seq(Packet) /\ Len(d) <= 1
  /\ n \in Nat
  /\ nacks \in [Peers -> SUBSET [n : 1..n, f : Frag]]
  /\ \A p \in Peers : \A j, k \in nacks[p] : j.n = k.n => j = k
  /\ known \subseteq Peers /\ handed \subseteq Peers
  /\ data \subseteq [p : Peers, f : Frag, n : 1..n]
  /\ acks \subseteq [p : Peers, n : 1..n, cons : Frag]
  /\ have \in [Peers -> SUBSET Frag]
  /\ ppc \in {"idle", "popped", "resend"} /\ apc \in {"idle", "expire"}
  /\ pop \in [p : Peers, f : Frag, n : 1..n, cons : Frag] \cup {NoPop}
  /\ cut \in [Peers -> Nat]
  /\ done \subseteq Packet /\ forgotten \subseteq Packet
  /\ faults \in 0..MaxFaults

(* Where the node still has packet x to send or to wait for. *)
In(q, x) == {i \in 1..Len(q) : q[i] = x}

Copies(x) ==
  ({"send"} \X In(sendQ, x)) \cup ({"retr"} \X In(retrQ, x)) \cup ({"taken"} \X In(d, x))
  \cup ({"nack"} \X {k.n : k \in {j \in nacks[x.p] : j.f = x.f}})

(* No fragment gets lost unnoticed: one that the peer does not have is     *)
(* still queued or waiting for its ack, except those given up when the     *)
(* first ack of a new peer came and those send_data refused, when the      *)
(* block was sent or for a retransmission.                                 *)
(* In particular no ack is taken for that of another packet, neither when  *)
(* seq_num wraps nor when a duplicate comes nor by the consecutive count.  *)
NotLostUnnoticed ==
  \A x \in Packet :
    (x.p \in handed /\ x.f \notin have[x.p] /\ x \notin forgotten) => Copies(x) # {}

(* A fragment is never under way twice: a retransmission replaces the      *)
(* packet it repeats, and nothing acknowledged is sent again.              *)
OneCopy ==
  \A x \in Packet : /\ \A u, v \in Copies(x) : u = v
                    /\ x \in done \cup forgotten => Copies(x) = {}

(* Every fragment of a block that was sent arrives, unless it was given up  *)
(* at the first ack of its peer or refused by send_data: from some time on  *)
(* nothing is outstanding.                                                  *)
BlockArrives ==
  <>[](\A x \in Packet : x.p \in handed => x.f \in have[x.p] \/ x \in forgotten)
=============================================================================
