------------------------ MODULE RetransmissionProofs ------------------------
(***************************************************************************)
(* Proofs about acknowledgement and retransmission: no fragment is lost    *)
(* unnoticed and none is under way twice, for any peers, blocks, losses,   *)
(* duplicates and delays shorter than a round of seq_num.                  *)
(***************************************************************************)
EXTENDS Retransmission, SequenceTheorems, WellFoundedInduction, TLAPS

Nack == [n : 1..n, f : Frag]

(* The lists: no two packets with one send time, and every fragment        *)
(* belongs to the block of the peer.                                       *)
Lists ==
  /\ nacks \in [Peers -> SUBSET Nack]
  /\ \A p \in Peers : \A k \in nacks[p] : k.f < FN[p]
  /\ \A p \in Peers : \A j, k \in nacks[p] : j.n = k.n => j = k

(* The values of the variables. *)
Typed ==
  /\ sendQ \in Seq(Packet) /\ retrQ \in Seq(Packet) /\ Len(retrQ) <= NRetr
  /\ d \in Seq(Packet) /\ Len(d) <= 1
  /\ n \in Nat
  /\ Lists
  /\ known \subseteq Peers /\ handed \subseteq Peers
  /\ data \subseteq [p : Peers, f : Frag, n : 1..n] /\ \A m \in data : m.f < FN[m.p]
  /\ acks \subseteq [p : Peers, n : 1..n, cons : Frag]
  /\ have \in [Peers -> SUBSET Frag]
  /\ ppc \in {"idle", "popped", "resend"} /\ apc \in {"idle", "expire"}
  /\ ppc = "idle" => pop = NoPop
  /\ ppc # "idle" => pop \in [p : Peers, f : Frag, n : 1..n, cons : Frag] /\ pop.f < FN[pop.p]
  /\ cut \in [Peers -> Nat]
  /\ done \subseteq Packet /\ forgotten \subseteq Packet
  /\ faults \in 0..MaxFaults

(* What travels: no datagram is older than one round of seq_num; a packet  *)
(* with its number in the list is the one that was sent, and what an ack   *)
(* stands for the peer has.                                                *)
Travelling ==
  /\ \A m \in data \cup acks : n - m.n < SeqRange
  /\ \A m \in data : \A k \in nacks[m.p] : k.n = m.n => k.f = m.f
  /\ \A a \in acks : \A k \in nacks[a.p] : k.n = a.n => (k.f - a.cons)..k.f \subseteq have[a.p]

(* The same for the ack the processor works on, whose packet left the list. *)
Confirmed ==
  ppc # "idle" => /\ (pop.f - pop.cons)..pop.f \subseteq have[pop.p]
                  /\ \A k \in nacks[pop.p] : k.n # pop.n

(* The number of a datagram is still in the list, or everything before it  *)
(* is gone too, or is about to go.                                         *)
Listed(p, i) ==
  \/ \E k \in nacks[p] : k.n = i
  \/ \A k \in nacks[p] : k.n > i
  \/ ppc # "idle" /\ pop.p = p /\ i <= pop.n
  \/ apc = "expire" /\ i <= cut[p]

Order == \A m \in data \cup acks : Listed(m.p, m.n)

(* Where the packets are. *)
Elems(q) == {q[i] : i \in 1..Len(q)}

Injective(q) == \A i, j \in 1..Len(q) : q[i] = q[j] => i = j

Waiting == {x \in Packet : \E k \in nacks[x.p] : k.f = x.f}

Everywhere == Elems(sendQ) \cup Elems(retrQ) \cup Elems(d) \cup Waiting

(* Every packet is at one place at most, and those that got an ack or were *)
(* given up are nowhere.                                                   *)
Apart ==
  /\ Injective(sendQ) /\ Injective(retrQ)
  /\ \A p \in Peers : \A j, k \in nacks[p] : j.f = k.f => j = k
  /\ Elems(sendQ) \cap Elems(retrQ) = {} /\ Elems(sendQ) \cap Elems(d) = {}
  /\ Elems(sendQ) \cap Waiting = {} /\ Elems(retrQ) \cap Elems(d) = {}
  /\ Elems(retrQ) \cap Waiting = {} /\ Elems(d) \cap Waiting = {}
  /\ Everywhere \cap (done \cup forgotten) = {}

(* Every packet is of a block that was sent, and every packet of such a    *)
(* block is somewhere until the peer has it, unless it was given up.       *)
Tracked ==
  /\ \A x \in Everywhere \cup done \cup forgotten : x.p \in handed
  /\ \A x \in Packet : x.p \in handed =>
       x.f \in have[x.p] \/ x \in forgotten \/ x \in Everywhere

IInv == Typed /\ Travelling /\ Confirmed /\ Order /\ Apart /\ Tracked
-----------------------------------------------------------------------------
(* Numbers.                                                                *)

(* A set of natural numbers has a least one. *)
LEMMA Least ==
  ASSUME NEW T, T \subseteq Nat, T # {}
  PROVE  \E x \in T : \A y \in T : x <= y
<1>1. PICK x \in T : \A y \in T : <<y, x>> \notin OpToRel(<, Nat)
  <2>1. IsWellFoundedOn(OpToRel(<, Nat), Nat)
    BY NatLessThanWellFounded
  <2> HIDE DEF OpToRel
  <2>2. QED
    BY <2>1, WFMin
<1>2. \A y \in T : ~(y < x)
  BY <1>1 DEF OpToRel
<1>3. QED
  BY <1>2

(* Within one round of seq_num a number is known by its remainder. *)
LEMMA SameRound ==
  ASSUME NEW M \in Nat \ {0}, NEW x \in Nat, NEW y \in Nat, x % M = y % M, y <= x, x - y < M
  PROVE  x = y
<1> DEFINE a == x \div M
           b == y \div M
           r == x % M
<1>1. a \in Int /\ b \in Int /\ r \in Int /\ x = M * a + r /\ y = M * b + r
  OBVIOUS
<1> HIDE DEF a, b, r
<1>2. x - y = M * (a - b)
  BY <1>1
<1>3. a - b < 1
  <2> SUFFICES ASSUME a - b >= 1 PROVE FALSE
    BY <1>1
  <2>1. \A u \in Int : u >= 1 => M * u >= M
    OBVIOUS
  <2>2. M * (a - b) >= M
    BY <1>1, <2>1
  <2>3. QED
    BY <1>2, <2>2
<1>4. a - b > -1
  <2> SUFFICES ASSUME a - b <= -1 PROVE FALSE
    BY <1>1
  <2>1. \A u \in Int : u <= -1 => M * u < 0
    OBVIOUS
  <2>2. M * (a - b) < 0
    BY <1>1, <2>1
  <2>3. QED
    BY <1>2, <2>2
<1>5. a = b
  BY <1>1, <1>3, <1>4
<1>6. QED
  BY <1>1, <1>5

(* A list has a newest packet. *)
LEMMA NewestIs ==
  ASSUME n \in Nat, NEW S, S \subseteq Nack, S # {}
  PROVE  Newest(S) \in S /\ \A j \in S : j.n <= Newest(S).n
<1> DEFINE T == {n - k.n : k \in S}
<1>1. \A k \in S : k.n \in 1..n
  BY DEF Nack
<1>2. T \subseteq Nat /\ T # {}
  BY <1>1
<1>3. PICK x \in T : \A y \in T : x <= y
  <2> HIDE DEF T
  <2>1. QED
    BY <1>2, Least
<1>4. PICK k \in S : x = n - k.n
  BY <1>3
<1>5. \A j \in S : j.n <= k.n
  <2> TAKE j \in S
  <2>1. n - k.n <= n - j.n
    BY <1>3, <1>4
  <2>2. QED
    BY <1>1, <2>1
<1>6. QED
  BY <1>4, <1>5 DEF Newest

-----------------------------------------------------------------------------
(* Queues.                                                                 *)

(* A packet is taken from a queue. *)
LEMMA TailElems ==
  ASSUME NEW S, NEW q \in Seq(S), q # <<>>, Injective(q)
  PROVE  /\ Head(q) \in S /\ Head(q) \in Elems(q) /\ Tail(q) \in Seq(S)
         /\ Len(Tail(q)) = Len(q) - 1 /\ Injective(Tail(q))
         /\ Elems(Tail(q)) = Elems(q) \ {Head(q)}
<1>1. /\ Len(q) \in Nat /\ Len(q) > 0 /\ Head(q) = q[1] /\ Tail(q) \in Seq(S)
      /\ Len(Tail(q)) = Len(q) - 1 /\ \A i \in 1..Len(Tail(q)) : Tail(q)[i] = q[i + 1]
  OBVIOUS
<1>2. Head(q) \in S /\ Head(q) \in Elems(q)
  BY <1>1 DEF Elems
<1>3. Injective(Tail(q))
  <2> SUFFICES ASSUME NEW i \in 1..Len(Tail(q)), NEW j \in 1..Len(Tail(q)), Tail(q)[i] = Tail(q)[j]
               PROVE  i = j
    BY DEF Injective
  <2>1. i + 1 \in 1..Len(q) /\ j + 1 \in 1..Len(q) /\ q[i + 1] = q[j + 1]
    BY <1>1
  <2>2. i + 1 = j + 1
    BY <2>1 DEF Injective
  <2>3. QED
    BY <2>2
<1>4. ASSUME NEW x \in Elems(Tail(q)) PROVE x \in Elems(q) \ {Head(q)}
  <2>1. PICK i \in 1..Len(Tail(q)) : x = Tail(q)[i]
    BY <1>4 DEF Elems
  <2>2. i + 1 \in 1..Len(q) /\ x = q[i + 1] /\ 1 \in 1..Len(q) /\ i + 1 # 1
    BY <1>1, <2>1
  <2>3. x # q[1]
    BY <2>2 DEF Injective
  <2>4. QED
    BY <1>1, <2>2, <2>3 DEF Elems
<1>5. ASSUME NEW x \in Elems(q), x # Head(q) PROVE x \in Elems(Tail(q))
  <2>1. PICK i \in 1..Len(q) : x = q[i]
    BY <1>5 DEF Elems
  <2>2. i # 1
    BY <1>1, <1>5, <2>1
  <2>3. i - 1 \in 1..Len(Tail(q)) /\ Tail(q)[i - 1] = x
    BY <1>1, <2>1, <2>2
  <2>4. QED
    BY <2>3 DEF Elems
<1>6. QED
  BY <1>1, <1>2, <1>3, <1>4, <1>5

(* A queue grows. *)
LEMMA ConcatElems ==
  ASSUME NEW S, NEW q \in Seq(S), NEW r \in Seq(S), Injective(q), Injective(r),
         Elems(q) \cap Elems(r) = {}
  PROVE  q \o r \in Seq(S) /\ Injective(q \o r) /\ Elems(q \o r) = Elems(q) \cup Elems(r)
<1>1. /\ q \o r \in Seq(S) /\ Len(q \o r) = Len(q) + Len(r) /\ Len(q) \in Nat /\ Len(r) \in Nat
      /\ \A i \in 1..Len(q) + Len(r) : (q \o r)[i] = IF i <= Len(q) THEN q[i] ELSE r[i - Len(q)]
  BY ConcatProperties
<1> DEFINE z == q \o r
<1>2. /\ Len(z) = Len(q) + Len(r)
      /\ \A i \in 1..Len(z) : \/ i \in 1..Len(q) /\ z[i] = q[i]
                              \/ i - Len(q) \in 1..Len(r) /\ z[i] = r[i - Len(q)]
  BY <1>1
<1>3. /\ \A i \in 1..Len(q) : i \in 1..Len(z) /\ z[i] = q[i]
      /\ \A i \in 1..Len(r) : i + Len(q) \in 1..Len(z) /\ z[i + Len(q)] = r[i]
  BY <1>1
<1> HIDE DEF z
<1>4. Elems(z) = Elems(q) \cup Elems(r)
  <2>1. Elems(z) \subseteq Elems(q) \cup Elems(r)
    BY <1>2 DEF Elems
  <2>2. Elems(q) \subseteq Elems(z)
    BY <1>3 DEF Elems
  <2>3. Elems(r) \subseteq Elems(z)
    BY <1>3 DEF Elems
  <2>4. QED
    BY <2>1, <2>2, <2>3
<1>5. Injective(z)
  <2> SUFFICES ASSUME NEW i \in 1..Len(z), NEW j \in 1..Len(z), z[i] = z[j] PROVE i = j
    BY DEF Injective
  <2>1. CASE i \in 1..Len(q) /\ z[i] = q[i]
    <3>1. CASE j \in 1..Len(q) /\ z[j] = q[j]
      BY <2>1, <3>1 DEF Injective
    <3>2. CASE j - Len(q) \in 1..Len(r) /\ z[j] = r[j - Len(q)]
      BY <2>1, <3>2 DEF Elems
    <3>3. QED
      BY <1>2, <3>1, <3>2
  <2>2. CASE i - Len(q) \in 1..Len(r) /\ z[i] = r[i - Len(q)]
    <3>1. CASE j \in 1..Len(q) /\ z[j] = q[j]
      BY <2>2, <3>1 DEF Elems
    <3>2. CASE j - Len(q) \in 1..Len(r) /\ z[j] = r[j - Len(q)]
      <4>1. i - Len(q) = j - Len(q)
        BY <2>2, <3>2 DEF Injective
      <4>2. QED
        BY <1>1, <4>1
    <3>3. QED
      BY <1>2, <3>1, <3>2
  <2>3. QED
    BY <1>2, <2>1, <2>2
<1>6. QED
  BY <1>1, <1>4, <1>5 DEF z

(* A queue gets one packet more. *)
LEMMA AppendElems ==
  ASSUME NEW S, NEW q \in Seq(S), NEW x \in S, Injective(q), x \notin Elems(q)
  PROVE  /\ Append(q, x) \in Seq(S) /\ Len(Append(q, x)) = Len(q) + 1
         /\ Injective(Append(q, x)) /\ Elems(Append(q, x)) = Elems(q) \cup {x}
<1>1. /\ Append(q, x) \in Seq(S) /\ Len(Append(q, x)) = Len(q) + 1 /\ Len(q) \in Nat
      /\ \A i \in 1..Len(q) : Append(q, x)[i] = q[i]
      /\ Append(q, x)[Len(q) + 1] = x
  OBVIOUS
<1> DEFINE z == Append(q, x)
<1>2. \A i \in 1..Len(z) : (i \in 1..Len(q) /\ z[i] = q[i]) \/ (i = Len(q) + 1 /\ z[i] = x)
  BY <1>1
<1>3. Len(q) + 1 \in 1..Len(z) /\ z[Len(q) + 1] = x
      /\ \A i \in 1..Len(q) : i \in 1..Len(z) /\ z[i] = q[i]
  BY <1>1
<1> HIDE DEF z
<1>4. Elems(z) = Elems(q) \cup {x}
  BY <1>2, <1>3 DEF Elems
<1>5. Injective(z)
  BY <1>2 DEF Injective, Elems
<1>6. QED
  BY <1>1, <1>4, <1>5 DEF z

(* What send_data accepts of a block, and the rest of it. *)
LEMMA AcceptedElems ==
  ASSUME NEW p \in Peers, NEW q \in Accepted(p)
  PROVE  /\ q \in Seq(Packet) /\ Injective(q)
         /\ Range(q) = Elems(q) /\ Elems(q) \subseteq BlockOf(p)
<1>1. PICK m \in 0..FN[p] : q \in [1..m -> BlockOf(p)]
  BY DEF Accepted
<1>2. m \in Nat
  BY <1>1, RetransmissionConstants
<1>3. q \in Seq(BlockOf(p)) /\ Len(q) = m /\ DOMAIN q = 1..m
  BY <1>1, <1>2
<1>4. q \in Seq(Packet)
  BY <1>1, <1>2 DEF BlockOf
<1>5. Range(q) = Elems(q) /\ Elems(q) \subseteq BlockOf(p)
  BY <1>1, <1>3 DEF Range, Elems
<1>6. Injective(q)
  <2> SUFFICES ASSUME NEW i \in 1..m, NEW j \in 1..m, q[i] = q[j], i < j PROVE FALSE
    BY <1>2, <1>3 DEF Injective
  <2>1. q[i].f < q[j].f
    BY <1>3 DEF Accepted
  <2>2. q[i].f \in Nat
    BY <1>1, RetransmissionConstants DEF BlockOf, Packet, Frag
  <2>3. QED
    BY <2>1, <2>2
<1>7. QED
  BY <1>4, <1>5, <1>6

(* The packet the sender thread has taken. *)
LEMMA TakenElems ==
  /\ Elems(<<>>) = {}
  /\ \A x : Elems(<<x>>) = {x}
  /\ Typed => \/ d = <<>>
              \/ d[1] \in Packet /\ Elems(d) = {d[1]}
<1>1. Elems(<<>>) = {}
  BY DEF Elems
<1>2. ASSUME NEW x PROVE Elems(<<x>>) = {x}
  <2>1. 1..Len(<<x>>) = {1} /\ <<x>>[1] = x
    OBVIOUS
  <2>2. QED
    BY <2>1 DEF Elems
<1>3. ASSUME Typed, d # <<>> PROVE d[1] \in Packet /\ Elems(d) = {d[1]}
  <2>1. d \in Seq(Packet) /\ Len(d) = 1
    <3>1. d \in Seq(Packet) /\ Len(d) <= 1
      BY <1>3 DEF Typed
    <3>2. PICK l \in Nat \ {0} : l = Len(d)
      BY <1>3, <3>1, EmptySeq
    <3>3. l = 1
      BY <3>1, <3>2
    <3>4. QED
      BY <3>1, <3>2, <3>3
  <2>2. 1..Len(d) = {1} /\ d[1] \in Packet
    BY <2>1
  <2>3. QED
    BY <2>2 DEF Elems
<1>4. QED
  BY <1>1, <1>2, <1>3

-----------------------------------------------------------------------------
(* The lists.                                                              *)

(* The packets in a list are of the block of its peer. *)
LEMMA ListedPackets ==
  ASSUME Typed, NEW p \in Peers, NEW k \in nacks[p]
  PROVE  /\ k.n \in 1..n /\ k.f \in Frag /\ k.f \in Nat /\ k.f < FN[p]
         /\ [p |-> p, f |-> k.f] \in Packet /\ [p |-> p, f |-> k.f] \in Waiting
         /\ k = [n |-> k.n, f |-> k.f]
<1>1. k \in Nack /\ k.f < FN[p]
  BY DEF Typed, Lists
<1>2. k.n \in 1..n /\ k.f \in Frag /\ k = [n |-> k.n, f |-> k.f]
  BY <1>1 DEF Nack
<1>3. k.f \in Nat
  BY <1>2, RetransmissionConstants DEF Frag
<1>4. [p |-> p, f |-> k.f] \in Packet
  BY <1>1, <1>2 DEF Packet
<1>5. [p |-> p, f |-> k.f] \in Waiting
  BY <1>4 DEF Waiting
<1>6. QED
  BY <1>1, <1>2, <1>3, <1>4, <1>5

(* Packets leave a list. *)
LEMMA ListShrinks ==
  ASSUME Typed, Apart, NEW p \in Peers, NEW S \in SUBSET nacks[p],
         nacks' = [nacks EXCEPT ![p] = @ \ S]
  PROVE  /\ nacks' \in [Peers -> SUBSET Nack]
         /\ \A q \in Peers : nacks'[q] \subseteq nacks[q]
         /\ nacks'[p] = nacks[p] \ S
         /\ \A q \in Peers : q # p => nacks'[q] = nacks[q]
         /\ Packets(p, S) \subseteq Waiting
         /\ Waiting' = Waiting \ Packets(p, S)
<1>1. nacks \in [Peers -> SUBSET Nack]
  BY DEF Typed, Lists
<1>2. nacks'[p] = nacks[p] \ S /\ \A q \in Peers : q # p => nacks'[q] = nacks[q]
  BY <1>1
<1>3. nacks' \in [Peers -> SUBSET Nack] /\ \A q \in Peers : nacks'[q] \subseteq nacks[q]
  BY <1>1
<1>4. Packets(p, S) \subseteq Waiting
  BY ListedPackets DEF Packets
<1>5. ASSUME NEW x \in Waiting' PROVE x \in Waiting \ Packets(p, S)
  <2>1. x \in Packet /\ x.p \in Peers /\ \E k \in nacks'[x.p] : k.f = x.f
    BY DEF Waiting, Packet
  <2>2. PICK k \in nacks'[x.p] : k.f = x.f
    BY <2>1
  <2>3. k \in nacks[x.p]
    BY <1>3, <2>1
  <2>4. ASSUME x \in Packets(p, S) PROVE FALSE
    <3>1. PICK j \in S : x = [p |-> p, f |-> j.f]
      BY <2>4 DEF Packets
    <3>2. x.p = p /\ x.f = j.f
      BY <3>1
    <3>3. k = j
      BY <2>2, <2>3, <3>2 DEF Apart
    <3>4. QED
      BY <1>2, <2>2, <3>2, <3>3
  <2>5. QED
    BY <2>1, <2>2, <2>3, <2>4 DEF Waiting
<1>6. ASSUME NEW x \in Waiting, x \notin Packets(p, S) PROVE x \in Waiting'
  <2>1. x \in Packet /\ x.p \in Peers /\ x = [p |-> x.p, f |-> x.f] /\ \E k \in nacks[x.p] : k.f = x.f
    BY <1>6 DEF Waiting, Packet
  <2>2. PICK k \in nacks[x.p] : k.f = x.f
    BY <2>1
  <2>3. k \in nacks'[x.p]
    <3>1. CASE x.p = p
      <4>1. k \notin S
        <5> SUFFICES ASSUME k \in S PROVE FALSE
          OBVIOUS
        <5>1. x = [p |-> p, f |-> k.f]
          BY <2>1, <2>2, <3>1
        <5>2. QED
          BY <1>6, <5>1 DEF Packets
      <4>2. QED
        BY <1>2, <2>2, <3>1, <4>1
    <3>2. CASE x.p # p
      BY <1>2, <2>1, <2>2, <3>2
    <3>3. QED
      BY <3>1, <3>2
  <2>4. QED
    BY <2>1, <2>2, <2>3 DEF Waiting
<1>7. QED
  BY <1>2, <1>3, <1>4, <1>5, <1>6

(* A packet joins a list. *)
LEMMA ListGrows ==
  ASSUME Typed, NEW x \in Packet, NEW i \in Nat,
         nacks' = [nacks EXCEPT ![x.p] = @ \cup {[n |-> i, f |-> x.f]}]
  PROVE  /\ nacks'[x.p] = nacks[x.p] \cup {[n |-> i, f |-> x.f]}
         /\ \A q \in Peers : q # x.p => nacks'[q] = nacks[q]
         /\ Waiting' = Waiting \cup {x}
<1>1. nacks \in [Peers -> SUBSET Nack] /\ x.p \in Peers /\ x = [p |-> x.p, f |-> x.f]
  BY DEF Typed, Lists, Packet
<1>2. /\ nacks'[x.p] = nacks[x.p] \cup {[n |-> i, f |-> x.f]}
      /\ \A q \in Peers : q # x.p => nacks'[q] = nacks[q]
  BY <1>1
<1>3. x \in Waiting'
  <2>1. [n |-> i, f |-> x.f] \in nacks'[x.p] /\ [n |-> i, f |-> x.f].f = x.f
    BY <1>2
  <2>2. \E k \in nacks'[x.p] : k.f = x.f
    BY <2>1
  <2>3. QED
    BY <2>2 DEF Waiting
<1>4. ASSUME NEW y \in Waiting PROVE y \in Waiting'
  <2>1. y \in Packet /\ y.p \in Peers /\ \E k \in nacks[y.p] : k.f = y.f
    BY DEF Waiting, Packet
  <2>2. nacks[y.p] \subseteq nacks'[y.p]
    BY <1>2, <2>1
  <2>3. QED
    BY <2>1, <2>2 DEF Waiting
<1>5. ASSUME NEW y \in Waiting', y # x PROVE y \in Waiting
  <2>1. y \in Packet /\ y.p \in Peers /\ y = [p |-> y.p, f |-> y.f] /\ \E k \in nacks'[y.p] : k.f = y.f
    BY <1>5 DEF Waiting, Packet
  <2>2. PICK k \in nacks'[y.p] : k.f = y.f
    BY <2>1
  <2>3. k \in nacks[y.p]
    <3>1. CASE y.p = x.p
      <4>1. k # [n |-> i, f |-> x.f]
        <5> SUFFICES ASSUME k = [n |-> i, f |-> x.f] PROVE FALSE
          OBVIOUS
        <5>1. y.f = x.f
          BY <2>2
        <5>2. QED
          BY <1>1, <1>5, <2>1, <3>1, <5>1
      <4>2. QED
        BY <1>2, <2>2, <3>1, <4>1
    <3>2. CASE y.p # x.p
      BY <1>2, <2>1, <2>2, <3>2
    <3>3. QED
      BY <3>1, <3>2
  <2>4. QED
    BY <2>1, <2>2, <2>3 DEF Waiting
<1>6. QED
  BY <1>2, <1>3, <1>4, <1>5
(* The list stays one when packets leave it. *)
LEMMA ShrunkLists ==
  ASSUME Typed, nacks' \in [Peers -> SUBSET Nack], n' = n,
         \A q \in Peers : nacks'[q] \subseteq nacks[q]
  PROVE  Lists'
<1>1. Lists
  BY DEF Typed
<1>2. Nack' = Nack
  BY DEF Nack
<1>3. QED
  BY <1>1, <1>2 DEF Lists

(* What travels stands for the same when packets leave the lists, or it    *)
(* arrives or gets lost.                                                   *)
LEMMA ShrunkTravelling ==
  ASSUME Typed, Travelling, \A q \in Peers : nacks'[q] \subseteq nacks[q],
         data' \subseteq data, acks' \subseteq acks, n' = n, have' = have
  PROVE  Travelling'
<1>1. /\ \A m \in data' : m \in data /\ m.p \in Peers
      /\ \A a \in acks' : a \in acks /\ a.p \in Peers
  BY DEF Typed
<1>2. \A m \in (data \cup acks)' : n' - m.n < SeqRange
  BY DEF Travelling
<1>3. \A m \in data' : \A k \in nacks'[m.p] : k.n = m.n => k.f = m.f
  BY <1>1 DEF Travelling
<1>4. \A a \in acks' : \A k \in nacks'[a.p] : k.n = a.n => (k.f - a.cons)..k.f \subseteq have'[a.p]
  BY <1>1 DEF Travelling
<1>5. QED
  BY <1>2, <1>3, <1>4 DEF Travelling

(* The fragments that get_consecutives counts are there. *)
LEMMA ConsecutivesHad ==
  ASSUME NEW p, NEW f \in Nat
  PROVE  /\ Consecutives(p, f) \in 0..f
         /\ (f - Consecutives(p, f))..(f - 1) \subseteq have[p]
<1> DEFINE gap == {i \in 0..(f - 1) : i \notin have[p]}
<1>1. CASE gap = {}
  <2>1. Consecutives(p, f) = f
    BY <1>1 DEF Consecutives
  <2>2. \A i \in 0..(f - 1) : i \in have[p]
    BY <1>1
  <2>3. (f - f)..(f - 1) = 0..(f - 1)
    OBVIOUS
  <2>4. QED
    BY <2>1, <2>2, <2>3
<1>2. CASE gap # {}
  <2> DEFINE T == {i \in Nat : f - 1 - i \in gap}
  <2>1. PICK g \in gap : TRUE
    BY <1>2
  <2>2. f - 1 - g \in Nat /\ f - 1 - (f - 1 - g) = g
    BY <2>1
  <2>3. T \subseteq Nat /\ T # {}
    BY <2>1, <2>2
  <2>4. PICK x \in T : \A y \in T : x <= y
    <3> HIDE DEF T
    <3>1. QED
      BY <2>3, Least
  <2>5. f - 1 - x \in gap
    BY <2>4
  <2>6. \A j \in gap : j <= f - 1 - x
    <3> TAKE j \in gap
    <3>1. f - 1 - j \in Nat /\ f - 1 - (f - 1 - j) = j
      OBVIOUS
    <3>2. f - 1 - j \in T
      BY <3>1
    <3>3. x <= f - 1 - j /\ x \in T
      <4> HIDE DEF T
      <4>1. QED
        BY <2>4, <3>2
    <3>4. x \in Nat /\ j \in Nat
      BY <3>3
    <3>5. QED
      BY <3>3, <3>4
  <2> DEFINE m == CHOOSE i \in gap : \A j \in gap : j <= i
  <2>7. m \in gap /\ \A j \in gap : j <= m
    BY <2>5, <2>6
  <2>8. Consecutives(p, f) = f - 1 - m
    BY <1>2 DEF Consecutives
  <2> HIDE DEF m
  <2>9. m \in 0..(f - 1)
    BY <2>7
  <2>10. \A i \in (m + 1)..(f - 1) : i \in have[p]
    <3> TAKE i \in (m + 1)..(f - 1)
    <3>1. i \in 0..(f - 1) /\ ~(i <= m)
      BY <2>9
    <3>2. QED
      BY <2>7, <3>1
  <2>11. f - (f - 1 - m) = m + 1 /\ f - 1 - m \in 0..f
    BY <2>9
  <2>12. QED
    BY <2>8, <2>10, <2>11
<1>3. QED
  BY <1>1, <1>2
(* pop_ack finds the packet the ack is for: within one round of seq_num no *)
(* other packet in the list has its number.                                *)
LEMMA FoundPacket ==
  ASSUME Typed, Travelling, Order, ppc = "idle", apc = "idle", NEW a \in acks, Matching(a) # {}
  PROVE  Newest(Matching(a)) \in nacks[a.p] /\ Newest(Matching(a)).n = a.n
<1> DEFINE S == Matching(a)
           k == Newest(S)
<1>1. /\ a.p \in Peers /\ a.n \in 1..n /\ n \in Nat /\ n - a.n < SeqRange
      /\ SeqRange \in Nat \ {0} /\ nacks[a.p] \subseteq Nack
  BY RetransmissionConstants DEF Typed, Travelling, Lists
<1>2. S \subseteq nacks[a.p] /\ S # {} /\ \A j \in S : j.n % SeqRange = a.n % SeqRange
  BY DEF Matching
<1>3. \A j \in nacks[a.p] : j.n % SeqRange = a.n % SeqRange => j \in S
  BY DEF Matching
<1>4. S \subseteq Nack
  BY <1>1, <1>2
<1>5. k \in S /\ \A j \in S : j.n <= k.n
  <2> HIDE DEF S
  <2>1. QED
    BY <1>1, <1>2, <1>4, NewestIs
<1> HIDE DEF S, k
<1>6. k \in nacks[a.p] /\ k.n \in 1..n /\ k.n % SeqRange = a.n % SeqRange
  BY <1>1, <1>2, <1>5 DEF Nack
<1>7. a.n <= k.n
  <2>1. Listed(a.p, a.n)
    BY DEF Order
  <2>2. CASE \E j \in nacks[a.p] : j.n = a.n
    BY <1>3, <1>5, <2>2
  <2>3. CASE \A j \in nacks[a.p] : j.n > a.n
    BY <1>1, <1>6, <2>3
  <2>4. QED
    BY <2>1, <2>2, <2>3 DEF Listed
<1>8. k.n - a.n < SeqRange
  BY <1>1, <1>6
<1>9. k.n = a.n
  <2>1. k.n \in Nat /\ a.n \in Nat
    BY <1>1, <1>6
  <2>2. QED
    BY <1>1, <1>6, <1>7, <1>8, <2>1, SameRound
<1>10. QED
  BY <1>6, <1>9 DEF S, k
-----------------------------------------------------------------------------
(* Where the packets are after a step.                                     *)

(* Packets leave a list because they were acknowledged or given up. *)
LEMMA PacketsLeave ==
  ASSUME Typed, Apart, Tracked, NEW p \in Peers, NEW S \in SUBSET nacks[p],
         nacks' = [nacks EXCEPT ![p] = @ \ S],
         UNCHANGED <<sendQ, retrQ, d, have, handed>>,
         done' \cup forgotten' = done \cup forgotten \cup Packets(p, S),
         forgotten \subseteq forgotten',
         Packets(p, S) \subseteq forgotten' \/ \A k \in S : k.f \in have[p]
  PROVE  Apart' /\ Tracked'
<1>1. /\ \A q \in Peers : nacks'[q] \subseteq nacks[q]
      /\ Packets(p, S) \subseteq Waiting /\ Waiting' = Waiting \ Packets(p, S)
  BY ListShrinks
<1> DEFINE W == Packets(p, S)
<1>2. \A x \in W : x \in forgotten' \/ x.f \in have[x.p]
  BY DEF Packets
<1> HIDE DEF W
<1>3. W \subseteq Waiting /\ Waiting' = Waiting \ W /\ done' \cup forgotten' = done \cup forgotten \cup W
  BY <1>1 DEF W
<1>4. Apart'
  <2>1. \A q \in Peers : \A j, k \in nacks'[q] : j.f = k.f => j = k
    BY <1>1 DEF Apart
  <2>2. (Injective(sendQ) /\ Injective(retrQ))'
    BY DEF Apart
  <2>3. Everywhere' \cap (done' \cup forgotten') = {}
    BY <1>3 DEF Apart, Everywhere
  <2>4. /\ Elems(sendQ') \cap Elems(retrQ') = {} /\ Elems(sendQ') \cap Elems(d') = {}
        /\ Elems(sendQ') \cap Waiting' = {} /\ Elems(retrQ') \cap Elems(d') = {}
        /\ Elems(retrQ') \cap Waiting' = {} /\ Elems(d') \cap Waiting' = {}
    BY <1>3 DEF Apart
  <2>5. QED
    BY <2>1, <2>2, <2>3, <2>4 DEF Apart
<1>5. Tracked'
  <2>1. \A x \in Everywhere' \cup done' \cup forgotten' : x.p \in handed'
    BY <1>3 DEF Tracked, Everywhere
  <2>2. ASSUME NEW x \in Packet, x.p \in handed' 
        PROVE  x.f \in have'[x.p] \/ x \in forgotten' \/ x \in Everywhere'
    <3>1. x.f \in have[x.p] \/ x \in forgotten \/ x \in Everywhere
      BY <2>2 DEF Tracked
    <3>2. CASE x \in W
      BY <1>2, <3>2
    <3>3. CASE x \notin W
      BY <1>3, <3>1, <3>3 DEF Everywhere
    <3>4. QED
      BY <3>2, <3>3
  <2>3. QED
    BY <2>1, <2>2 DEF Tracked
<1>6. QED
  BY <1>4, <1>5

(* A packet leaves its list for the retransmission queue, or is given up. *)
LEMMA ResendMoves ==
  ASSUME Typed, Apart, Tracked, NEW p \in Peers, NEW k \in nacks[p], Resend(p, k),
         UNCHANGED <<sendQ, d, have, handed, done>>
  PROVE  /\ Apart' /\ Tracked'
         /\ retrQ' \in Seq(Packet) /\ Len(retrQ') <= NRetr /\ forgotten' \subseteq Packet
<1> DEFINE pkt == [p |-> p, f |-> k.f]
<1>1. nacks' = [nacks EXCEPT ![p] = @ \ {k}]
  BY DEF Resend
<1>2. Packets(p, {k}) = {pkt}
  BY DEF Packets
<1>3. pkt \in Packet /\ pkt \in Waiting
  BY ListedPackets
<1>4. \/ Len(retrQ) < NRetr /\ retrQ' = Append(retrQ, pkt) /\ forgotten' = forgotten
      \/ forgotten' = forgotten \cup {pkt} /\ retrQ' = retrQ
  BY DEF Resend
<1>5. retrQ \in Seq(Packet) /\ Len(retrQ) <= NRetr /\ forgotten \subseteq Packet
  BY DEF Typed
<1>6. {k} \in SUBSET nacks[p]
  OBVIOUS
<1>7. CASE forgotten' = forgotten \cup {pkt} /\ retrQ' = retrQ
  <2>1. Apart' /\ Tracked'
    <3> HIDE DEF pkt
    <3>1. UNCHANGED <<sendQ, retrQ, d, have, handed>>
      BY <1>7
    <3>2. done' \cup forgotten' = done \cup forgotten \cup Packets(p, {k})
      BY <1>2, <1>7
    <3>3. forgotten \subseteq forgotten' /\ Packets(p, {k}) \subseteq forgotten'
      BY <1>2, <1>7
    <3>4. QED
      BY <1>1, <1>6, <3>1, <3>2, <3>3, PacketsLeave
  <2>2. QED
    BY <1>3, <1>5, <1>7, <2>1
<1>8. CASE Len(retrQ) < NRetr /\ retrQ' = Append(retrQ, pkt) /\ forgotten' = forgotten
  <2> HIDE DEF pkt
  <2>1. (\A q \in Peers : nacks'[q] \subseteq nacks[q]) /\ Waiting' = Waiting \ {pkt}
    <3>1. /\ \A q \in Peers : nacks'[q] \subseteq nacks[q]
          /\ Waiting' = Waiting \ Packets(p, {k})
      BY <1>1, <1>6, ListShrinks
    <3>2. QED
      BY <1>2, <3>1
  <2>2. Injective(retrQ) /\ pkt \notin Elems(retrQ)
    BY <1>3 DEF Apart
  <2>3. /\ retrQ' \in Seq(Packet) /\ Len(retrQ') = Len(retrQ) + 1
        /\ Injective(retrQ') /\ Elems(retrQ') = Elems(retrQ) \cup {pkt}
    BY <1>3, <1>5, <1>8, <2>2, AppendElems
  <2>4. Len(retrQ') <= NRetr
    <3>1. PICK l \in Nat : l = Len(retrQ)
      BY <1>5
    <3>2. QED
      BY <1>8, <2>3, <3>1, RetransmissionConstants
  <2>5. Apart'
    <3>1. \A q \in Peers : \A i, j \in nacks'[q] : i.f = j.f => i = j
      BY <2>1 DEF Apart
    <3>2. (Injective(sendQ) /\ Injective(retrQ))'
      BY <2>3 DEF Apart
    <3>3. Everywhere' \cap (done' \cup forgotten') = {}
      BY <1>3, <1>8, <2>1, <2>3 DEF Apart, Everywhere
    <3>4. /\ Elems(sendQ') \cap Elems(retrQ') = {} /\ Elems(sendQ') \cap Elems(d') = {}
          /\ Elems(sendQ') \cap Waiting' = {} /\ Elems(retrQ') \cap Elems(d') = {}
          /\ Elems(retrQ') \cap Waiting' = {} /\ Elems(d') \cap Waiting' = {}
      BY <1>3, <2>1, <2>3 DEF Apart
    <3>5. QED
      BY <3>1, <3>2, <3>3, <3>4 DEF Apart
  <2>6. Everywhere' = Everywhere
    BY <1>3, <2>1, <2>3 DEF Everywhere
  <2>7. Tracked'
    <3>1. \A x \in Everywhere' \cup done' \cup forgotten' : x.p \in handed'
      BY <1>8, <2>6 DEF Tracked
    <3>2. \A x \in Packet : x.p \in handed' =>
            x.f \in have'[x.p] \/ x \in forgotten' \/ x \in Everywhere'
      BY <1>8, <2>6 DEF Tracked
    <3>3. QED
      BY <3>1, <3>2 DEF Tracked
  <2>8. QED
    BY <1>5, <1>8, <2>3, <2>4, <2>5, <2>7
<1>9. QED
  BY <1>4, <1>7, <1>8
-----------------------------------------------------------------------------
(* The steps.                                                              *)

(* Nothing but the queues changes. *)
LEMMA QueueStep ==
  ASSUME Travelling, Confirmed, Order,
         UNCHANGED <<n, nacks, data, acks, have, ppc, pop, apc, cut>>
  PROVE  Travelling' /\ Confirmed' /\ Order'
<1>1. Travelling'
  BY DEF Travelling
<1>2. Confirmed'
  BY DEF Confirmed
<1>3. Order'
  BY DEF Order, Listed
<1>4. QED
  BY <1>1, <1>2, <1>3

(* The lists are the same, so the same packets wait. *)
LEMMA SameLists ==
  ASSUME Typed, n' = n, nacks' = nacks
  PROVE  Lists' /\ Waiting' = Waiting
BY DEF Typed, Lists, Nack, Waiting

(* sendblock: the packets are new, and those not queued are given up. *)
LEMMA StepSendBlock ==
  ASSUME IInv, NEW p \in Peers, SendBlock(p)
  PROVE  IInv'
<1> DEFINE B == BlockOf(p)
<1>1. Typed /\ Travelling /\ Confirmed /\ Order /\ Apart /\ Tracked
  BY DEF IInv
<1>2. /\ p \notin handed /\ handed' = handed \cup {p}
      /\ UNCHANGED <<retrQ, d, n, nacks, known, data, acks, have, ppc, pop, apc, cut, done, faults>>
  BY DEF SendBlock, netVars, procVars, appVars
<1>3. PICK r \in Accepted(p) :
        sendQ' = sendQ \o r /\ forgotten' = forgotten \cup (BlockOf(p) \ Range(r))
  BY DEF SendBlock
<1>4. /\ r \in Seq(Packet) /\ Injective(r) /\ Elems(r) \subseteq B
      /\ forgotten' = forgotten \cup (B \ Elems(r))
  BY <1>3, AcceptedElems
<1>5. B \subseteq Packet /\ \A x \in Packet : x.p = p <=> x \in B
  BY DEF BlockOf
<1> HIDE DEF B
<1>6. B \cap (Everywhere \cup done \cup forgotten) = {}
  BY <1>1, <1>2, <1>5 DEF Tracked
<1>7. Lists' /\ Waiting' = Waiting
  BY <1>1, <1>2, SameLists
<1>8. sendQ' \in Seq(Packet) /\ Injective(sendQ') /\ Elems(sendQ') = Elems(sendQ) \cup Elems(r)
  <2>1. sendQ \in Seq(Packet) /\ Injective(sendQ)
    BY <1>1 DEF Typed, Apart
  <2>2. Elems(sendQ) \cap Elems(r) = {}
    BY <1>4, <1>6 DEF Everywhere
  <2>3. QED
    BY <1>3, <1>4, <2>1, <2>2, ConcatElems
<1>9. Typed'
  BY <1>1, <1>2, <1>4, <1>5, <1>7, <1>8 DEF Typed
<1>10. Everywhere' = Everywhere \cup Elems(r)
  BY <1>2, <1>7, <1>8 DEF Everywhere
<1>11. Apart'
  <2>1. \A q \in Peers : \A j, k \in nacks'[q] : j.f = k.f => j = k
    BY <1>1, <1>2 DEF Apart
  <2>2. (Injective(sendQ) /\ Injective(retrQ))'
    BY <1>1, <1>2, <1>8 DEF Apart
  <2>3. Everywhere' \cap (done' \cup forgotten') = {}
    <3>1. Everywhere \cap (done \cup forgotten) = {}
      BY <1>1 DEF Apart
    <3>2. QED
      BY <1>2, <1>4, <1>6, <1>10, <3>1
  <2>4. /\ Elems(sendQ') \cap Elems(retrQ') = {} /\ Elems(sendQ') \cap Elems(d') = {}
        /\ Elems(sendQ') \cap Waiting' = {} /\ Elems(retrQ') \cap Elems(d') = {}
        /\ Elems(retrQ') \cap Waiting' = {} /\ Elems(d') \cap Waiting' = {}
    BY <1>1, <1>2, <1>4, <1>6, <1>7, <1>8 DEF Apart, Everywhere
  <2>5. QED
    BY <2>1, <2>2, <2>3, <2>4 DEF Apart
<1>12. Tracked'
  <2>1. \A x \in Everywhere' \cup done' \cup forgotten' : x.p \in handed'
    BY <1>1, <1>2, <1>4, <1>5, <1>10 DEF Tracked
  <2>2. \A x \in Packet : x.p \in handed' =>
          x.f \in have'[x.p] \/ x \in forgotten' \/ x \in Everywhere'
    BY <1>1, <1>2, <1>4, <1>5, <1>10 DEF Tracked
  <2>3. QED
    BY <2>1, <2>2 DEF Tracked
<1>13. Travelling' /\ Confirmed' /\ Order'
  BY <1>1, <1>2, QueueStep
<1>14. QED
  BY <1>9, <1>11, <1>12, <1>13 DEF IInv

(* packet_send takes a packet out of a queue. *)
LEMMA StepSenderTake ==
  ASSUME IInv, SenderTake
  PROVE  IInv'
<1>1. Typed /\ Travelling /\ Confirmed /\ Order /\ Apart /\ Tracked
  BY DEF IInv
<1>2. /\ d = <<>>
      /\ UNCHANGED <<n, nacks, known, data, acks, have, ppc, pop, apc, cut, handed, done,
                     forgotten, faults>>
  BY DEF SenderTake, netVars, procVars, appVars
<1>3. \/ retrQ # <<>> /\ d' = <<Head(retrQ)>> /\ retrQ' = Tail(retrQ) /\ sendQ' = sendQ
      \/ sendQ # <<>> /\ d' = <<Head(sendQ)>> /\ sendQ' = Tail(sendQ) /\ retrQ' = retrQ
  BY DEF SenderTake
<1>4. Lists' /\ Waiting' = Waiting
  BY <1>1, <1>2, SameLists
<1>5. /\ sendQ \in Seq(Packet) /\ retrQ \in Seq(Packet) /\ Len(retrQ) <= NRetr
      /\ Injective(sendQ) /\ Injective(retrQ) /\ Elems(d) = {}
  BY <1>1, <1>2, TakenElems DEF Typed, Apart
<1>6. PICK x \in Packet :
        /\ Elems(d') = {x} /\ d' \in Seq(Packet) /\ Len(d') <= 1
        /\ sendQ' \in Seq(Packet) /\ retrQ' \in Seq(Packet) /\ Len(retrQ') <= NRetr
        /\ Injective(sendQ') /\ Injective(retrQ')
        /\ \/ /\ x \in Elems(retrQ) /\ Elems(retrQ') = Elems(retrQ) \ {x}
              /\ Elems(sendQ') = Elems(sendQ)
           \/ /\ x \in Elems(sendQ) /\ Elems(sendQ') = Elems(sendQ) \ {x}
              /\ Elems(retrQ') = Elems(retrQ)
  <2>1. \A x \in Packet : <<x>> \in Seq(Packet) /\ Len(<<x>>) <= 1
    OBVIOUS
  <2>2. CASE retrQ # <<>> /\ d' = <<Head(retrQ)>> /\ retrQ' = Tail(retrQ) /\ sendQ' = sendQ
    <3>1. /\ Head(retrQ) \in Packet /\ Head(retrQ) \in Elems(retrQ) /\ retrQ' \in Seq(Packet)
          /\ Len(retrQ') = Len(retrQ) - 1 /\ Injective(retrQ')
          /\ Elems(retrQ') = Elems(retrQ) \ {Head(retrQ)}
      BY <1>5, <2>2, TailElems
    <3>2. Len(retrQ') <= NRetr
      <4>1. PICK l \in Nat : l = Len(retrQ)
        BY <1>5
      <4>2. QED
        BY <1>5, <3>1, <4>1, RetransmissionConstants
    <3>3. PICK x \in Packet : x = Head(retrQ)
      BY <3>1
    <3>4. d' = <<x>> /\ Elems(d') = {x} /\ d' \in Seq(Packet) /\ Len(d') <= 1
      BY <2>1, <2>2, <3>3, TakenElems
    <3>5. QED
      BY <1>5, <2>2, <3>1, <3>2, <3>3, <3>4
  <2>3. CASE sendQ # <<>> /\ d' = <<Head(sendQ)>> /\ sendQ' = Tail(sendQ) /\ retrQ' = retrQ
    <3>1. /\ Head(sendQ) \in Packet /\ Head(sendQ) \in Elems(sendQ) /\ sendQ' \in Seq(Packet)
          /\ Injective(sendQ') /\ Elems(sendQ') = Elems(sendQ) \ {Head(sendQ)}
      BY <1>5, <2>3, TailElems
    <3>2. PICK x \in Packet : x = Head(sendQ)
      BY <3>1
    <3>3. d' = <<x>> /\ Elems(d') = {x} /\ d' \in Seq(Packet) /\ Len(d') <= 1
      BY <2>1, <2>3, <3>2, TakenElems
    <3>4. QED
      BY <1>5, <2>3, <3>1, <3>2, <3>3
  <2>4. QED
    BY <1>3, <2>2, <2>3
<1>7. Typed'
  BY <1>1, <1>2, <1>4, <1>6 DEF Typed
<1>8. Everywhere' = Everywhere
  BY <1>4, <1>5, <1>6 DEF Everywhere
<1>9. Apart'
  <2>1. \A q \in Peers : \A j, k \in nacks'[q] : j.f = k.f => j = k
    BY <1>1, <1>2 DEF Apart
  <2>2. (Injective(sendQ) /\ Injective(retrQ))'
    BY <1>6
  <2>3. Everywhere' \cap (done' \cup forgotten') = {}
    BY <1>1, <1>2, <1>8 DEF Apart
  <2>4. /\ Elems(sendQ') \cap Elems(retrQ') = {} /\ Elems(sendQ') \cap Elems(d') = {}
        /\ Elems(sendQ') \cap Waiting' = {} /\ Elems(retrQ') \cap Elems(d') = {}
        /\ Elems(retrQ') \cap Waiting' = {} /\ Elems(d') \cap Waiting' = {}
    BY <1>1, <1>4, <1>6 DEF Apart
  <2>5. QED
    BY <2>1, <2>2, <2>3, <2>4 DEF Apart
<1>10. Tracked'
  <2>1. \A y \in Everywhere' \cup done' \cup forgotten' : y.p \in handed'
    BY <1>1, <1>2, <1>8 DEF Tracked
  <2>2. \A y \in Packet : y.p \in handed' =>
          y.f \in have'[y.p] \/ y \in forgotten' \/ y \in Everywhere'
    BY <1>1, <1>2, <1>8 DEF Tracked
  <2>3. QED
    BY <2>1, <2>2 DEF Tracked
<1>11. Travelling' /\ Confirmed' /\ Order'
  BY <1>1, <1>2, QueueStep
<1>12. QED
  BY <1>7, <1>9, <1>10, <1>11 DEF IInv

(* append_ack and sendto: the packet gets the next number. *)
LEMMA StepSenderAppend ==
  ASSUME IInv, SenderAppend
  PROVE  IInv'
<1>1. Typed /\ Travelling /\ Confirmed /\ Order /\ Apart /\ Tracked
  BY DEF IInv
<1>2. /\ d # <<>> /\ ppc # "resend" /\ apc = "idle" /\ n' = n + 1 /\ d' = <<>>
      /\ \A m \in data \cup acks : n + 1 - m.n < SeqRange
      /\ UNCHANGED <<sendQ, retrQ, known, acks, have, ppc, pop, apc, cut, handed, done,
                     forgotten, faults>>
  BY DEF SenderAppend, NackLockFree, NetworkIsFast, procVars, appVars
<1>3. PICK x \in Packet : x = d[1] /\ Elems(d) = {x}
  BY <1>1, <1>2, TakenElems
<1>5. /\ x.p \in Peers /\ x.f \in Frag /\ x.f < FN[x.p] /\ n \in Nat
      /\ SeqRange \in Nat \ {0}
  BY <1>1, RetransmissionConstants DEF Packet, Typed
<1>i. PICK i \in Nat : i = n + 1
  BY <1>5
<1> DEFINE k == [n |-> i, f |-> x.f]
           m == [p |-> x.p, f |-> x.f, n |-> i]
<1>4. nacks' = [nacks EXCEPT ![x.p] = @ \cup {k}] /\ data' = data \cup {m}
  BY <1>3, <1>i DEF SenderAppend
<1>6. /\ nacks'[x.p] = nacks[x.p] \cup {k}
      /\ \A q \in Peers : q # x.p => nacks'[q] = nacks[q]
      /\ Waiting' = Waiting \cup {x}
  BY <1>1, <1>4, <1>5, ListGrows
<1>7. k.n = i /\ k.f = x.f /\ k \in Nack' /\ m.p = x.p /\ m.f = x.f /\ m.n = i
  BY <1>2, <1>5, <1>i DEF Nack
<1>m. m \in [p : Peers, f : Frag, n : 1..n']
  BY <1>2, <1>5, <1>i
<1> HIDE DEF k, m
<1>8. \A q \in Peers : \A j \in nacks'[q] :
        \/ j \in nacks[q] /\ j \in Nack /\ j.n \in 1..n
        \/ q = x.p /\ j = k
  <2>1. \A q \in Peers : \A j \in nacks[q] : j \in Nack /\ j.n \in 1..n
    BY <1>1 DEF Typed, Lists, Nack
  <2>2. QED
    BY <1>5, <1>6, <2>1
<1>9. 1..n \subseteq 1..n' /\ i \notin 1..n /\ i = n'
  BY <1>2, <1>5, <1>i
<1>10. Lists'
  <2>1. Nack \subseteq Nack'
    BY <1>9 DEF Nack
  <2>2. nacks' \in [Peers -> SUBSET Nack']
    <3>1. nacks \in [Peers -> SUBSET Nack]
      BY <1>1 DEF Typed, Lists
    <3>2. nacks' = [q \in Peers |-> nacks'[q]]
      BY <1>4, <3>1
    <3>3. \A q \in Peers : nacks'[q] \subseteq Nack'
      BY <1>7, <1>8, <2>1
    <3>4. QED
      BY <3>2, <3>3
  <2>3. \A q \in Peers : \A j \in nacks'[q] : j.f < FN[q]
    BY <1>1, <1>5, <1>7, <1>8 DEF Typed, Lists
  <2>4. \A q \in Peers : \A j, l \in nacks'[q] : j.n = l.n => j = l
    <3>1. \A q \in Peers : \A j, l \in nacks[q] : j.n = l.n => j = l
      BY <1>1 DEF Typed, Lists
    <3>2. k.n \notin 1..n
      BY <1>7, <1>9
    <3>3. QED
      BY <1>8, <3>1, <3>2
  <2>5. QED
    BY <2>2, <2>3, <2>4 DEF Lists
<1>11. Typed'
  <2>1. n' \in Nat /\ Elems(d') = {} /\ d' \in Seq(Packet) /\ Len(d') <= 1
    BY <1>2, <1>5, TakenElems
  <2>2. data' \subseteq [p : Peers, f : Frag, n : 1..n'] /\ \A u \in data' : u.f < FN[u.p]
    BY <1>1, <1>4, <1>5, <1>7, <1>m, <1>9 DEF Typed
  <2>3. acks' \subseteq [p : Peers, n : 1..n', cons : Frag]
    BY <1>1, <1>2, <1>9 DEF Typed
  <2>4. ppc # "idle" => pop \in [p : Peers, f : Frag, n : 1..n', cons : Frag] /\ pop.f < FN[pop.p]
    BY <1>1, <1>9 DEF Typed
  <2>5. QED
    BY <1>1, <1>2, <1>10, <2>1, <2>2, <2>3, <2>4 DEF Typed
<1>12. /\ \A u \in data : u.p \in Peers /\ u.n \in 1..n
       /\ \A a \in acks : a.p \in Peers /\ a.n \in 1..n
       /\ ppc # "idle" => pop.p \in Peers /\ pop.n \in 1..n
  BY <1>1 DEF Typed
<1>13. Travelling'
  <2>1. \A u \in (data \cup acks)' : n' - u.n < SeqRange
    <3>1. i - i < SeqRange
      BY <1>5
    <3>2. i - m.n < SeqRange
      BY <1>7, <3>1
    <3>3. \A u \in data \cup acks : n + 1 - u.n < SeqRange
      BY <1>2
    <3>4. ASSUME NEW u \in data \cup acks PROVE i - u.n < SeqRange
      <4>1. n + 1 - u.n < SeqRange /\ u.n \in 1..n
        BY <1>12, <3>3
      <4>2. QED
        BY <1>5, <1>i, <4>1
    <3>5. (data \cup acks)' = data \cup acks \cup {m}
      BY <1>2, <1>4
    <3>6. \A u \in (data \cup acks)' : i - u.n < SeqRange
      BY <3>2, <3>4, <3>5
    <3>7. QED
      BY <1>9, <3>6
  <2>2. \A u \in data' : \A j \in nacks'[u.p] : j.n = u.n => j.f = u.f
    <3> TAKE u \in data'
    <3> TAKE j \in nacks'[u.p]
    <3> HAVE j.n = u.n
    <3>1. CASE u = m
      BY <1>5, <1>7, <1>8, <1>9, <3>1
    <3>2. CASE u \in data
      BY <1>1, <1>7, <1>8, <1>9, <1>12, <3>2 DEF Travelling
    <3>3. QED
      BY <1>4, <3>1, <3>2
  <2>3. \A a \in acks' : \A j \in nacks'[a.p] : j.n = a.n => (j.f - a.cons)..j.f \subseteq have'[a.p]
    <3> TAKE a \in acks'
    <3> TAKE j \in nacks'[a.p]
    <3> HAVE j.n = a.n
    <3>1. a \in acks /\ j \in nacks[a.p]
      BY <1>2, <1>7, <1>8, <1>9, <1>12
    <3>2. QED
      BY <1>1, <1>2, <3>1 DEF Travelling
  <2>4. QED
    BY <2>1, <2>2, <2>3 DEF Travelling
<1>14. Confirmed'
  <2>1. ppc # "idle" => \A j \in nacks'[pop.p] : j.n # pop.n
    BY <1>1, <1>7, <1>8, <1>9, <1>12 DEF Confirmed
  <2>2. QED
    BY <1>1, <1>2, <2>1 DEF Confirmed
<1>15. Order'
  <2>1. Listed(m.p, m.n)'
    <3>1. k \in nacks'[m.p] /\ k.n = m.n
      BY <1>6, <1>7
    <3>2. QED
      BY <3>1 DEF Listed
  <2>2. ASSUME NEW u \in data \cup acks PROVE Listed(u.p, u.n)'
    <3>1. Listed(u.p, u.n) /\ u.p \in Peers /\ u.n \in 1..n
      BY <1>1, <1>12 DEF Order
    <3>2. nacks[u.p] \subseteq nacks'[u.p] /\ i > u.n
      BY <1>5, <1>6, <1>i, <3>1
    <3>3. CASE \E j \in nacks[u.p] : j.n = u.n
      BY <3>2, <3>3 DEF Listed
    <3>4. CASE \A j \in nacks[u.p] : j.n > u.n
      <4>1. \A j \in nacks'[u.p] : j.n > u.n
        BY <1>7, <1>8, <3>1, <3>2, <3>4
      <4>2. QED
        BY <4>1 DEF Listed
    <3>5. CASE ppc # "idle" /\ pop.p = u.p /\ u.n <= pop.n
      BY <1>2, <3>5 DEF Listed
    <3>6. QED
      BY <1>2, <3>1, <3>3, <3>4, <3>5 DEF Listed
  <2>3. QED
    BY <1>2, <1>4, <2>1, <2>2 DEF Order
<1>16. Elems(d') = {}
  BY <1>2, TakenElems
<1>17. Everywhere' = Everywhere
  BY <1>2, <1>3, <1>6, <1>16 DEF Everywhere
<1>18. Apart'
  <2>1. \A q \in Peers : \A j, l \in nacks'[q] : j.f = l.f => j = l
    <3>1. \A j \in nacks[x.p] : j.f # x.f
      <4>1. x \notin Waiting
        BY <1>1, <1>3 DEF Apart
      <4>2. QED
        BY <4>1 DEF Waiting
    <3>2. QED
      BY <1>1, <1>7, <1>8, <3>1 DEF Apart
  <2>2. (Injective(sendQ) /\ Injective(retrQ))'
    BY <1>1, <1>2 DEF Apart
  <2>3. Everywhere' \cap (done' \cup forgotten') = {}
    BY <1>1, <1>2, <1>17 DEF Apart
  <2>4. /\ Elems(sendQ') \cap Elems(retrQ') = {} /\ Elems(sendQ') \cap Elems(d') = {}
        /\ Elems(sendQ') \cap Waiting' = {} /\ Elems(retrQ') \cap Elems(d') = {}
        /\ Elems(retrQ') \cap Waiting' = {} /\ Elems(d') \cap Waiting' = {}
    BY <1>1, <1>2, <1>3, <1>6, <1>16 DEF Apart
  <2>5. QED
    BY <2>1, <2>2, <2>3, <2>4 DEF Apart
<1>19. Tracked'
  <2>1. \A y \in Everywhere' \cup done' \cup forgotten' : y.p \in handed'
    BY <1>1, <1>2, <1>17 DEF Tracked
  <2>2. \A y \in Packet : y.p \in handed' =>
          y.f \in have'[y.p] \/ y \in forgotten' \/ y \in Everywhere'
    BY <1>1, <1>2, <1>17 DEF Tracked
  <2>3. QED
    BY <2>1, <2>2 DEF Tracked
<1>20. QED
  BY <1>11, <1>13, <1>14, <1>15, <1>18, <1>19 DEF IInv
(* Neither the queues nor the lists change. *)
LEMMA SamePlaces ==
  ASSUME Typed, Apart, Tracked,
         UNCHANGED <<sendQ, retrQ, d, n, nacks, done, forgotten, handed>>,
         have' \in [Peers -> SUBSET Frag], \A p \in Peers : have[p] \subseteq have'[p]
  PROVE  Apart' /\ Tracked'
<1>1. Waiting' = Waiting
  BY SameLists
<1>2. Everywhere' = Everywhere
  BY <1>1 DEF Everywhere
<1>3. Apart'
  BY <1>1, <1>2 DEF Apart
<1>4. Tracked'
  <2>1. \A x \in Everywhere' \cup done' \cup forgotten' : x.p \in handed'
    BY <1>2 DEF Tracked
  <2>2. \A x \in Packet : x.p \in handed' =>
          x.f \in have'[x.p] \/ x \in forgotten' \/ x \in Everywhere'
    BY <1>2 DEF Tracked, Packet
  <2>3. QED
    BY <2>1, <2>2 DEF Tracked
<1>5. QED
  BY <1>3, <1>4

(* The network loses a datagram. *)
LEMMA StepLose ==
  ASSUME IInv, Lose
  PROVE  IInv'
<1>1. Typed /\ Travelling /\ Confirmed /\ Order /\ Apart /\ Tracked
  BY DEF IInv
<1>2. /\ faults < MaxFaults /\ faults' = faults + 1 /\ data' \subseteq data /\ acks' \subseteq acks
      /\ UNCHANGED <<sendQ, retrQ, d, n, nacks, known, have, ppc, pop, apc, cut, handed, done,
                     forgotten>>
  BY DEF Lose, queueVars, procVars, appVars
<1>3. faults' \in 0..MaxFaults
  BY <1>1, <1>2, RetransmissionConstants DEF Typed
<1>4. Lists'
  BY <1>1, <1>2, SameLists
<1>5. Typed'
  BY <1>1, <1>2, <1>3, <1>4 DEF Typed
<1>6. Travelling'
  BY <1>1, <1>2, ShrunkTravelling
<1>7. Confirmed'
  BY <1>1, <1>2 DEF Confirmed
<1>8. Order'
  BY <1>1, <1>2 DEF Order, Listed
<1>9. Apart' /\ Tracked'
  <2>1. have' \in [Peers -> SUBSET Frag] /\ \A p \in Peers : have[p] \subseteq have'[p]
    BY <1>1, <1>2 DEF Typed
  <2>2. QED
    BY <1>1, <1>2, <2>1, SamePlaces
<1>10. QED
  BY <1>5, <1>6, <1>7, <1>8, <1>9 DEF IInv

(* The peer acknowledges a fragment and stores it. *)
LEMMA StepPeerReceives ==
  ASSUME IInv, PeerReceives
  PROVE  IInv'
<1>1. Typed /\ Travelling /\ Confirmed /\ Order /\ Apart /\ Tracked
  BY DEF IInv
<1>2. UNCHANGED <<sendQ, retrQ, d, n, nacks, known, ppc, pop, apc, cut, handed, done, forgotten>>
  BY DEF PeerReceives, queueVars, procVars, appVars
<1>3. PICK m \in data :
        /\ Delivered(data, m)
        /\ acks' = acks \cup {[p |-> m.p, n |-> m.n, cons |-> Consecutives(m.p, m.f)]}
        /\ have' = [have EXCEPT ![m.p] = @ \cup {m.f}]
  BY DEF PeerReceives
<1>4. /\ m.p \in Peers /\ m.f \in Frag /\ m.n \in 1..n /\ m.f < FN[m.p] /\ n \in Nat
      /\ have \in [Peers -> SUBSET Frag]
  BY <1>1 DEF Typed
<1>5. m.f \in Nat
  BY <1>4, RetransmissionConstants DEF Frag
<1>6. PICK c \in 0..m.f : c = Consecutives(m.p, m.f) /\ (m.f - c)..(m.f - 1) \subseteq have[m.p]
  BY <1>5, ConsecutivesHad
<1>7. data' \subseteq data /\ faults' \in 0..MaxFaults
  BY <1>1, <1>3, RetransmissionConstants DEF Delivered, Typed
<1>8. c \in Frag
  <2>1. PICK p \in Peers : m.f \in 0..(FN[p] - 1)
    BY <1>4 DEF Frag
  <2>2. FN[p] \in Nat
    BY RetransmissionConstants
  <2>3. c \in 0..(FN[p] - 1)
    BY <1>5, <2>1, <2>2
  <2>4. QED
    BY <2>3 DEF Frag
<1> DEFINE a == [p |-> m.p, n |-> m.n, cons |-> c]
<1>9. acks' = acks \cup {a} /\ a \in [p : Peers, n : 1..n, cons : Frag]
  BY <1>3, <1>4, <1>6, <1>8
<1>10. a.p = m.p /\ a.n = m.n /\ a.cons = c
  OBVIOUS
<1> HIDE DEF a
<1>11. /\ have' \in [Peers -> SUBSET Frag] /\ \A p \in Peers : have[p] \subseteq have'[p]
       /\ m.f \in have'[m.p]
  BY <1>3, <1>4
<1>12. Lists'
  BY <1>1, <1>2, SameLists
<1>13. Typed'
  <2>1. acks' \subseteq [p : Peers, n : 1..n', cons : Frag]
    BY <1>1, <1>2, <1>9 DEF Typed
  <2>2. QED
    BY <1>1, <1>2, <1>7, <1>11, <1>12, <2>1 DEF Typed
<1>14. (m.f - c)..m.f \subseteq have'[m.p]
  <2>1. \A i \in (m.f - c)..m.f : i \in (m.f - c)..(m.f - 1) \/ i = m.f
    BY <1>5
  <2>2. QED
    BY <1>4, <1>6, <1>11, <2>1
<1>15. Travelling'
  <2>1. \A u \in (data \cup acks)' : n' - u.n < SeqRange
    BY <1>1, <1>2, <1>7, <1>9, <1>10 DEF Travelling
  <2>2. \A u \in data' : \A k \in nacks'[u.p] : k.n = u.n => k.f = u.f
    BY <1>1, <1>2, <1>7 DEF Travelling
  <2>3. ASSUME NEW u \in acks', NEW k \in nacks'[u.p], k.n = u.n
        PROVE  (k.f - u.cons)..k.f \subseteq have'[u.p]
    <3>1. CASE u = a
      <4>1. k.f = m.f
        BY <1>1, <1>2, <1>10, <2>3, <3>1 DEF Travelling
      <4>2. QED
        BY <1>10, <1>14, <3>1, <4>1
    <3>2. CASE u \in acks
      <4>1. u.p \in Peers
        BY <1>1, <3>2 DEF Typed
      <4>2. (k.f - u.cons)..k.f \subseteq have[u.p]
        BY <1>1, <1>2, <2>3, <3>2 DEF Travelling
      <4>3. QED
        BY <1>11, <4>1, <4>2
    <3>3. QED
      BY <1>9, <3>1, <3>2
  <2>4. QED
    BY <2>1, <2>2, <2>3 DEF Travelling
<1>16. Confirmed'
  <2>1. ppc # "idle" => pop.p \in Peers
    BY <1>1 DEF Typed
  <2>2. QED
    BY <1>1, <1>2, <1>11, <2>1 DEF Confirmed
<1>17. Order'
  <2>1. ASSUME NEW u \in (data \cup acks)' PROVE Listed(u.p, u.n)
    BY <1>1, <1>7, <1>9, <1>10 DEF Order
  <2>2. QED
    BY <1>2, <2>1 DEF Order, Listed
<1>18. Apart' /\ Tracked'
  BY <1>1, <1>2, <1>11, SamePlaces
<1>19. QED
  BY <1>13, <1>15, <1>16, <1>17, <1>18 DEF IInv
(* pop_ack: the packet the ack is for leaves the list. *)
LEMMA StepAckPop ==
  ASSUME IInv, AckPop
  PROVE  IInv'
<1>1. Typed /\ Travelling /\ Confirmed /\ Order /\ Apart /\ Tracked
  BY DEF IInv
<1>2. /\ ppc = "idle" /\ apc = "idle"
      /\ UNCHANGED <<sendQ, retrQ, d, n, known, data, have, apc, cut, handed, forgotten>>
  BY DEF AckPop, NackLockFree, queueVars, appVars
<1>3. PICK a \in acks :
        /\ Delivered(acks, a)
        /\ IF Matching(a) = {}
           THEN UNCHANGED <<nacks, procVars, done>>
           ELSE Popped(a, Newest(Matching(a)))
  BY DEF AckPop
<1>4. acks' \subseteq acks /\ faults' \in 0..MaxFaults
  BY <1>1, <1>3, RetransmissionConstants DEF Delivered, Typed
<1>5. /\ a.p \in Peers /\ a.n \in 1..n /\ a.cons \in Frag /\ n \in Nat
      /\ \A m \in (data \cup acks)' : m \in data \cup acks /\ m.p \in Peers /\ m.n \in 1..n
  BY <1>1, <1>2, <1>4 DEF Typed
<1>6. CASE Matching(a) = {}
  <2>1. UNCHANGED <<nacks, ppc, pop, done>>
    BY <1>3, <1>6 DEF procVars
  <2>2. Lists'
    BY <1>1, <1>2, <2>1, SameLists
  <2>3. Typed'
    BY <1>1, <1>2, <1>4, <2>1, <2>2 DEF Typed
  <2>4. Travelling'
    BY <1>1, <1>2, <1>4, <2>1, ShrunkTravelling
  <2>5. Confirmed'
    BY <1>2, <2>1 DEF Confirmed
  <2>6. Order'
    BY <1>1, <1>2, <1>4, <2>1 DEF Order, Listed
  <2>7. Apart' /\ Tracked'
    <3>1. have' \in [Peers -> SUBSET Frag] /\ \A p \in Peers : have[p] \subseteq have'[p]
      BY <1>1, <1>2 DEF Typed
    <3>2. QED
      BY <1>1, <1>2, <2>1, <3>1, SamePlaces
  <2>8. QED
    BY <2>3, <2>4, <2>5, <2>6, <2>7 DEF IInv
<1>7. CASE Matching(a) # {}
  <2>1. PICK k \in nacks[a.p] : k = Newest(Matching(a)) /\ k.n = a.n
    BY <1>1, <1>2, <1>7, FoundPacket
  <2>2. Popped(a, k)
    BY <1>3, <1>7, <2>1
  <2>3. /\ nacks' = [nacks EXCEPT ![a.p] = @ \ {k}]
        /\ pop' = [p |-> a.p, f |-> k.f, n |-> k.n, cons |-> a.cons]
        /\ ppc' = "popped" /\ done' = done \cup {[p |-> a.p, f |-> k.f]}
    BY <2>2 DEF Popped
  <2>4. {k} \in SUBSET nacks[a.p]
    OBVIOUS
  <2>5. /\ nacks' \in [Peers -> SUBSET Nack]
        /\ \A q \in Peers : nacks'[q] \subseteq nacks[q]
        /\ nacks'[a.p] = nacks[a.p] \ {k}
        /\ \A q \in Peers : q # a.p => nacks'[q] = nacks[q]
    BY <1>1, <1>5, <2>3, <2>4, ListShrinks
  <2>6. Lists'
    BY <1>1, <1>2, <2>5, ShrunkLists
  <2>7. /\ k.n \in 1..n /\ k.f \in Frag /\ k.f \in Nat /\ k.f < FN[a.p]
        /\ [p |-> a.p, f |-> k.f] \in Packet
    BY <1>1, <1>5, ListedPackets
  <2>8. pop'.p = a.p /\ pop'.f = k.f /\ pop'.n = k.n /\ pop'.cons = a.cons
    BY <2>3
  <2>9. Typed'
    <3>1. pop' \in [p : Peers, f : Frag, n : 1..n', cons : Frag] /\ pop'.f < FN[pop'.p]
      BY <1>2, <1>5, <2>3, <2>7
    <3>2. ppc' \in {"idle", "popped", "resend"} /\ ppc' # "idle" /\ done' \subseteq Packet
      BY <1>1, <2>3, <2>7 DEF Typed
    <3>3. QED
      BY <1>1, <1>2, <1>4, <2>6, <3>1, <3>2 DEF Typed
  <2>10. Travelling'
    BY <1>1, <1>2, <1>4, <2>5, ShrunkTravelling
  <2>11. (k.f - a.cons)..k.f \subseteq have[a.p]
    BY <1>1, <2>1 DEF Travelling
  <2>12. Confirmed'
    <3>1. \A j \in nacks'[a.p] : j.n # k.n
      BY <1>1, <1>5, <2>5 DEF Typed, Lists
    <3>2. QED
      BY <1>2, <2>8, <2>11, <3>1 DEF Confirmed
  <2>13. Order'
    <3>1. ASSUME NEW m \in (data \cup acks)' PROVE Listed(m.p, m.n)'
      <4>1. Listed(m.p, m.n) /\ m.p \in Peers /\ m.n \in 1..n
        BY <1>1, <1>5 DEF Order
      <4>2. CASE \E j \in nacks[m.p] : j.n = m.n
        <5>1. PICK j \in nacks[m.p] : j.n = m.n
          BY <4>2
        <5>2. CASE j \in nacks'[m.p]
          BY <5>1, <5>2 DEF Listed
        <5>3. CASE j \notin nacks'[m.p]
          <6>1. m.p = a.p /\ j = k
            BY <2>5, <4>1, <5>1, <5>3
          <6>2. ppc' # "idle" /\ pop'.p = m.p /\ m.n <= pop'.n
            BY <2>3, <2>8, <4>1, <5>1, <6>1
          <6>3. QED
            BY <6>2 DEF Listed
        <5>4. QED
          BY <5>2, <5>3
      <4>3. CASE \A j \in nacks[m.p] : j.n > m.n
        <5>1. \A j \in nacks'[m.p] : j.n > m.n
          BY <2>5, <4>1, <4>3
        <5>2. QED
          BY <5>1 DEF Listed
      <4>4. QED
        BY <1>2, <4>1, <4>2, <4>3 DEF Listed
    <3>2. QED
      BY <3>1 DEF Order
  <2>14. Apart' /\ Tracked'
    <3>1. Packets(a.p, {k}) = {[p |-> a.p, f |-> k.f]}
      BY DEF Packets
    <3>2. done' \cup forgotten' = done \cup forgotten \cup Packets(a.p, {k})
      BY <1>2, <2>3, <3>1
    <3>3. a.cons \in Nat
      BY <1>5, RetransmissionConstants DEF Frag
    <3>4. k.f \in (k.f - a.cons)..k.f
      BY <2>7, <3>3
    <3>5. \A j \in {k} : j.f \in have[a.p]
      BY <2>11, <3>4
    <3>6. UNCHANGED <<sendQ, retrQ, d, have, handed>> /\ forgotten \subseteq forgotten'
      BY <1>2
    <3>7. QED
      BY <1>1, <1>5, <2>3, <2>4, <3>2, <3>5, <3>6, PacketsLeave
  <2>15. QED
    BY <2>9, <2>10, <2>12, <2>13, <2>14 DEF IInv
<1>8. QED
  BY <1>6, <1>7

(* Packets older than the popped one leave the list while the processor    *)
(* keeps the ack, or all of them when it is done with it.                  *)
LEMMA OlderLeave ==
  ASSUME Typed, Travelling, Confirmed, Order, Apart, ppc # "idle",
         NEW S \in SUBSET Overtaken, nacks' = [nacks EXCEPT ![pop.p] = @ \ S],
         UNCHANGED <<n, data, acks, have, apc, cut>>,
         \/ ppc' # "idle" /\ pop' = pop
         \/ ppc' = "idle" /\ S = Overtaken
  PROVE  Lists' /\ Travelling' /\ Confirmed' /\ Order'
<1>1. /\ pop.p \in Peers /\ pop.n \in 1..n /\ n \in Nat
      /\ \A m \in data \cup acks : m.p \in Peers /\ m.n \in 1..n
      /\ \A j \in nacks[pop.p] : j.n \in 1..n
  BY ListedPackets DEF Typed
<1>2. S \in SUBSET nacks[pop.p] /\ \A k \in S : k.n < pop.n
  BY DEF Overtaken, Older
<1>3. PICK p \in Peers : p = pop.p
  BY <1>1
<1>4. /\ nacks' \in [Peers -> SUBSET Nack]
      /\ \A q \in Peers : nacks'[q] \subseteq nacks[q]
      /\ nacks'[p] = nacks[p] \ S
      /\ \A q \in Peers : q # p => nacks'[q] = nacks[q]
  BY <1>2, <1>3, ListShrinks
<1>5. Lists' /\ Travelling'
  BY <1>4, ShrunkLists, ShrunkTravelling
<1>6. Confirmed'
  BY <1>1, <1>4 DEF Confirmed
<1>7. ASSUME NEW m \in data \cup acks PROVE Listed(m.p, m.n)'
  <2>1. Listed(m.p, m.n) /\ m.p \in Peers /\ m.n \in 1..n
    BY <1>1 DEF Order
  <2>2. ASSUME m.p = p, m.n <= pop.n PROVE Listed(m.p, m.n)'
    <3>1. CASE ppc' # "idle" /\ pop' = pop
      BY <1>3, <2>2, <3>1 DEF Listed
    <3>2. CASE ppc' = "idle" /\ S = Overtaken
      <4>1. \A j \in nacks'[p] : j \in nacks[p] /\ j \notin Overtaken
        BY <1>4, <3>2
      <4>2. \A j \in nacks'[p] : j.n \in 1..n /\ ~(j.n < pop.n) /\ j.n # pop.n
        BY <1>1, <1>3, <4>1 DEF Overtaken, Older, Confirmed
      <4>3. \A j \in nacks'[m.p] : j.n > m.n
        BY <1>1, <2>1, <2>2, <4>2
      <4>4. QED
        BY <4>3 DEF Listed
    <3>3. QED
      BY <3>1, <3>2
  <2>3. CASE \E j \in nacks[m.p] : j.n = m.n
    <3>1. PICK j \in nacks[m.p] : j.n = m.n
      BY <2>3
    <3>2. CASE j \in nacks'[m.p]
      BY <3>1, <3>2 DEF Listed
    <3>3. CASE j \notin nacks'[m.p]
      <4>1. m.p = p /\ j \in S
        BY <1>4, <2>1, <3>1, <3>3
      <4>2. m.n <= pop.n
        BY <1>1, <1>2, <2>1, <3>1, <4>1
      <4>3. QED
        BY <2>2, <4>1, <4>2
    <3>4. QED
      BY <3>2, <3>3
  <2>4. CASE \A j \in nacks[m.p] : j.n > m.n
    <3>1. \A j \in nacks'[m.p] : j.n > m.n
      BY <1>4, <2>1, <2>4
    <3>2. QED
      BY <3>1 DEF Listed
  <2>5. CASE ppc # "idle" /\ pop.p = m.p /\ m.n <= pop.n
    BY <1>3, <2>2, <2>5
  <2>6. CASE apc = "expire" /\ m.n <= cut[m.p]
    BY <2>6 DEF Listed
  <2>7. QED
    BY <2>1, <2>3, <2>4, <2>5, <2>6 DEF Listed
<1>8. Order'
  BY <1>7 DEF Order
<1>9. QED
  BY <1>5, <1>6, <1>8
(* The first ack of a peer: what it overtook is given up. *)
LEMMA StepAckFromNewPeer ==
  ASSUME IInv, AckFromNewPeer
  PROVE  IInv'
<1>1. Typed /\ Travelling /\ Confirmed /\ Order /\ Apart /\ Tracked
  BY DEF IInv
<1>2. /\ ppc = "popped" /\ known' = known \cup {pop.p}
      /\ nacks' = [nacks EXCEPT ![pop.p] = @ \ Overtaken]
      /\ forgotten' = forgotten \cup Packets(pop.p, Overtaken)
      /\ ppc' = "idle" /\ pop' = NoPop
      /\ UNCHANGED <<sendQ, retrQ, d, n, data, acks, have, apc, cut, handed, done, faults>>
  BY DEF AckFromNewPeer, queueVars, netVars, appVars
<1>3. pop.p \in Peers
  BY <1>1, <1>2 DEF Typed
<1>4. Overtaken \in SUBSET nacks[pop.p]
  BY DEF Overtaken
<1>5. Lists' /\ Travelling' /\ Confirmed' /\ Order'
  BY <1>1, <1>2, OlderLeave
<1>6. Packets(pop.p, Overtaken) \subseteq Packet
  BY <1>1, <1>3, <1>4, ListedPackets DEF Packets
<1>7. Typed'
  <2>1. known' \subseteq Peers /\ forgotten' \subseteq Packet
    BY <1>1, <1>2, <1>3, <1>6 DEF Typed
  <2>2. ppc' = "idle" /\ pop' = NoPop
    BY <1>2
  <2>3. QED
    BY <1>1, <1>2, <1>5, <2>1, <2>2 DEF Typed
<1>8. Apart' /\ Tracked'
  <2>1. done' \cup forgotten' = done \cup forgotten \cup Packets(pop.p, Overtaken)
    BY <1>2
  <2>2. forgotten \subseteq forgotten' /\ Packets(pop.p, Overtaken) \subseteq forgotten'
    BY <1>2
  <2>3. UNCHANGED <<sendQ, retrQ, d, have, handed>>
    BY <1>2
  <2>4. QED
    BY <1>1, <1>2, <1>3, <1>4, <2>1, <2>2, <2>3, PacketsLeave
<1>9. QED
  BY <1>5, <1>7, <1>8 DEF IInv

(* remove_lost_acks: what the consecutive count covers the peer has. *)
LEMMA StepAckFromKnownPeer ==
  ASSUME IInv, AckFromKnownPeer
  PROVE  IInv'
<1>1. Typed /\ Travelling /\ Confirmed /\ Order /\ Apart /\ Tracked
  BY DEF IInv
<1>2. /\ ppc = "popped"
      /\ nacks' = [nacks EXCEPT ![pop.p] = @ \ LostAcks]
      /\ done' = done \cup Packets(pop.p, LostAcks) /\ ppc' = "resend"
      /\ UNCHANGED <<sendQ, retrQ, d, n, known, data, acks, have, pop, apc, cut, handed,
                     forgotten, faults>>
  BY DEF AckFromKnownPeer, queueVars, netVars, appVars
<1>3. pop.p \in Peers /\ pop.f \in Frag /\ pop.cons \in Frag
  BY <1>1, <1>2 DEF Typed
<1>4. pop.f \in Nat /\ pop.cons \in Nat
  BY <1>3, RetransmissionConstants DEF Frag
<1>5. LostAcks \in SUBSET Overtaken /\ LostAcks \in SUBSET nacks[pop.p]
  BY DEF LostAcks, Implied, Overtaken
<1>6. Lists' /\ Travelling' /\ Confirmed' /\ Order'
  BY <1>1, <1>2, <1>5, OlderLeave
<1>7. Packets(pop.p, LostAcks) \subseteq Packet
  BY <1>1, <1>3, <1>5, ListedPackets DEF Packets
<1>8. Typed'
  <2>1. done' \subseteq Packet /\ ppc' # "idle" /\ ppc' \in {"idle", "popped", "resend"}
    BY <1>1, <1>2, <1>7 DEF Typed
  <2>2. ppc # "idle"
    BY <1>2
  <2>3. QED
    BY <1>1, <1>2, <1>6, <2>1, <2>2 DEF Typed
<1>9. \A k \in LostAcks : k.f \in have[pop.p]
  <2> TAKE k \in LostAcks
  <2>1. k.f < pop.f /\ pop.f - k.f <= pop.cons /\ k.f \in Nat
    BY <1>1, <1>3, <1>5, ListedPackets DEF LostAcks, Implied
  <2>2. k.f \in (pop.f - pop.cons)..pop.f
    BY <1>4, <2>1
  <2>3. QED
    BY <1>1, <1>2, <2>2 DEF Confirmed
<1>10. Apart' /\ Tracked'
  <2>1. done' \cup forgotten' = done \cup forgotten \cup Packets(pop.p, LostAcks)
    BY <1>2
  <2>2. UNCHANGED <<sendQ, retrQ, d, have, handed>> /\ forgotten \subseteq forgotten'
    BY <1>2
  <2>3. QED
    BY <1>1, <1>2, <1>3, <1>5, <1>9, <2>1, <2>2, PacketsLeave
<1>11. QED
  BY <1>6, <1>8, <1>10 DEF IInv

(* resend_ooo_nacks: one turn, or the end of the loop. *)
LEMMA StepResendOoo ==
  ASSUME IInv, ResendOoo
  PROVE  IInv'
<1>1. Typed /\ Travelling /\ Confirmed /\ Order /\ Apart /\ Tracked
  BY DEF IInv
<1>2. /\ ppc = "resend"
      /\ UNCHANGED <<sendQ, d, n, known, data, acks, have, apc, cut, handed, done, faults>>
  BY DEF ResendOoo, netVars, appVars
<1>3. pop.p \in Peers
  BY <1>1, <1>2 DEF Typed
<1>4. CASE Overtaken # {}
  <2>1. Resend(pop.p, Newest(Overtaken)) /\ ppc' = ppc /\ pop' = pop
    BY <1>4 DEF ResendOoo, procVars
  <2>2. PICK k \in Overtaken : k = Newest(Overtaken)
    <3>1. Overtaken \subseteq Nack /\ n \in Nat
      BY <1>1, <1>3 DEF Overtaken, Typed, Lists
    <3>2. QED
      BY <1>4, <3>1, NewestIs
  <2>3. Resend(pop.p, k)
    BY <2>1, <2>2
  <2>4. nacks' = [nacks EXCEPT ![pop.p] = @ \ {k}]
    BY <2>3 DEF Resend
  <2>5. Lists' /\ Travelling' /\ Confirmed' /\ Order'
    <3>1. {k} \in SUBSET Overtaken /\ ppc # "idle" /\ ppc' # "idle" /\ pop' = pop
      BY <1>2, <2>1
    <3>2. QED
      BY <1>1, <1>2, <2>4, <3>1, OlderLeave
  <2>6. /\ Apart' /\ Tracked'
        /\ retrQ' \in Seq(Packet) /\ Len(retrQ') <= NRetr /\ forgotten' \subseteq Packet
    <3>1. k \in nacks[pop.p]
      BY DEF Overtaken
    <3>2. UNCHANGED <<sendQ, d, have, handed, done>>
      BY <1>2
    <3>3. QED
      BY <1>1, <1>3, <2>3, <3>1, <3>2, ResendMoves
  <2>7. Typed'
    BY <1>1, <1>2, <2>1, <2>5, <2>6 DEF Typed
  <2>8. QED
    BY <2>5, <2>6, <2>7 DEF IInv
<1>5. CASE Overtaken = {}
  <2>1. ppc' = "idle" /\ pop' = NoPop /\ nacks' = nacks /\ retrQ' = retrQ /\ forgotten' = forgotten
    BY <1>5 DEF ResendOoo
  <2>2. nacks' = [nacks EXCEPT ![pop.p] = @ \ Overtaken]
    BY <1>1, <1>5, <2>1 DEF Typed, Lists
  <2>3. Lists' /\ Travelling' /\ Confirmed' /\ Order'
    <3>1. Overtaken \in SUBSET Overtaken /\ ppc # "idle"
      BY <1>2
    <3>2. QED
      BY <1>1, <1>2, <2>1, <2>2, <3>1, OlderLeave
  <2>4. Typed'
    BY <1>1, <1>2, <2>1, <2>3 DEF Typed
  <2>5. Apart' /\ Tracked'
    <3>1. have' \in [Peers -> SUBSET Frag] /\ \A p \in Peers : have[p] \subseteq have'[p]
      BY <1>1, <1>2 DEF Typed
    <3>2. QED
      BY <1>1, <1>2, <2>1, <3>1, SamePlaces
  <2>6. QED
    BY <2>3, <2>4, <2>5 DEF IInv
<1>6. QED
  BY <1>4, <1>5

(* bws_set finds packets that have timed out. *)
LEMMA StepTimeoutStart ==
  ASSUME IInv, TimeoutStart
  PROVE  IInv'
<1>1. Typed /\ Travelling /\ Confirmed /\ Order /\ Apart /\ Tracked
  BY DEF IInv
<1>2. /\ apc = "idle" /\ apc' = "expire"
      /\ UNCHANGED <<sendQ, retrQ, d, n, nacks, known, data, acks, have, ppc, pop, handed, done,
                     forgotten>>
  BY DEF TimeoutStart, queueVars, netVars, procVars
<1>3. PICK c \in [Peers -> UNION {Cuts(p) : p \in Peers}] :
        /\ \E early \in 0..(MaxFaults - faults) : faults' = faults + early
        /\ cut' = c
  BY DEF TimeoutStart
<1>4. cut' \in [Peers -> Nat]
  <2>1. \A p \in Peers : Cuts(p) \subseteq Nat
    <3> TAKE p \in Peers
    <3>1. \A k \in nacks[p] : k.n \in 1..n /\ n \in Nat
      BY <1>1 DEF Typed, Lists, Nack
    <3>2. QED
      BY <3>1 DEF Cuts
  <2>2. UNION {Cuts(p) : p \in Peers} \subseteq Nat
    BY <2>1
  <2>3. QED
    BY <1>3, <2>2
<1>5. faults' \in 0..MaxFaults
  BY <1>1, <1>3, RetransmissionConstants DEF Typed
<1>6. Lists'
  BY <1>1, <1>2, SameLists
<1>7. Typed'
  BY <1>1, <1>2, <1>4, <1>5, <1>6 DEF Typed
<1>8. Travelling'
  BY <1>1, <1>2, ShrunkTravelling
<1>9. Confirmed'
  BY <1>1, <1>2 DEF Confirmed
<1>10. Order'
  BY <1>1, <1>2 DEF Order, Listed
<1>11. Apart' /\ Tracked'
  <2>1. have' \in [Peers -> SUBSET Frag] /\ \A p \in Peers : have[p] \subseteq have'[p]
    BY <1>1, <1>2 DEF Typed
  <2>2. QED
    BY <1>1, <1>2, <2>1, SamePlaces
<1>12. QED
  BY <1>7, <1>8, <1>9, <1>10, <1>11 DEF IInv
(* resend_timeout_nacks: one turn, or the end of the loop. *)
LEMMA StepTimeoutStep ==
  ASSUME IInv, TimeoutStep
  PROVE  IInv'
<1>1. Typed /\ Travelling /\ Confirmed /\ Order /\ Apart /\ Tracked
  BY DEF IInv
<1>2. /\ apc = "expire"
      /\ UNCHANGED <<sendQ, d, n, known, data, acks, have, ppc, pop, handed, done, faults>>
  BY DEF TimeoutStep, netVars, procVars
<1>3. /\ n \in Nat /\ cut \in [Peers -> Nat] /\ (ppc # "idle" => pop.p \in Peers)
      /\ \A m \in data \cup acks : m.p \in Peers /\ m.n \in 1..n
      /\ \A p \in Peers : \A j \in nacks[p] : j.n \in 1..n
  BY <1>1 DEF Typed, Lists, Nack
<1>4. ASSUME NEW p \in Peers, UpTo(p, cut[p]) # {}, Resend(p, Newest(UpTo(p, cut[p]))),
             apc' = apc, cut' = cut
      PROVE  IInv'
  <2>1. PICK k \in UpTo(p, cut[p]) : k = Newest(UpTo(p, cut[p]))
    <3>1. UpTo(p, cut[p]) \subseteq Nack /\ n \in Nat
      BY <1>1 DEF UpTo, Typed, Lists
    <3>2. QED
      BY <1>4, <3>1, NewestIs
  <2>2. Resend(p, k)
    BY <1>4, <2>1
  <2>3. nacks' = [nacks EXCEPT ![p] = @ \ {k}]
    BY <2>2 DEF Resend
  <2>4. k \in nacks[p] /\ k.n <= cut[p]
    BY DEF UpTo
  <2>5. {k} \in SUBSET nacks[p]
    BY <2>4
  <2>6. /\ nacks' \in [Peers -> SUBSET Nack]
        /\ \A q \in Peers : nacks'[q] \subseteq nacks[q]
        /\ nacks'[p] = nacks[p] \ {k}
        /\ \A q \in Peers : q # p => nacks'[q] = nacks[q]
    BY <1>1, <2>3, <2>5, ListShrinks
  <2>7. Lists' /\ Travelling'
    BY <1>1, <1>2, <2>6, ShrunkLists, ShrunkTravelling
  <2>8. Confirmed'
    BY <1>1, <1>2, <1>3, <2>6 DEF Confirmed
  <2>9. ASSUME NEW m \in data \cup acks PROVE Listed(m.p, m.n)'
    <3>1. Listed(m.p, m.n) /\ m.p \in Peers /\ m.n \in 1..n
      BY <1>1, <1>3 DEF Order
    <3>2. CASE \E j \in nacks[m.p] : j.n = m.n
      <4>1. PICK j \in nacks[m.p] : j.n = m.n
        BY <3>2
      <4>2. CASE j \in nacks'[m.p]
        BY <4>1, <4>2 DEF Listed
      <4>3. CASE j \notin nacks'[m.p]
        <5>1. m.p = p /\ j = k
          BY <2>6, <3>1, <4>1, <4>3
        <5>2. apc' = "expire" /\ m.n <= cut'[m.p]
          BY <1>2, <1>4, <2>4, <4>1, <5>1
        <5>3. QED
          BY <5>2 DEF Listed
      <4>4. QED
        BY <4>2, <4>3
    <3>3. CASE \A j \in nacks[m.p] : j.n > m.n
      <4>1. \A j \in nacks'[m.p] : j.n > m.n
        BY <2>6, <3>1, <3>3
      <4>2. QED
        BY <4>1 DEF Listed
    <3>4. CASE ppc # "idle" /\ pop.p = m.p /\ m.n <= pop.n
      BY <1>2, <3>4 DEF Listed
    <3>5. CASE apc = "expire" /\ m.n <= cut[m.p]
      BY <1>4, <3>5 DEF Listed
    <3>6. QED
      BY <3>1, <3>2, <3>3, <3>4, <3>5 DEF Listed
  <2>10. Order'
    BY <1>2, <2>9 DEF Order
  <2>11. /\ Apart' /\ Tracked'
         /\ retrQ' \in Seq(Packet) /\ Len(retrQ') <= NRetr /\ forgotten' \subseteq Packet
    <3>1. UNCHANGED <<sendQ, d, have, handed, done>>
      BY <1>2
    <3>2. QED
      BY <1>1, <2>2, <2>4, <3>1, ResendMoves
  <2>12. Typed'
    BY <1>1, <1>2, <1>4, <2>7, <2>11 DEF Typed
  <2>13. QED
    BY <2>7, <2>8, <2>10, <2>11, <2>12 DEF IInv
<1>5. ASSUME \A p \in Peers : UpTo(p, cut[p]) = {}, apc' = "idle", cut' = [p \in Peers |-> 0],
             UNCHANGED <<nacks, retrQ, forgotten>>
      PROVE  IInv'
  <2>1. Lists'
    BY <1>1, <1>2, <1>5, SameLists
  <2>2. Typed'
    <3>1. cut' \in [Peers -> Nat]
      BY <1>5
    <3>2. QED
      BY <1>1, <1>2, <1>5, <2>1, <3>1 DEF Typed
  <2>3. Travelling'
    BY <1>1, <1>2, <1>5, ShrunkTravelling
  <2>4. Confirmed'
    BY <1>1, <1>2, <1>5 DEF Confirmed
  <2>5. ASSUME NEW m \in data \cup acks PROVE Listed(m.p, m.n)'
    <3>1. Listed(m.p, m.n) /\ m.p \in Peers /\ m.n \in 1..n
      BY <1>1, <1>3 DEF Order
    <3>2. CASE apc = "expire" /\ m.n <= cut[m.p]
      <4>1. \A j \in nacks[m.p] : ~(j.n <= cut[m.p]) /\ j.n \in 1..n /\ cut[m.p] \in Nat
        BY <1>3, <1>5, <3>1 DEF UpTo
      <4>2. \A j \in nacks[m.p] : j.n > m.n
        BY <1>3, <3>1, <3>2, <4>1
      <4>3. QED
        BY <1>5, <4>2 DEF Listed
    <3>3. QED
      BY <1>2, <1>5, <3>1, <3>2 DEF Listed
  <2>6. Order'
    BY <1>2, <2>5 DEF Order
  <2>7. Apart' /\ Tracked'
    <3>1. have' \in [Peers -> SUBSET Frag] /\ \A p \in Peers : have[p] \subseteq have'[p]
      BY <1>1, <1>2 DEF Typed
    <3>2. QED
      BY <1>1, <1>2, <1>5, <3>1, SamePlaces
  <2>8. QED
    BY <2>2, <2>3, <2>4, <2>6, <2>7 DEF IInv
<1>6. QED
  BY <1>4, <1>5 DEF TimeoutStep, appVars

-----------------------------------------------------------------------------
(* The theorems.                                                           *)

(* Nothing was sent in the beginning. *)
LEMMA InitIInv ==
  Init => IInv
<1> SUFFICES ASSUME Init PROVE IInv
  OBVIOUS
<1> USE DEF Init
<1>1. Lists
  BY DEF Lists
<1>2. Typed
  <2>1. /\ sendQ \in Seq(Packet) /\ retrQ \in Seq(Packet) /\ d \in Seq(Packet)
        /\ Len(retrQ) = 0 /\ Len(d) = 0
    OBVIOUS
  <2>2. have \in [Peers -> SUBSET Frag] /\ cut \in [Peers -> Nat]
    OBVIOUS
  <2>3. faults \in 0..MaxFaults /\ Len(retrQ) <= NRetr
    BY <2>1, RetransmissionConstants
  <2>4. QED
    BY <1>1, <2>1, <2>2, <2>3 DEF Typed
<1>3. Travelling /\ Confirmed /\ Order
  BY DEF Travelling, Confirmed, Order
<1>4. Waiting = {}
  BY DEF Waiting, Packet
<1>5. Elems(sendQ) = {} /\ Elems(retrQ) = {} /\ Elems(d) = {}
  BY TakenElems
<1>6. Everywhere = {}
  BY <1>4, <1>5 DEF Everywhere
<1>7. Apart
  <2>1. Injective(sendQ) /\ Injective(retrQ)
    BY DEF Injective
  <2>2. QED
    BY <1>4, <1>5, <1>6, <2>1 DEF Apart
<1>8. Tracked
  BY <1>6 DEF Tracked
<1>9. QED
  BY <1>2, <1>3, <1>7, <1>8 DEF IInv

(* Every step keeps the invariant. *)
LEMMA NextIInv ==
  IInv /\ [Next]_vars => IInv'
<1> SUFFICES ASSUME IInv, [Next]_vars PROVE IInv'
  OBVIOUS
<1>1. ASSUME NEW p \in Peers, SendBlock(p) PROVE IInv'
  BY <1>1, StepSendBlock
<1>2. CASE Sender
  BY <1>2, StepSenderTake, StepSenderAppend DEF Sender
<1>3. CASE Processor
  BY <1>3, StepAckPop, StepAckFromNewPeer, StepAckFromKnownPeer, StepResendOoo DEF Processor
<1>4. CASE TimeoutStart
  BY <1>4, StepTimeoutStart
<1>5. CASE TimeoutStep
  BY <1>5, StepTimeoutStep
<1>6. CASE Lose
  BY <1>6, StepLose
<1>7. CASE PeerReceives
  BY <1>7, StepPeerReceives
<1>8. CASE UNCHANGED vars
  <2>1. Typed /\ Travelling /\ Confirmed /\ Order /\ Apart /\ Tracked
    BY DEF IInv
  <2>2. UNCHANGED <<sendQ, retrQ, d, n, nacks, known, data, acks, have, ppc, pop, apc, cut,
                    handed, done, forgotten, faults>>
    BY <1>8 DEF vars, queueVars, netVars, procVars, appVars
  <2>3. Lists'
    BY <2>1, <2>2, SameLists
  <2>4. Typed'
    BY <2>1, <2>2, <2>3 DEF Typed
  <2>5. Travelling' /\ Confirmed' /\ Order'
    BY <2>1, <2>2, QueueStep
  <2>6. Apart' /\ Tracked'
    <3>1. have' \in [Peers -> SUBSET Frag] /\ \A p \in Peers : have[p] \subseteq have'[p]
      BY <2>1, <2>2 DEF Typed
    <3>2. QED
      BY <2>1, <2>2, <3>1, SamePlaces
  <2>7. QED
    BY <2>4, <2>5, <2>6 DEF IInv
<1>9. QED
  BY <1>1, <1>2, <1>3, <1>4, <1>5, <1>6, <1>7, <1>8 DEF Next

(* The invariant holds in every reachable state of the acknowledgement     *)
(* machinery (ack.c, ack_received.c), whatever the network does.           *)
THEOREM RetransmissionHolds ==
  Spec => []IInv
<1>1. Init => IInv
  BY InitIInv
<1>2. IInv /\ [Next]_vars => IInv'
  BY NextIInv
<1>3. QED
  BY <1>1, <1>2, PTL DEF Spec

(* Every variable keeps its type: in particular resend_ooo_nacks and       *)
(* resend_timeout_nacks never overrun the retransmission queue.            *)
THEOREM TypeCorrect ==
  Spec => []TypeOK
<1>1. IInv => TypeOK
  <2> SUFFICES ASSUME IInv PROVE TypeOK
    OBVIOUS
  <2>1. Typed /\ Lists
    BY DEF IInv, Typed
  <2>2. pop \in [p : Peers, f : Frag, n : 1..n, cons : Frag] \cup {NoPop}
    BY <2>1 DEF Typed
  <2>3. nacks \in [Peers -> SUBSET [n : 1..n, f : Frag]]
    BY <2>1 DEF Lists, Nack
  <2>4. QED
    BY <2>1, <2>2, <2>3 DEF Typed, Lists, TypeOK
<1>2. QED
  BY <1>1, RetransmissionHolds, PTL

(* The places of a packet are where it is an element. *)
LEMMA CopiesAre ==
  ASSUME Typed, NEW x \in Packet
  PROVE  Copies(x) # {} <=> x \in Everywhere
<1> DEFINE A == In(sendQ, x)
           B == In(retrQ, x)
           C == In(d, x)
           W == {k.n : k \in {j \in nacks[x.p] : j.f = x.f}}
<1>1. (A # {} <=> x \in Elems(sendQ)) /\ (B # {} <=> x \in Elems(retrQ)) /\ (C # {} <=> x \in Elems(d))
  BY DEF In, Elems
<1>2. W # {} <=> x \in Waiting
  BY DEF Waiting
<1> HIDE DEF A, B, C, W
<1>3. Copies(x) = ({"send"} \X A) \cup ({"retr"} \X B) \cup ({"taken"} \X C) \cup ({"nack"} \X W)
  BY DEF Copies, A, B, C, W
<1>4. Copies(x) # {} <=> A # {} \/ B # {} \/ C # {} \/ W # {}
  <2>1. ASSUME NEW t, NEW S PROVE S = {} <=> {t} \X S = {}
    <3>1. ASSUME NEW i \in S PROVE <<t, i>> \in {t} \X S
      BY <3>1
    <3>2. ASSUME NEW u \in {t} \X S PROVE \E i \in S : u = <<t, i>>
      BY <3>2
    <3>3. QED
      BY <3>1, <3>2
  <2>2. /\ A = {} <=> {"send"} \X A = {}
        /\ B = {} <=> {"retr"} \X B = {}
        /\ C = {} <=> {"taken"} \X C = {}
        /\ W = {} <=> {"nack"} \X W = {}
    BY <2>1
  <2>3. \A S, T, U, V : S \cup T \cup U \cup V = {} <=> S = {} /\ T = {} /\ U = {} /\ V = {}
    OBVIOUS
  <2>4. Copies(x) = {} <=> /\ {"send"} \X A = {} /\ {"retr"} \X B = {}
                           /\ {"taken"} \X C = {} /\ {"nack"} \X W = {}
    BY <1>3, <2>3
  <2>5. QED
    BY <2>2, <2>4
<1>5. QED
  BY <1>1, <1>2, <1>4 DEF Everywhere

(* No fragment gets lost unnoticed: one that its peer does not have is     *)
(* still queued or in the list of nacks, unless it was given up when the   *)
(* first ack of a peer came or refused by send_data; for any number of     *)
(* peers, blocks of any size, any loss, repetition and delay, and however  *)
(* often seq_num wraps, as long as no datagram lives for a whole round.    *)
THEOREM NotLostCorrect ==
  Spec => []NotLostUnnoticed
<1>1. IInv => NotLostUnnoticed
  BY CopiesAre DEF IInv, Tracked, NotLostUnnoticed
<1>2. QED
  BY <1>1, RetransmissionHolds, PTL

(* A fragment is never under way twice, and one that was acknowledged or   *)
(* given up is not sent again.                                             *)
THEOREM OneCopyCorrect ==
  Spec => []OneCopy
<1>1. ASSUME IInv, NEW x \in Packet PROVE \A u, v \in Copies(x) : u = v
  <2>1. Typed /\ Apart
    BY <1>1 DEF IInv
  <2> DEFINE A == In(sendQ, x)
             B == In(retrQ, x)
             C == In(d, x)
             W == {k.n : k \in {j \in nacks[x.p] : j.f = x.f}}
  <2>2. (A # {} <=> x \in Elems(sendQ)) /\ (B # {} <=> x \in Elems(retrQ)) /\ (C # {} <=> x \in Elems(d))
    BY DEF In, Elems
  <2>3. W # {} <=> x \in Waiting
    BY DEF Waiting
  <2>4. \A i, j \in A : i = j
    BY <2>1 DEF Apart, Injective, In
  <2>5. \A i, j \in B : i = j
    BY <2>1 DEF Apart, Injective, In
  <2>6. \A i, j \in C : i = j
    <3>1. Len(d) <= 1 /\ Len(d) \in Nat
      BY <2>1 DEF Typed
    <3>2. \A i \in 1..Len(d) : i = 1
      BY <3>1
    <3>3. QED
      BY <3>2 DEF In
  <2>7. \A i, j \in W : i = j
    <3>1. x.p \in Peers
      BY DEF Packet
    <3>2. QED
      BY <2>1, <3>1 DEF Apart
  <2> HIDE DEF A, B, C, W
  <2>8. Copies(x) = ({"send"} \X A) \cup ({"retr"} \X B) \cup ({"taken"} \X C) \cup ({"nack"} \X W)
    BY DEF Copies, A, B, C, W
  <2>9. /\ ~(A # {} /\ B # {}) /\ ~(A # {} /\ C # {}) /\ ~(A # {} /\ W # {})
        /\ ~(B # {} /\ C # {}) /\ ~(B # {} /\ W # {}) /\ ~(C # {} /\ W # {})
    BY <2>1, <2>2, <2>3 DEF Apart
  <2>10. QED
    BY <2>4, <2>5, <2>6, <2>7, <2>8, <2>9
<1>2. ASSUME IInv, NEW x \in Packet, x \in done \cup forgotten PROVE Copies(x) = {}
  BY <1>2, CopiesAre DEF IInv, Apart
<1>3. IInv => OneCopy
  BY <1>1, <1>2 DEF OneCopy
<1>4. QED
  BY <1>3, RetransmissionHolds, PTL
=============================================================================
