------------------------ MODULE PacketReceiverProofs ------------------------
(***************************************************************************)
(* Proofs about the receiver, the packet processor and the iterator: the   *)
(* type invariant with the accounting of both rings, what is done with     *)
(* each datagram, the order of the iterator and the counters, for rings of *)
(* any size and any traffic that packet_send can make.                     *)
(***************************************************************************)
EXTENDS PacketReceiver, SequenceTheorems, TLAPS

-----------------------------------------------------------------------------
(* What the processor does with each kind of datagram.                     *)

IsFragment(d) ==
  /\ d.kind = "fragment" /\ d.field \in 0..MTU /\ d.len = HeaderSize + d.field + 4
  /\ {"BLK_BLOCK", "NEED_ACK"} \subseteq d.flags
  /\ d.flags \subseteq {"BLK_BLOCK", "NEED_ACK", "CONSECUTIVE", "RETRANSMISSION"}

IsCookie(d) ==
  /\ d.kind = "cookie" /\ d.field = 0 /\ d.len = HeaderSize + MTU + 4
  /\ {"COOKIE_MSG", "NEED_ACK"} \subseteq d.flags
  /\ d.flags \subseteq {"COOKIE_MSG", "NEED_ACK", "RETRANSMISSION"}

IsAck(d) == d.kind = "ack" /\ d.flags = {"BLK_ACK"} /\ d.len = AckPacketSize + 2

IsBw(d) == d.kind = "bw" /\ d.flags = {"BW_MSG"} /\ d.len = BWPacketSize + 2

IsRaw(d) ==
  /\ d.kind = "raw" /\ d.len \in Nat
  /\ d.flags = {} \/ d.flags = {"CONSECUTIVE"}

(* The fields of a packet that is retransmitted. *)
LEMMA ResentFields ==
  ASSUME NEW k, NEW fl, NEW f, NEW l
  PROVE  LET p == Packet(k, fl, f, l)
         IN  /\ p.kind = k /\ p.flags = fl /\ p.field = f /\ p.len = l
             /\ Resent(p).kind = k /\ Resent(p).field = f /\ Resent(p).len = l
             /\ Resent(p).flags = (fl \ {"CONSECUTIVE"}) \cup {"RETRANSMISSION"}
BY DEF Packet, Resent

(* A datagram that packet_send made has one of five shapes. *)
LEMMA Shapes ==
  ASSUME NEW d, Sendable(d)
  PROVE  /\ d.port \in Nat
         /\ IsFragment(d) \/ IsCookie(d) \/ IsAck(d) \/ IsBw(d) \/ IsRaw(d)
<1>1. MTU \in Nat \ {0} /\ d.port \in Nat
  BY MTUAssumption DEF Sendable
<1>p. PICK p \in Packets : MakesFrom(p, d)
  BY DEF Sendable
<1>2. PICK port :
        \/ d = Transmit(p, FALSE, port)
        \/ /\ p.kind \in {"fragment", "raw"} /\ "RETRANSMISSION" \notin p.flags
           /\ d = Transmit(p, TRUE, port)
  BY <1>p DEF MakesFrom
<1>3. /\ d.kind = p.kind /\ d.field = p.field
      /\ \/ d.flags = p.flags
         \/ /\ p.kind \in {"fragment", "raw"} /\ "RETRANSMISSION" \notin p.flags
            /\ d.flags = p.flags \cup {"CONSECUTIVE"}
      /\ d.len = p.len + (IF "NEED_ACK" \in p.flags THEN 2 ELSE 0)
                  + (IF d.flags = {} THEN 0 ELSE 2)
  BY <1>2 DEF Transmit, AckSize, PortSize
<1>4. CASE \E n \in 0..MTU : p = Fragment(n) \/ p = Resent(Fragment(n))
  <2>1. PICK n \in 0..MTU : p = Fragment(n) \/ p = Resent(Fragment(n))
    BY <1>4
  <2>2. /\ p.kind = "fragment" /\ p.field = n /\ p.len = HeaderSize + n
        /\ {"BLK_BLOCK", "NEED_ACK"} \subseteq p.flags
        /\ p.flags \subseteq {"BLK_BLOCK", "NEED_ACK", "RETRANSMISSION"}
    BY <2>1, ResentFields DEF Fragment
  <2>3. d.len = HeaderSize + d.field + 4
    BY <1>1, <1>3, <2>2 DEF HeaderSize
  <2>4. QED
    BY <1>1, <1>3, <2>2, <2>3 DEF IsFragment
<1>5. CASE p = Cookie \/ p = Resent(Cookie)
  <2>1. /\ p.kind = "cookie" /\ p.field = 0 /\ p.len = HeaderSize + MTU
        /\ {"COOKIE_MSG", "NEED_ACK"} \subseteq p.flags
        /\ p.flags \subseteq {"COOKIE_MSG", "NEED_ACK", "RETRANSMISSION"}
    BY <1>5, ResentFields DEF Cookie
  <2>2. d.len = HeaderSize + MTU + 4
    BY <1>1, <1>3, <2>1 DEF HeaderSize
  <2>3. QED
    BY <1>1, <1>3, <2>1, <2>2 DEF IsCookie
<1>6. CASE p = AckPacket
  <2>1. p.kind = "ack" /\ p.flags = {"BLK_ACK"} /\ p.len = AckPacketSize
    BY <1>6, ResentFields DEF AckPacket
  <2>2. QED
    BY <1>1, <1>3, <2>1 DEF IsAck, AckPacketSize
<1>7. CASE p = BWPacket
  <2>1. p.kind = "bw" /\ p.flags = {"BW_MSG"} /\ p.len = BWPacketSize
    BY <1>7, ResentFields DEF BWPacket
  <2>2. QED
    BY <1>1, <1>3, <2>1 DEF IsBw, BWPacketSize
<1>8. CASE \E m \in 0..MaxRaw : p = Raw(m)
  <2>1. PICK m \in 0..MaxRaw : p = Raw(m)
    BY <1>8
  <2>2. p.kind = "raw" /\ p.flags = {} /\ p.len = m + 1 /\ m \in Nat
    BY <2>1, ResentFields DEF Raw
  <2>3. QED
    BY <1>1, <1>3, <2>2 DEF IsRaw
<1>9. QED
  BY <1>1, <1>2, <1>4, <1>5, <1>6, <1>7, <1>8 DEF Packets

(* The second look at the NAT port strips two bytes more exactly when the  *)
(* port is above 255.                                                      *)
LEMMA PortTwice ==
  ASSUME NEW port \in Nat
  PROVE  (port \div 256 # 0) <=> port > 255
OBVIOUS

(* A datagram that arrives: packet_send made it and its port fits into it. *)
Proper(d) == Sendable(d) /\ Stripped(d) >= 0

(* What every proper datagram is handled as: the effects it was sent for,  *)
(* or none; and buflen at the end, whether the seq number was cut off.     *)
Outcome(d) ==
  /\ Handling(d) \ {"garbage"} = IF Mishandled(d) THEN {} ELSE Purpose[d.kind]
  /\ FinalLen(d) \in Nat
  /\ Payload(d) = FinalLen(d) + IF "acknowledge" \in Handling(d) THEN AckSize ELSE 0
  /\ "ack" \in Handling(d) \/ "garbage" \in Handling(d) => "acknowledge" \notin Handling(d)
  /\ "fragment" \in Handling(d) => "acknowledge" \in Handling(d)
  /\ {"refused", "unknown"} \cap Handling(d) = {}

(* What is done with a fragment. *)
LEMMA FragmentOutcome ==
  ASSUME NEW d, d.port \in Nat, IsFragment(d)
  PROVE  Outcome(d)
<1>1. (d.port \div 256 # 0) <=> d.port > 255
  BY PortTwice
<1>2. MTU \in Nat \ {0}
  BY MTUAssumption
<1>3. /\ "NEED_ACK" \in d.flags /\ "BLK_BLOCK" \in d.flags /\ d.flags # {}
      /\ "BLK_ACK" \notin d.flags /\ "BW_MSG" \notin d.flags /\ "COOKIE_MSG" \notin d.flags
  BY DEF IsFragment
<1>4. CASE d.port > 255
  <2>1. Stripped(d) = HeaderSize + d.field
    BY <1>1, <1>3, <1>4 DEF Stripped, IsFragment, HeaderSize, PortSize
  <2>2. ~Acknowledged(d)
    BY <1>2, <1>3, <2>1 DEF Acknowledged, validate_block, AckSize, HeaderSize, IsFragment
  <2>3. Handling(d) = {"garbage"}
    BY <1>3, <2>2 DEF Handling
  <2>4. FinalLen(d) = HeaderSize + d.field /\ Payload(d) = HeaderSize + d.field
    BY <1>3, <1>4, <2>1, <2>2 DEF FinalLen, Payload, IsFragment, HeaderSize
  <2>5. Mishandled(d)
    BY <1>3, <1>4 DEF Mishandled
  <2>6. QED
    BY <1>2, <2>3, <2>4, <2>5 DEF Outcome, IsFragment, HeaderSize
<1>5. CASE ~(d.port > 255)
  <2>1. Stripped(d) = HeaderSize + d.field + 2
    BY <1>1, <1>3, <1>5 DEF Stripped, IsFragment, HeaderSize, PortSize
  <2>2. Acknowledged(d)
    BY <1>2, <1>3, <2>1 DEF Acknowledged, validate_block, AckSize, HeaderSize, IsFragment
  <2>3. FinalLen(d) = HeaderSize + d.field /\ Payload(d) = HeaderSize + d.field + 2
    BY <1>3, <1>5, <2>1, <2>2 DEF FinalLen, Payload, IsFragment, HeaderSize, AckSize
  <2>4. validate_block(d.flags, d.field, FinalLen(d))
    BY <2>3 DEF validate_block, IsFragment
  <2>5. Handling(d) = {"acknowledge", "fragment"}
    BY <1>3, <2>2, <2>4 DEF Handling
  <2>6. ~Mishandled(d)
    BY <1>3, <1>5 DEF Mishandled, IsFragment
  <2>7. Purpose[d.kind] = {"acknowledge", "fragment"}
    BY DEF Purpose, IsFragment
  <2>8. QED
    BY <1>2, <2>3, <2>5, <2>6, <2>7 DEF Outcome, IsFragment, HeaderSize, AckSize
<1>6. QED
  BY <1>4, <1>5

(* What is done with a cookie. *)
LEMMA CookieOutcome ==
  ASSUME NEW d, d.port \in Nat, IsCookie(d)
  PROVE  Outcome(d)
<1>1. (d.port \div 256 # 0) <=> d.port > 255
  BY PortTwice
<1>2. MTU \in Nat \ {0}
  BY MTUAssumption
<1>3. /\ "NEED_ACK" \in d.flags /\ "COOKIE_MSG" \in d.flags /\ d.flags # {}
      /\ "BLK_ACK" \notin d.flags /\ "BW_MSG" \notin d.flags /\ "BLK_BLOCK" \notin d.flags
  BY DEF IsCookie
<1>4. Stripped(d) = HeaderSize + MTU + IF d.port > 255 THEN 0 ELSE 2
  BY <1>1, <1>2, <1>3 DEF Stripped, IsCookie, HeaderSize, PortSize
<1>5. Payload(d) = HeaderSize + MTU + IF d.port > 255 THEN 0 ELSE 2
  BY <1>2, <1>3 DEF Payload, IsCookie, HeaderSize
<1>6. CASE d.port > 255 \/ "RETRANSMISSION" \in d.flags
  <2>1. ~Acknowledged(d)
    <3>1. ~(d.flags \subseteq {"BLK_BLOCK", "NEED_ACK", "CONSECUTIVE", "RETRANSMISSION"})
      BY <1>3
    <3>2. d.port > 255 => Stripped(d) - AckSize # HeaderSize + MTU
      BY <1>2, <1>4 DEF AckSize, HeaderSize
    <3>3. "RETRANSMISSION" \in d.flags => d.flags # {"NEED_ACK", "COOKIE_MSG"}
      OBVIOUS
    <3>4. QED
      BY <1>6, <3>1, <3>2, <3>3 DEF Acknowledged, validate_block
  <2>2. Handling(d) = {"garbage"}
    BY <1>3, <2>1 DEF Handling
  <2>3. FinalLen(d) = Stripped(d)
    BY <2>1 DEF FinalLen
  <2>4. Mishandled(d)
    BY <1>3, <1>6 DEF Mishandled, IsCookie
  <2>5. QED
    BY <1>2, <1>4, <1>5, <2>2, <2>3, <2>4 DEF Outcome, HeaderSize
<1>7. CASE ~(d.port > 255 \/ "RETRANSMISSION" \in d.flags)
  <2>1. d.flags = {"NEED_ACK", "COOKIE_MSG"}
    BY <1>7 DEF IsCookie
  <2>2. Stripped(d) - AckSize = HeaderSize + MTU
    BY <1>2, <1>4, <1>7 DEF AckSize, HeaderSize
  <2>3. Acknowledged(d)
    BY <2>1, <2>2 DEF Acknowledged, validate_block
  <2>4. Handling(d) = {"acknowledge"}
    BY <1>3, <2>3 DEF Handling
  <2>5. FinalLen(d) = HeaderSize + MTU
    BY <2>2, <2>3 DEF FinalLen
  <2>6. ~Mishandled(d) /\ Purpose[d.kind] = {"acknowledge"}
    BY <1>3, <1>7 DEF Mishandled, Purpose, IsCookie
  <2>7. QED
    BY <1>2, <1>5, <1>7, <2>4, <2>5, <2>6 DEF Outcome, HeaderSize, AckSize
<1>8. QED
  BY <1>6, <1>7

(* What is done with an ack or a bandwidth message. *)
LEMMA SmallOutcome ==
  ASSUME NEW d, d.port \in Nat, IsAck(d) \/ IsBw(d)
  PROVE  Outcome(d)
<1>1. (d.port \div 256 # 0) <=> d.port > 255
  BY PortTwice
<1>2. ~Acknowledged(d) /\ d.flags # {} /\ "NEED_ACK" \notin d.flags
  BY DEF IsAck, IsBw, Acknowledged
<1>3. /\ FinalLen(d) = Stripped(d) /\ Payload(d) = Stripped(d)
      /\ Stripped(d) = d.len - IF d.port > 255 THEN 4 ELSE 2
  BY <1>1, <1>2 DEF FinalLen, Stripped, Payload, PortSize, IsAck, IsBw, AckPacketSize, BWPacketSize
<1>4. CASE IsAck(d)
  <2>1. Handling(d) = {IF d.port > 255 THEN "garbage" ELSE "ack"}
    BY <1>2, <1>3, <1>4 DEF Handling, IsAck, validate_ack, AckPacketSize
  <2>2. Mishandled(d) <=> d.port > 255
    BY <1>2, <1>4 DEF Mishandled, IsAck
  <2>3. Purpose[d.kind] = {"ack"}
    BY <1>4 DEF IsAck, Purpose
  <2>4. FinalLen(d) \in Nat
    BY <1>3, <1>4 DEF IsAck, AckPacketSize
  <2>5. QED
    BY <1>3, <2>1, <2>2, <2>3, <2>4 DEF Outcome
<1>5. CASE IsBw(d)
  <2>1. Handling(d) = {IF d.port > 255 THEN "garbage" ELSE "bw"}
    BY <1>2, <1>3, <1>5 DEF Handling, IsBw, validate_bw, BWPacketSize
  <2>2. Mishandled(d) <=> d.port > 255
    BY <1>2, <1>5 DEF Mishandled, IsBw
  <2>3. Purpose[d.kind] = {"bw"}
    BY <1>5 DEF IsBw, Purpose
  <2>4. FinalLen(d) \in Nat
    BY <1>3, <1>5 DEF IsBw, BWPacketSize
  <2>5. QED
    BY <1>3, <2>1, <2>2, <2>3, <2>4 DEF Outcome
<1>6. QED
  BY <1>4, <1>5

(* What is done with a raw message. *)
LEMMA RawOutcome ==
  ASSUME NEW d, d.port \in Nat, IsRaw(d), Stripped(d) >= 0
  PROVE  Outcome(d)
<1>1. (d.port \div 256 # 0) <=> d.port > 255
  BY PortTwice
<1>2. ~Acknowledged(d)
  BY DEF IsRaw, Acknowledged
<1>3. FinalLen(d) = Stripped(d) /\ Payload(d) = Stripped(d) /\ Stripped(d) \in Nat
  BY <1>1, <1>2 DEF FinalLen, Stripped, Payload, PortSize, IsRaw
<1>4. CASE d.flags = {} /\ d.len > 3
  <2>1. Handling(d) = {"message"}
    BY <1>2, <1>4 DEF Handling
  <2>2. ~Mishandled(d) /\ Purpose[d.kind] = {"message"}
    BY <1>4 DEF Mishandled, IsRaw, Purpose
  <2>3. QED
    BY <1>3, <2>1, <2>2 DEF Outcome
<1>5. CASE ~(d.flags = {} /\ d.len > 3)
  <2>1. Handling(d) = {}
    BY <1>2, <1>5 DEF Handling, IsRaw
  <2>2. Mishandled(d)
    BY <1>5 DEF Mishandled, IsRaw
  <2>3. QED
    BY <1>3, <2>1, <2>2 DEF Outcome
<1>6. QED
  BY <1>4, <1>5

(* What is done with any datagram that arrives. *)
LEMMA ProperOutcome == ASSUME NEW d, Proper(d) PROVE Outcome(d)
BY Shapes, FragmentOutcome, CookieOutcome, SmallOutcome, RawOutcome DEF Proper

(* What the counters grow by at the end of the loop. *)
Fin(d) == [Zero EXCEPT !["PKG"] = 1, !["DATA"] = FinalLen(d)]

(* It is counted in natural numbers. *)
LEMMA FinType == ASSUME NEW d, Proper(d) PROVE Fin(d) \in [Counters -> Nat]
<1>1. FinalLen(d) \in Nat
  BY ProperOutcome DEF Outcome
<1>2. QED
  BY <1>1 DEF Fin, Counters, Zero

(* What a datagram adds to the counters, before and at the end of the      *)
(* loop, is what it should add.                                            *)
LEMMA CountedInTwoParts ==
  ASSUME NEW d, Proper(d), NEW ans \in Answers(Handling(d))
  PROVE  /\ Handled(d, Handling(d), ans) \in [Counters -> Nat]
         /\ Fin(d) \in [Counters -> Nat]
         /\ \A x \in Counters : Due(d, Handling(d) \cup {ans})[x]
                                  = Handled(d, Handling(d), ans)[x] + Fin(d)[x]
<1> DEFINE eff == Handling(d)
<1>1. Outcome(d)
  BY ProperOutcome
<1>2. /\ FinalLen(d) \in Nat
      /\ Payload(d) = FinalLen(d) + IF "acknowledge" \in eff THEN AckSize ELSE 0
      /\ "ack" \in eff \/ "garbage" \in eff => "acknowledge" \notin eff
      /\ "fragment" \in eff => "acknowledge" \in eff
      /\ "refused" \notin eff /\ "unknown" \notin eff
  BY <1>1 DEF Outcome
<1>3. /\ ans = "refused" => "acknowledge" \in eff /\ "garbage" \notin eff
      /\ ans = "unknown" => "acknowledge" \notin eff
      /\ ans # "garbage" /\ ans # "ack"
  BY <1>2 DEF Answers
<1> HIDE DEF eff
<1>4. Handled(d, eff, ans) \in [Counters -> Nat]
  BY <1>2 DEF Handled, Counters, AckSize
<1>5. Fin(d) \in [Counters -> Nat]
  BY FinType
<1>6. \A x \in Counters : Due(d, eff \cup {ans})[x] = Handled(d, eff, ans)[x] + Fin(d)[x]
  <2>1. Fin(d)["PKG"] = 1 /\ Fin(d)["DATA"] = FinalLen(d) /\ Fin(d)["ACK"] = 0
          /\ Fin(d)["GARBAGE"] = 0
    BY DEF Fin, Zero, Counters
  <2>2. Due(d, eff \cup {ans}).PKG = Handled(d, eff, ans).PKG + 1
    BY DEF Due, Handled
  <2>3. Due(d, eff \cup {ans}).DATA = Handled(d, eff, ans).DATA + FinalLen(d)
    BY <1>2 DEF Due, Handled, AckSize
  <2>4. Due(d, eff \cup {ans}).ACK = Handled(d, eff, ans).ACK
    BY <1>3 DEF Due, Handled
  <2>5. Due(d, eff \cup {ans}).GARBAGE = Handled(d, eff, ans).GARBAGE
    BY <1>2, <1>3 DEF Due, Handled, AckSize
  <2>6. Handled(d, eff, ans).ACK \in Nat /\ Handled(d, eff, ans).GARBAGE \in Nat
    BY <1>4 DEF Counters
  <2>7. QED
    BY <2>1, <2>2, <2>3, <2>4, <2>5, <2>6 DEF Counters
<1>7. QED
  BY <1>4, <1>5, <1>6 DEF eff

-----------------------------------------------------------------------------
(* Rings.                                                                  *)

(* The k-th slot from slot p, in a ring of n. *)
At(n, p, k) == IF p + k < n THEN p + k ELSE p + k - n

(* From slot p on, ring r holds the elements of s. *)
Holds(r, n, p, s) == \A i \in 1..Len(s) : r[At(n, p, i - 1)] = s[i]

(* The index that c = (c + 1) % n moves to. *)
LEMMA NextSlot ==
  ASSUME NEW n \in Nat \ {0}, NEW p \in 0..n-1
  PROVE  (p + 1) % n = At(n, p, 1) /\ (p + 1) % n \in 0..n-1
<1>1. CASE p + 1 < n
  <2>1. (p + 1) % n = p + 1
    BY <1>1
  <2>2. QED
    BY <1>1, <2>1 DEF At
<1>2. CASE p + 1 = n
  <2>1. n % n = 0
    OBVIOUS
  <2>2. QED
    BY <1>2, <2>1 DEF At
<1>3. QED
  BY <1>1, <1>2

(* Filling the first free slot appends to what the ring holds. *)
LEMMA RingPut ==
  ASSUME NEW n \in Nat \ {0}, NEW p \in 0..n-1, NEW S, NEW s \in Seq(S), NEW v \in S,
         NEW V, NEW r \in [0..n-1 -> V], Len(s) < n, Holds(r, n, p, s),
         NEW c, c = At(n, p, Len(s))
  PROVE  /\ c \in 0..n-1
         /\ Holds([r EXCEPT ![c] = v], n, p, Append(s, v))
         /\ (c + 1) % n = At(n, p, Len(Append(s, v)))
<1>1. Len(s) \in Nat
  OBVIOUS
<1>2. c \in 0..n-1
  BY <1>1 DEF At
<1>3. Len(Append(s, v)) = Len(s) + 1
  OBVIOUS
<1>4. ASSUME NEW i \in 1..Len(Append(s, v))
      PROVE  [r EXCEPT ![c] = v][At(n, p, i - 1)] = Append(s, v)[i]
  <2>1. CASE i = Len(s) + 1
    <3>1. i - 1 = Len(s) /\ Append(s, v)[i] = v
      BY <1>1, <2>1
    <3>2. QED
      BY <1>2, <3>1
  <2>2. CASE i # Len(s) + 1
    <3>1. i \in 1..Len(s) /\ Append(s, v)[i] = s[i]
      BY <1>1, <1>3, <2>2
    <3>2. At(n, p, i - 1) \in 0..n-1 /\ At(n, p, i - 1) # c
      BY <1>1, <3>1 DEF At
    <3>3. r[At(n, p, i - 1)] = s[i]
      BY <3>1 DEF Holds
    <3>4. QED
      BY <1>2, <3>1, <3>2, <3>3
  <2>3. QED
    BY <2>1, <2>2
<1>5. (c + 1) % n = At(n, p, Len(s) + 1)
  <2>1. (c + 1) % n = At(n, c, 1)
    BY <1>2, NextSlot
  <2>2. At(n, c, 1) = At(n, p, Len(s) + 1)
    BY <1>1, <1>2 DEF At
  <2>3. QED
    BY <2>1, <2>2
<1>6. QED
  BY <1>2, <1>3, <1>4, <1>5 DEF Holds

(* Giving the first slot back removes the head of what the ring holds. *)
LEMMA RingGet ==
  ASSUME NEW n \in Nat \ {0}, NEW p \in 0..n-1, NEW S, NEW s \in Seq(S), s # <<>>,
         NEW r, Len(s) <= n, Holds(r, n, p, s)
  PROVE  /\ r[p] = Head(s)
         /\ Holds(r, n, (p + 1) % n, Tail(s))
         /\ At(n, (p + 1) % n, Len(Tail(s))) = At(n, p, Len(s))
<1>1. Len(s) \in Nat /\ Len(s) > 0 /\ Len(Tail(s)) = Len(s) - 1 /\ Head(s) = s[1]
  OBVIOUS
<1>2. PICK p1 \in 0..n-1 : p1 = (p + 1) % n /\ p1 = At(n, p, 1)
  BY NextSlot
<1>3. r[p] = Head(s)
  <2>1. At(n, p, 1 - 1) = p
    BY DEF At
  <2>2. QED
    BY <1>1, <2>1 DEF Holds
<1>4. ASSUME NEW i \in 1..Len(Tail(s)) PROVE r[At(n, p1, i - 1)] = Tail(s)[i]
  <2>1. i + 1 \in 1..Len(s) /\ Tail(s)[i] = s[i + 1]
    BY <1>1
  <2>2. At(n, p1, i - 1) = At(n, p, (i + 1) - 1)
    <3>1. i \in Nat /\ i >= 1 /\ (i + 1) - 1 = i /\ i < n
      BY <1>1
    <3>2. QED
      BY <1>2, <3>1 DEF At
  <2>3. r[At(n, p, (i + 1) - 1)] = s[i + 1]
    BY <2>1 DEF Holds
  <2>4. QED
    BY <2>1, <2>2, <2>3
<1>5. At(n, p1, Len(Tail(s))) = At(n, p, Len(s))
  BY <1>1, <1>2 DEF At
<1>6. QED
  BY <1>2, <1>3, <1>4, <1>5 DEF Holds

-----------------------------------------------------------------------------
(* The inductive invariant.                                                *)

Arriving == UNION {Traffic[i] : i \in 1..MaxPackets}

Datagram == [n : 1..MaxPackets, d : Arriving]

Busy == ppc \in {"handle", "room", "count"}

(* The values of the program counters, the rings and the semaphores.       *)
Places ==
  /\ buffer \in [0..BufN-1 -> Datagram \cup {Nothing}]
  /\ rc \in 0..BufN-1 /\ prc \in 0..BufN-1
  /\ bEmpty \in Nat /\ bFull \in Nat
  /\ rpc \in {"top", "wait", "recv", "exit"}
  /\ ppc \in {"top", "wait", "handle", "room", "count", "exit"}
  /\ lockR \in BOOLEAN /\ (lockR <=> ppc \in {"room", "count"})
  /\ ring \in [0..NBiter-1 -> 0..MaxPackets] /\ bcr \in 0..NBiter-1 /\ icr \in 0..NBiter-1
  /\ biterEmpty \in Nat /\ biterFull \in Nat
  /\ ipc \in {"idle", "wait", "back", "stop"} /\ item \in 0..MaxPackets
  /\ apc \in {"idle", "inStats", "post", "join", "shut", "dead"}
  /\ arrivals \in 0..MaxPackets /\ calls \in 0..MaxCalls /\ outReset \in BOOLEAN

(* The ring of datagrams holds what was received and not yet handled, in   *)
(* the order of arrival; the semaphores and the two threads account for    *)
(* every slot.                                                             *)
Flight ==
  /\ inflight \in Seq(Datagram)
  /\ Len(inflight) = bFull + IF Busy THEN 1 ELSE 0
  /\ bEmpty + Len(inflight) + (IF rpc = "recv" THEN 1 ELSE 0) = BufN
  /\ Holds(buffer, BufN, prc, inflight)
  /\ rc = At(BufN, prc, Len(inflight))

(* Datagrams are numbered as they arrive. *)
Numbered ==
  /\ \A i \in 1..Len(inflight) : inflight[i].n <= arrivals
  /\ \A i \in 1..Len(inflight)-1 : inflight[i].n < inflight[i+1].n

(* What of pending is still in the iterator's ring. *)
Live == IF ipc = "back" THEN Tail(pending) ELSE pending

(* The iterator's ring holds what was announced and not yet taken. *)
Announced ==
  /\ pending \in Seq(1..MaxPackets)
  /\ ipc = "back" => pending # <<>> /\ item = Head(pending)
  /\ Len(Live) = biterFull /\ biterEmpty + biterFull = NBiter
  /\ Holds(ring, NBiter, icr, Live)
  /\ bcr = At(NBiter, icr, Len(Live))

(* What was announced arrived in that order, and before everything that is *)
(* not yet handled.                                                        *)
Ordered ==
  /\ \A i \in 1..Len(pending) : pending[i] <= arrivals
  /\ \A i \in 1..Len(pending)-1 : pending[i] < pending[i+1]
  /\ Received => \A i \in 1..Len(pending) :
                   \/ pending[i] < Head(inflight).n
                   \/ ppc = "count" /\ pending[i] = Head(inflight).n

(* What the datagram being handled has still to add to the counters. *)
Rest == IF lockR THEN Fin(Head(inflight).d) ELSE Zero

(* The counters and what they should be, apart from the datagram that is   *)
(* being handled; get_out_stats only makes them smaller.                   *)
Counted ==
  /\ stats \in [Counters -> Nat] /\ due \in [Counters -> Int]
  /\ \A x \in Counters : stats[x] + Rest[x] <= due[x]
  /\ ~outReset => \A x \in Counters : stats[x] + Rest[x] = due[x]
  /\ lockR => last = Handling(Head(inflight).d)

IInv == Places /\ (~death => Flight /\ Numbered /\ Announced /\ Ordered /\ Counted)
-----------------------------------------------------------------------------

(* What arrives is proper. *)
LEMMA ArrivingProper == \A d \in Arriving : Proper(d)
BY ReceiverConstants DEF Arriving, Proper, MaxPackets

(* The numbers of slots and of datagrams are natural numbers. *)
LEMMA Sizes ==
  /\ BufN \in Nat \ {0} /\ NBiter \in Nat \ {0} /\ MaxCalls \in Nat /\ MaxPackets \in Nat
BY ReceiverConstants DEF MaxPackets

(* Nobody comes back from die(). *)
LEMMA AliveBefore == ASSUME Places, [Next]_vars, ~death' PROVE ~death
<1>1. apc' = apc \/ apc \in {"idle", "inStats"}
        \/ (apc = "post" /\ apc' = "join") \/ (apc = "join" /\ apc' = "shut")
        \/ (apc = "shut" /\ apc' = "dead")
  BY DEF Next, RecvTop, RecvWait, RecvPacket, RecvEnd, Processor, ProcTop, ProcWait, ProcHandle,
         ProcHandleStale, BlockCompleted, ProcCount, Iterator, IterNext, IterTake, IterReturn,
         GetInStatsCall, GetInStats, GetOutStats, GetBwMsg, Call, DieKill, DiePost, DieEnd, appVars, vars
<1>2. QED
  BY <1>1 DEF death

(* While a datagram is being handled, it is the first one that is in       *)
(* flight, and its slot still holds it.                                    *)
LEMMA Front ==
  ASSUME Places, Flight, Busy
  PROVE  /\ inflight # <<>> /\ Head(inflight) = inflight[1] /\ Head(inflight) \in Datagram
         /\ buffer[prc] = Head(inflight) /\ buffer[prc] # Nothing
         /\ Proper(Head(inflight).d)
<1>1. Len(inflight) > 0 /\ inflight \in Seq(Datagram) /\ Len(inflight) <= BufN
  <2>1. inflight \in Seq(Datagram)
    BY DEF Flight
  <2>2. Len(inflight) \in Nat
    BY <2>1
  <2>3. bEmpty \in Nat /\ bFull \in Nat /\ BufN \in Nat
    BY Sizes DEF Places
  <2>4. Len(inflight) = bFull + 1
    BY DEF Flight
  <2>5. \E w \in {0, 1} : bEmpty + Len(inflight) + w = BufN
    BY DEF Flight
  <2>6. QED
    BY <2>1, <2>2, <2>3, <2>4, <2>5
<1>2. inflight # <<>> /\ Head(inflight) = inflight[1] /\ Head(inflight) \in Datagram
  BY <1>1
<1>3. buffer[prc] = Head(inflight)
  <2>1. BufN \in Nat \ {0} /\ prc \in 0..BufN-1
    BY Sizes DEF Places
  <2>2. Holds(buffer, BufN, prc, inflight)
    BY DEF Flight
  <2>3. QED
    BY <1>1, <1>2, <2>1, <2>2, RingGet
<1>4. Head(inflight).n \in 1..MaxPackets /\ Head(inflight).d \in Arriving
  BY <1>2 DEF Datagram
<1>5. Head(inflight) # Nothing
  BY <1>4, Sizes DEF Nothing
<1>6. QED
  BY <1>2, <1>3, <1>4, <1>5, ArrivingProper

(* A slot holds the number of a datagram, or 0. *)
LEMMA SlotNumber ==
  ASSUME Places, NEW i \in 0..BufN-1
  PROVE  buffer[i].n \in 0..MaxPackets
<1>1. buffer[i] \in Datagram \cup {Nothing}
  BY DEF Places
<1>2. CASE buffer[i] = Nothing
  BY <1>2, Sizes DEF Nothing
<1>3. CASE buffer[i] \in Datagram
  BY <1>3, Sizes DEF Datagram
<1>4. QED
  BY <1>1, <1>2, <1>3

(* Every step keeps the program counters, the rings and the semaphores in  *)
(* their ranges, and stat_lock_r with the processor.                       *)
LEMMA PlacesStep == ASSUME Places, [Next]_vars PROVE Places'
<1>1. CASE RecvTop \/ RecvWait
  <2>1. rpc' \in {"exit", "wait", "recv"} /\ bEmpty' \in Nat
    BY <1>1 DEF Places, RecvTop, RecvWait
  <2>2. UNCHANGED <<buffer, rc, prc, bFull, ppc, lockR, ring, bcr, icr, biterEmpty, biterFull,
                    ipc, item, apc, arrivals, calls, outReset>>
    BY <1>1 DEF RecvTop, RecvWait, recvVars, procVars, iterVars, appVars, biterVars
  <2>3. QED
    BY <2>1, <2>2 DEF Places
<1>2. CASE RecvPacket
  <2>1. PICK d \in Traffic[arrivals'] : Fill([n |-> arrivals', d |-> d])
    BY <1>2 DEF RecvPacket
  <2>2. arrivals' \in 1..MaxPackets
    BY <1>2, Sizes DEF RecvPacket, Places
  <2>3. [n |-> arrivals', d |-> d] \in Datagram
    BY <2>1, <2>2 DEF Datagram, Arriving
  <2>4. (rc + 1) % BufN \in 0..BufN-1
    BY Sizes, NextSlot DEF Places
  <2>5. /\ buffer' \in [0..BufN-1 -> Datagram \cup {Nothing}] /\ rc' \in 0..BufN-1
        /\ bFull' \in Nat /\ rpc' = "top"
    BY <2>1, <2>3, <2>4 DEF Places, Fill
  <2>6. UNCHANGED <<prc, bEmpty, ppc, lockR, ring, bcr, icr, biterEmpty, biterFull, ipc, item,
                    apc, calls, outReset>>
    BY <1>2 DEF RecvPacket, procVars, iterVars, appVars, biterVars
  <2>7. QED
    BY <2>2, <2>5, <2>6, Sizes DEF Places
<1>3. CASE RecvEnd
  <2>1. (rc + 1) % BufN \in 0..BufN-1
    BY Sizes, NextSlot DEF Places
  <2>2. /\ buffer' \in [0..BufN-1 -> Datagram \cup {Nothing}] /\ rc' \in 0..BufN-1
        /\ bFull' \in Nat /\ rpc' \in {"top", "exit"}
    BY <1>3, <2>1 DEF RecvEnd, Places, Fill
  <2>3. UNCHANGED <<prc, bEmpty, ppc, lockR, ring, bcr, icr, biterEmpty, biterFull, ipc, item,
                    apc, arrivals, calls, outReset>>
    BY <1>3 DEF RecvEnd, procVars, iterVars, appVars, biterVars
  <2>4. QED
    BY <2>2, <2>3 DEF Places
<1>4. CASE ProcTop \/ ProcWait
  <2>1. ppc \in {"top", "wait"} /\ ppc' \in {"exit", "wait", "handle"} /\ bFull' \in Nat
    BY <1>4 DEF Places, ProcTop, ProcWait
  <2>2. UNCHANGED <<buffer, rc, prc, bEmpty, rpc, lockR, ring, bcr, icr, biterEmpty, biterFull,
                    ipc, item, apc, arrivals, calls, outReset>>
    BY <1>4 DEF ProcTop, ProcWait, recvVars, procVars, iterVars, appVars, biterVars
  <2>3. QED
    BY <2>1, <2>2 DEF Places
<1>5. CASE ProcHandle \/ ProcHandleStale
  <2>1. lockR' = TRUE /\ ppc' \in {"room", "count"}
    BY <1>5 DEF ProcHandle, ProcHandleStale
  <2>2. lockR' \in BOOLEAN /\ lockR'
    BY <2>1
  <2>3. UNCHANGED <<buffer, rc, prc, bEmpty, bFull, rpc, ring, bcr, icr, biterEmpty, biterFull,
                    ipc, item, apc, arrivals, calls, outReset>>
    BY <1>5 DEF ProcHandle, ProcHandleStale, recvVars, iterVars, appVars, biterVars
  <2>4. QED
    BY <2>1, <2>2, <2>3 DEF Places
<1>6. CASE BlockCompleted
  <2>1. buffer[prc].n \in 0..MaxPackets
    BY SlotNumber DEF Places
  <2>2. (bcr + 1) % NBiter \in 0..NBiter-1
    BY Sizes, NextSlot DEF Places
  <2>3. /\ ring' \in [0..NBiter-1 -> 0..MaxPackets] /\ bcr' \in 0..NBiter-1
        /\ biterEmpty' \in Nat /\ biterFull' \in Nat
    BY <1>6, <2>1, <2>2 DEF Places, BlockCompleted
  <2>4. ppc = "room" /\ ppc' = "count"
    BY <1>6 DEF BlockCompleted
  <2>5. UNCHANGED <<buffer, rc, prc, bEmpty, bFull, rpc, lockR, icr, ipc, item, apc, arrivals,
                    calls, outReset>>
    BY <1>6 DEF BlockCompleted, recvVars, iterVars, appVars
  <2>6. QED
    BY <2>3, <2>4, <2>5 DEF Places
<1>7. CASE ProcCount
  <2>1. (prc + 1) % BufN \in 0..BufN-1
    BY Sizes, NextSlot DEF Places
  <2>2. lockR' \in BOOLEAN /\ ~lockR' /\ ppc' = "top"
    BY <1>7 DEF ProcCount
  <2>3. prc' \in 0..BufN-1 /\ bEmpty' \in Nat
    BY <1>7, <2>1 DEF ProcCount, Places
  <2>4. UNCHANGED <<buffer, rc, bFull, rpc, ring, bcr, icr, biterEmpty, biterFull, ipc, item,
                    apc, arrivals, calls, outReset>>
    BY <1>7 DEF ProcCount, recvVars, iterVars, appVars, biterVars
  <2>5. QED
    BY <2>2, <2>3, <2>4 DEF Places
<1>8. CASE IterNext \/ IterReturn
  <2>1. ipc' \in {"idle", "wait", "stop"} /\ item' \in 0..MaxPackets
    BY <1>8, Sizes DEF Places, IterNext, IterReturn
  <2>2. UNCHANGED <<buffer, rc, prc, bEmpty, bFull, rpc, ppc, lockR, ring, bcr, icr, biterEmpty,
                    biterFull, apc, arrivals, calls, outReset>>
    BY <1>8 DEF IterNext, IterReturn, recvVars, procVars, iterVars, appVars, biterVars
  <2>3. QED
    BY <2>1, <2>2 DEF Places
<1>9. CASE IterTake
  <2>1. (icr + 1) % NBiter \in 0..NBiter-1
    BY Sizes, NextSlot DEF Places
  <2>2. /\ icr' \in 0..NBiter-1 /\ item' \in 0..MaxPackets /\ ipc' = "back"
        /\ biterEmpty' \in Nat /\ biterFull' \in Nat
    BY <1>9, <2>1 DEF IterTake, Places
  <2>3. UNCHANGED <<buffer, rc, prc, bEmpty, bFull, rpc, ppc, lockR, ring, bcr, apc, arrivals,
                    calls, outReset>>
    BY <1>9 DEF IterTake, recvVars, procVars, appVars
  <2>4. QED
    BY <2>2, <2>3 DEF Places
<1>10. CASE GetInStatsCall \/ GetInStats \/ GetOutStats \/ GetBwMsg
  <2>1. apc' \in {"idle", "inStats"} /\ calls' \in 0..MaxCalls
    BY <1>10, Sizes DEF Places, GetInStatsCall, GetInStats, GetOutStats, GetBwMsg, Call
  <2>2. outReset' = outReset \/ outReset' = TRUE
    BY <1>10 DEF GetInStatsCall, GetInStats, GetOutStats, GetBwMsg
  <2>3. UNCHANGED <<buffer, rc, prc, bEmpty, bFull, rpc, ppc, lockR, ring, bcr, icr, biterEmpty,
                    biterFull, ipc, item, arrivals>>
    BY <1>10 DEF GetInStatsCall, GetInStats, GetOutStats, GetBwMsg, Call, recvVars, procVars,
           iterVars, appVars, biterVars
  <2>4. QED
    BY <2>1, <2>2, <2>3 DEF Places
<1>11. CASE DieKill \/ DiePost \/ DieEnd
  <2>1. /\ apc' \in {"post", "join", "shut", "dead"}
        /\ biterFull' \in Nat /\ bEmpty' \in Nat /\ bFull' \in Nat
    <3>1. CASE DieKill
      BY <3>1 DEF Places, DieKill
    <3>2. CASE DiePost
      BY <3>2 DEF Places, DiePost, biterVars
    <3>3. CASE DieEnd
      BY <3>3 DEF Places, DieEnd, biterVars
    <3>4. QED
      BY <1>11, <3>1, <3>2, <3>3
  <2>2. outReset' = outReset \/ outReset' = FALSE
    BY <1>11 DEF DieKill, DiePost, DieEnd
  <2>3. UNCHANGED <<buffer, rc, prc, rpc, ppc, lockR, ring, bcr, icr, biterEmpty, ipc, item,
                    arrivals, calls>>
    BY <1>11 DEF DieKill, DiePost, DieEnd, recvVars, procVars, iterVars, appVars, biterVars
  <2>4. lockR' \in BOOLEAN /\ (lockR' <=> ppc' \in {"room", "count"})
    BY <2>3 DEF Places
  <2>5. outReset' \in BOOLEAN
    BY <2>2 DEF Places
  <2>6. apc' \in {"idle", "inStats", "post", "join", "shut", "dead"}
    BY <2>1
  <2>7. QED
    BY <2>1, <2>3, <2>4, <2>5, <2>6 DEF Places
<1>12. CASE UNCHANGED vars
  BY <1>12 DEF Places, vars, recvVars, procVars, iterVars, appVars, biterVars
<1>13. QED
  BY <1>1, <1>2, <1>3, <1>4, <1>5, <1>6, <1>7, <1>8, <1>9, <1>10, <1>11, <1>12
     DEF Next, Processor, Iterator
(* The steps of die() leave nothing to be shown, and neither does the end  *)
(* of recvfrom.                                                            *)
LEMMA DeadAfter == ASSUME Places, RecvEnd \/ DieKill \/ DiePost \/ DieEnd PROVE death'
<1>1. CASE RecvEnd
  <2>1. apc' = apc /\ apc \in {"shut", "dead"}
    BY <1>1 DEF RecvEnd, appVars
  <2>2. QED
    BY <2>1 DEF death
<1>2. CASE DieKill \/ DiePost \/ DieEnd
  BY <1>2 DEF DieKill, DiePost, DieEnd, death
<1>3. QED
  BY <1>1, <1>2

(* recvfrom puts a datagram into the first free slot. *)
LEMMA FlightRecv ==
  ASSUME Places, Flight, Numbered, RecvPacket
  PROVE  Flight' /\ Numbered'
<1>1. PICK d \in Traffic[arrivals'] :
        /\ Fill([n |-> arrivals', d |-> d])
        /\ inflight' = Append(inflight, [n |-> arrivals', d |-> d])
  BY DEF RecvPacket
<1> DEFINE nd == [n |-> arrivals', d |-> d]
<1>2. arrivals' = arrivals + 1 /\ arrivals' \in 1..MaxPackets
  BY Sizes DEF RecvPacket, Places
<1>3. nd \in Datagram /\ nd.n = arrivals'
  BY <1>1, <1>2 DEF Datagram, Arriving
<1> HIDE DEF nd
<1>4. /\ buffer' = [buffer EXCEPT ![rc] = nd] /\ rc' = (rc + 1) % BufN
      /\ bFull' = bFull + 1 /\ rpc' = "top" /\ inflight' = Append(inflight, nd)
  BY <1>1 DEF Fill, nd
<1>5. rpc = "recv" /\ UNCHANGED <<prc, ppc, bEmpty>>
  BY DEF RecvPacket, procVars
<1>6. inflight \in Seq(Datagram) /\ Len(inflight) \in Nat /\ Len(inflight) < BufN
  <2>1. inflight \in Seq(Datagram)
    BY DEF Flight
  <2>2. Len(inflight) \in Nat
    BY <2>1
  <2>3. bEmpty + Len(inflight) + 1 = BufN
    BY <1>5 DEF Flight
  <2>4. bEmpty \in Nat /\ BufN \in Nat
    BY Sizes DEF Places
  <2>5. QED
    BY <2>1, <2>2, <2>3, <2>4
<1>7. /\ Holds(buffer', BufN, prc, inflight')
      /\ rc' = At(BufN, prc, Len(inflight'))
  <2>1. BufN \in Nat \ {0} /\ prc \in 0..BufN-1
    BY Sizes DEF Places
  <2>2. buffer \in [0..BufN-1 -> Datagram \cup {Nothing}]
    BY DEF Places
  <2>3. Holds(buffer, BufN, prc, inflight) /\ rc = At(BufN, prc, Len(inflight))
    BY DEF Flight
  <2>4. /\ Holds([buffer EXCEPT ![rc] = nd], BufN, prc, Append(inflight, nd))
        /\ (rc + 1) % BufN = At(BufN, prc, Len(Append(inflight, nd)))
    BY <1>3, <1>6, <2>1, <2>2, <2>3, RingPut
  <2>5. QED
    BY <1>4, <2>4
<1>8. inflight' \in Seq(Datagram) /\ Len(inflight') = Len(inflight) + 1
  BY <1>3, <1>4, <1>6
<1>9. Flight'
  <2>1. /\ bFull \in Nat /\ bEmpty \in Nat /\ Busy' = Busy
        /\ Len(inflight) = bFull + IF Busy THEN 1 ELSE 0
        /\ bEmpty + Len(inflight) + 1 = BufN
    BY <1>5 DEF Flight, Places, Busy
  <2>2. Len(inflight') = bFull' + IF Busy' THEN 1 ELSE 0
    BY <1>4, <1>6, <1>8, <2>1
  <2>3. bEmpty' + Len(inflight') + (IF rpc' = "recv" THEN 1 ELSE 0) = BufN
    BY <1>4, <1>5, <1>6, <1>8, <2>1
  <2>4. QED
    BY <1>5, <1>7, <1>8, <2>2, <2>3 DEF Flight
<1>10. \A i \in 1..Len(inflight') :
         \/ i \in 1..Len(inflight) /\ inflight'[i] = inflight[i]
         \/ i = Len(inflight) + 1 /\ inflight'[i] = nd
  BY <1>3, <1>4, <1>6
<1>11. \A i \in 1..Len(inflight) : inflight[i].n \in Nat /\ inflight[i].n <= arrivals
  <2>1. \A i \in 1..Len(inflight) : inflight[i] \in Datagram
    BY <1>6
  <2>2. \A x \in Datagram : x.n \in Nat
    BY Sizes DEF Datagram
  <2>3. QED
    BY <2>1, <2>2 DEF Numbered
<1>12. \A i \in 1..Len(inflight') : inflight'[i].n <= arrivals'
  <2>1. arrivals \in Nat
    BY Sizes DEF Places
  <2>2. QED
    BY <1>2, <1>3, <1>10, <1>11, <2>1
<1>13. ASSUME NEW i \in 1..Len(inflight')-1 PROVE inflight'[i].n < inflight'[i+1].n
  <2>1. i \in 1..Len(inflight) /\ inflight'[i] = inflight[i]
    BY <1>6, <1>8, <1>10
  <2>2. CASE i = Len(inflight)
    <3>1. i + 1 \in 1..Len(inflight') /\ i + 1 \notin 1..Len(inflight)
      BY <1>6, <1>8, <2>2
    <3>2. inflight'[i+1] = nd
      BY <1>10, <3>1
    <3>3. QED
      BY <1>2, <1>3, <1>11, <2>1, <3>2, Sizes DEF Places
  <2>3. CASE i # Len(inflight)
    <3>1. i \in 1..Len(inflight)-1 /\ i + 1 \in 1..Len(inflight) /\ i + 1 \in 1..Len(inflight')
      BY <1>6, <1>8, <2>1, <2>3
    <3>2. inflight'[i+1] = inflight[i+1]
      BY <1>6, <1>10, <3>1
    <3>3. QED
      BY <2>1, <3>1, <3>2 DEF Numbered
  <2>4. QED
    BY <2>2, <2>3
<1>14. QED
  BY <1>9, <1>12, <1>13 DEF Numbered

(* The processor gives the slot of the datagram it has handled back. *)
LEMMA FlightCount ==
  ASSUME Places, Flight, Numbered, ProcCount
  PROVE  /\ inflight # <<>> /\ inflight' = Tail(inflight) /\ Len(inflight') = Len(inflight) - 1
         /\ Flight' /\ Numbered'
<1>1. ppc = "count" /\ Busy
  BY DEF ProcCount, Busy
<1>2. inflight # <<>> /\ inflight \in Seq(Datagram) /\ Len(inflight) \in Nat
  BY <1>1, Front DEF Flight
<1>3. /\ inflight' = Tail(inflight) /\ prc' = (prc + 1) % BufN /\ bEmpty' = bEmpty + 1
      /\ ppc' = "top" /\ UNCHANGED <<buffer, rc, rpc, arrivals, bFull>>
  BY <1>2 DEF ProcCount, Received, recvVars
<1>4. /\ inflight' \in Seq(Datagram) /\ Len(inflight') = Len(inflight) - 1
      /\ \A i \in 1..Len(inflight') : i + 1 \in 1..Len(inflight) /\ inflight'[i] = inflight[i+1]
  BY <1>2, <1>3
<1>5. Len(inflight) <= BufN
  BY <1>2, Sizes DEF Flight, Places
<1>6. Holds(buffer, BufN, prc', inflight') /\ At(BufN, prc', Len(inflight')) = rc
  BY <1>2, <1>3, <1>5, Sizes, RingGet DEF Flight, Places
<1>7. Flight'
  <2>1. Len(inflight') = bFull' + IF Busy' THEN 1 ELSE 0
    BY <1>1, <1>3, <1>4 DEF Flight, Places, Busy
  <2>2. bEmpty' + Len(inflight') + (IF rpc' = "recv" THEN 1 ELSE 0) = BufN
    <3>1. /\ bEmpty \in Nat /\ BufN \in Nat
          /\ bEmpty + Len(inflight) + (IF rpc = "recv" THEN 1 ELSE 0) = BufN
      BY Sizes DEF Flight, Places
    <3>2. QED
      BY <1>2, <1>3, <1>4, <3>1
  <2>3. QED
    BY <1>3, <1>4, <1>6, <2>1, <2>2 DEF Flight
<1>8. Numbered'
  <2>1. \A i \in 1..Len(inflight') : inflight'[i].n <= arrivals'
    BY <1>3, <1>4 DEF Numbered
  <2>2. ASSUME NEW i \in 1..Len(inflight')-1 PROVE inflight'[i].n < inflight'[i+1].n
    <3>1. i \in 1..Len(inflight') /\ i + 1 \in 1..Len(inflight')
      BY <1>2, <1>4
    <3>2. inflight'[i] = inflight[i+1] /\ inflight'[i+1] = inflight[(i+1)+1]
      BY <1>4, <3>1
    <3>3. i + 1 \in 1..Len(inflight)-1
      BY <1>2, <1>4
    <3>4. QED
      BY <3>2, <3>3 DEF Numbered
  <2>3. QED
    BY <2>1, <2>2 DEF Numbered
<1>9. QED
  BY <1>2, <1>3, <1>4, <1>7, <1>8

(* Every step until die() keeps the ring of datagrams. *)
LEMMA FlightStep ==
  ASSUME IInv, [Next]_vars, ~death'
  PROVE  Flight' /\ Numbered'
<1>a. Places /\ Flight /\ Numbered
  BY AliveBefore DEF IInv
<1>1. CASE RecvTop \/ RecvWait
  <2>1. UNCHANGED <<buffer, rc, prc, bFull, ppc, arrivals, inflight>>
    BY <1>1 DEF RecvTop, RecvWait, procVars
  <2>2. /\ bEmpty \in Nat /\ BufN \in Nat /\ Len(inflight) \in Nat
        /\ bEmpty + Len(inflight) + (IF rpc = "recv" THEN 1 ELSE 0) = BufN
    BY <1>a, Sizes DEF Flight, Places
  <2>3. CASE RecvTop
    <3>1. rpc = "top" /\ rpc' # "recv" /\ bEmpty' = bEmpty
      BY <2>3 DEF RecvTop
    <3>2. bEmpty' + Len(inflight) + (IF rpc' = "recv" THEN 1 ELSE 0) = BufN
      BY <2>2, <3>1
    <3>3. QED
      BY <1>a, <2>1, <3>2 DEF Flight, Numbered, Busy
  <2>4. CASE RecvWait
    <3>1. rpc = "wait" /\ rpc' = "recv" /\ bEmpty' = bEmpty - 1
      BY <2>4 DEF RecvWait
    <3>2. bEmpty' + Len(inflight) + (IF rpc' = "recv" THEN 1 ELSE 0) = BufN
      BY <2>2, <3>1
    <3>3. QED
      BY <1>a, <2>1, <3>2 DEF Flight, Numbered, Busy
  <2>5. QED
    BY <1>1, <2>3, <2>4
<1>2. CASE RecvPacket
  BY <1>a, <1>2, FlightRecv
<1>3. CASE ProcTop \/ ProcWait
  <2>1. UNCHANGED <<buffer, rc, prc, bEmpty, rpc, arrivals, inflight>>
    BY <1>3 DEF ProcTop, ProcWait, recvVars
  <2>2. Len(inflight) = bFull' + IF Busy' THEN 1 ELSE 0
    BY <1>a, <1>3 DEF ProcTop, ProcWait, Places, Flight, Busy
  <2>3. QED
    BY <1>a, <2>1, <2>2 DEF Flight, Numbered
<1>4. CASE ProcHandle \/ ProcHandleStale \/ BlockCompleted
  <2>1. UNCHANGED <<buffer, rc, prc, bEmpty, bFull, rpc, arrivals, inflight>>
    BY <1>4 DEF ProcHandle, ProcHandleStale, BlockCompleted, recvVars
  <2>2. Busy /\ Busy'
    BY <1>4 DEF ProcHandle, ProcHandleStale, BlockCompleted, Busy
  <2>3. QED
    BY <1>a, <2>1, <2>2 DEF Flight, Numbered
<1>5. CASE ProcCount
  BY <1>a, <1>5, FlightCount
<1>6. CASE RecvEnd \/ DieKill \/ DiePost \/ DieEnd
  BY <1>a, <1>6, DeadAfter
<1>7. CASE UNCHANGED <<buffer, rc, prc, bEmpty, bFull, rpc, ppc, arrivals, inflight>>
  BY <1>a, <1>7 DEF Flight, Numbered, Busy
<1>8. Iterator \/ GetInStatsCall \/ GetInStats \/ GetOutStats \/ GetBwMsg \/ UNCHANGED vars =>
        UNCHANGED <<buffer, rc, prc, bEmpty, bFull, rpc, ppc, arrivals, inflight>>
  BY DEF Iterator, IterNext, IterTake, IterReturn, GetInStatsCall, GetInStats, GetOutStats,
         GetBwMsg, vars, recvVars, procVars
<1>9. QED
  BY <1>1, <1>2, <1>3, <1>4, <1>5, <1>6, <1>7, <1>8 DEF Next, Processor
(* What the iterator's ring holds is a sequence of numbers. *)
LEMMA LiveType == ASSUME Announced PROVE Live \in Seq(1..MaxPackets) /\ Len(Live) \in Nat
<1>1. pending \in Seq(1..MaxPackets) /\ (ipc = "back" => pending # <<>>)
  BY DEF Announced
<1>2. pending # <<>> => Tail(pending) \in Seq(1..MaxPackets)
  BY <1>1
<1>3. Live \in Seq(1..MaxPackets)
  BY <1>1, <1>2 DEF Live
<1>4. QED
  BY <1>3

(* block_completed appends to what the ring holds. *)
LEMMA AnnouncedCompleted ==
  ASSUME Places, Flight, Announced, BlockCompleted, ~death
  PROVE  /\ pending' = Append(pending, Head(inflight).n)
         /\ Head(inflight).n \in 1..MaxPackets
         /\ Announced'
<1>1. ppc = "room" /\ Busy
  BY DEF BlockCompleted, Busy
<1>2. Head(inflight) \in Datagram /\ buffer[prc] = Head(inflight)
  BY <1>1, Front
<1>3. PICK v : v = Head(inflight).n /\ v = buffer[prc].n /\ v \in 1..MaxPackets
  BY <1>2 DEF Datagram
<1>4. /\ biterEmpty > 0 /\ biterEmpty' = biterEmpty - 1 /\ biterFull' = biterFull + 1
      /\ ring' = [ring EXCEPT ![bcr] = v] /\ bcr' = (bcr + 1) % NBiter
      /\ pending' = Append(pending, v) /\ UNCHANGED <<icr, ipc, item>>
  BY <1>3 DEF BlockCompleted, iterVars
<1>5. Live \in Seq(1..MaxPackets) /\ Len(Live) \in Nat /\ pending \in Seq(1..MaxPackets)
  BY LiveType DEF Announced
<1>6. Live' = Append(Live, v)
  <2>1. CASE ipc = "back"
    <3>1. pending # <<>>
      BY <2>1 DEF Announced
    <3>2. Tail(Append(pending, v)) = Append(Tail(pending), v)
      BY <1>3, <1>5, <3>1
    <3>3. QED
      BY <1>4, <2>1, <3>2 DEF Live
  <2>2. CASE ipc # "back"
    BY <1>4, <2>2 DEF Live
  <2>3. QED
    BY <2>1, <2>2
<1>7. Len(Live) < NBiter /\ Len(Live) = biterFull
  BY <1>4, Sizes DEF Announced, Places
<1>8. /\ Holds(ring', NBiter, icr, Live')
      /\ bcr' = At(NBiter, icr, Len(Live'))
  <2>1. NBiter \in Nat \ {0} /\ icr \in 0..NBiter-1
    BY Sizes DEF Places
  <2>2. ring \in [0..NBiter-1 -> 0..MaxPackets]
    BY DEF Places
  <2>3. Holds(ring, NBiter, icr, Live) /\ bcr = At(NBiter, icr, Len(Live))
    BY DEF Announced
  <2>4. /\ Holds([ring EXCEPT ![bcr] = v], NBiter, icr, Append(Live, v))
        /\ (bcr + 1) % NBiter = At(NBiter, icr, Len(Append(Live, v)))
    <3> DEFINE S == 1..MaxPackets
               V == 0..MaxPackets
    <3>1. Live \in Seq(S) /\ v \in S /\ ring \in [0..NBiter-1 -> V]
      BY <1>3, <1>5, <2>2
    <3> HIDE DEF S, V
    <3>2. QED
      BY <1>7, <2>1, <2>3, <3>1, RingPut
  <2>5. QED
    BY <1>4, <1>6, <2>4
<1>9. Len(Live') = biterFull' /\ biterEmpty' + biterFull' = NBiter
  <2>1. Len(Append(Live, v)) = Len(Live) + 1
    BY <1>3, <1>5
  <2>2. biterEmpty \in Nat /\ biterFull \in Nat /\ biterEmpty + biterFull = NBiter
    BY DEF Announced, Places
  <2>3. QED
    BY <1>4, <1>6, <1>7, <2>1, <2>2, Sizes
<1>10. pending' \in Seq(1..MaxPackets) /\ pending' # <<>>
  BY <1>3, <1>4, <1>5
<1>11. ipc' = "back" => item' = Head(pending')
  <2>1. SUFFICES ASSUME ipc = "back" PROVE item = Head(Append(pending, v))
    BY <1>4
  <2>2. pending # <<>> /\ item = Head(pending)
    BY <2>1 DEF Announced
  <2>3. QED
    BY <1>3, <1>5, <2>2
<1>12. QED
  BY <1>3, <1>4, <1>8, <1>9, <1>10, <1>11 DEF Announced

(* The iterator takes the first of what the ring holds. *)
LEMMA AnnouncedTake == ASSUME Places, Announced, IterTake PROVE Announced'
<1>1. /\ ipc = "wait" /\ ipc' = "back" /\ biterFull > 0 /\ biterFull' = biterFull - 1
      /\ item' = ring[icr] /\ icr' = (icr + 1) % NBiter /\ biterEmpty' = biterEmpty + 1
      /\ UNCHANGED <<ring, bcr, pending>>
  BY DEF IterTake
<1>2. Live = pending /\ Live' = Tail(pending)
  BY <1>1 DEF Live
<1>3. /\ pending \in Seq(1..MaxPackets) /\ Len(pending) = biterFull
      /\ biterEmpty + biterFull = NBiter
      /\ Holds(ring, NBiter, icr, pending) /\ bcr = At(NBiter, icr, Len(pending))
  BY <1>2 DEF Announced
<1>4. biterFull \in Nat /\ biterEmpty \in Nat /\ icr \in 0..NBiter-1 /\ NBiter \in Nat \ {0}
  BY Sizes DEF Places
<1>5. pending # <<>> /\ Len(pending) <= NBiter /\ Len(Tail(pending)) = Len(pending) - 1
  BY <1>1, <1>3, <1>4
<1>6. /\ ring[icr] = Head(pending) /\ Holds(ring, NBiter, icr', Tail(pending))
      /\ At(NBiter, icr', Len(Tail(pending))) = bcr
  BY <1>1, <1>3, <1>4, <1>5, RingGet
<1>7. Len(Live') = biterFull' /\ biterEmpty' + biterFull' = NBiter
  BY <1>1, <1>2, <1>3, <1>4, <1>5
<1>8. QED
  BY <1>1, <1>2, <1>3, <1>5, <1>6, <1>7 DEF Announced

(* Every step until die() keeps the iterator's ring. *)
LEMMA AnnouncedStep ==
  ASSUME IInv, [Next]_vars, ~death'
  PROVE  Announced'
<1>a. Places /\ Flight /\ Announced /\ ~death
  BY AliveBefore DEF IInv
<1>1. CASE BlockCompleted
  BY <1>a, <1>1, AnnouncedCompleted
<1>2. CASE IterNext
  <2>1. ipc # "back" /\ ipc' # "back"
    BY <1>2 DEF IterNext
  <2>2. UNCHANGED <<pending, ring, bcr, icr, biterEmpty, biterFull>>
    BY <1>2 DEF IterNext, biterVars
  <2>3. QED
    BY <1>a, <2>1, <2>2 DEF Announced, Live
<1>3. CASE IterTake
  BY <1>a, <1>3, AnnouncedTake
<1>4. CASE IterReturn
  <2>1. ipc = "back" /\ ipc' = "idle" /\ pending' = Tail(pending)
    BY <1>a, <1>4 DEF IterReturn
  <2>2. UNCHANGED <<ring, bcr, icr, biterEmpty, biterFull>>
    BY <1>4 DEF IterReturn, biterVars
  <2>3. Live = pending' /\ Live' = pending'
    BY <2>1 DEF Live
  <2>4. pending' \in Seq(1..MaxPackets)
    BY <1>a, <2>3, LiveType
  <2>5. QED
    BY <1>a, <2>1, <2>2, <2>3, <2>4 DEF Announced
<1>5. CASE RecvEnd \/ DieKill \/ DiePost \/ DieEnd
  BY <1>a, <1>5, DeadAfter
<1>6. CASE UNCHANGED <<pending, ipc, item, ring, bcr, icr, biterEmpty, biterFull>>
  BY <1>a, <1>6 DEF Announced, Live
<1>7. RecvTop \/ RecvWait \/ RecvPacket \/ ProcTop \/ ProcWait \/ ProcHandle \/ ProcHandleStale
        \/ ProcCount \/ GetInStatsCall \/ GetInStats \/ GetOutStats \/ GetBwMsg \/ UNCHANGED vars =>
        UNCHANGED <<pending, ipc, item, ring, bcr, icr, biterEmpty, biterFull>>
  BY DEF RecvTop, RecvWait, RecvPacket, ProcTop, ProcWait, ProcHandle, ProcHandleStale, ProcCount,
         GetInStatsCall, GetInStats, GetOutStats, GetBwMsg, vars, iterVars, biterVars
<1>8. QED
  BY <1>1, <1>2, <1>3, <1>4, <1>5, <1>6, <1>7 DEF Next, Processor, Iterator

(* Every step until die() keeps the order of what was announced. *)
LEMMA OrderedStep ==
  ASSUME IInv, [Next]_vars, ~death'
  PROVE  Ordered'
<1>a. Places /\ Flight /\ Numbered /\ Announced /\ Ordered /\ ~death
  BY AliveBefore DEF IInv
<1>b. /\ pending \in Seq(1..MaxPackets) /\ Len(pending) \in Nat
      /\ \A i \in 1..Len(pending) : pending[i] \in Nat
  BY <1>a, Sizes DEF Announced
<1>c. /\ inflight \in Seq(Datagram) /\ Len(inflight) \in Nat
      /\ \A i \in 1..Len(inflight) : inflight[i].n \in Nat
  <2>1. \A x \in Datagram : x.n \in Nat
    BY Sizes DEF Datagram
  <2>2. QED
    BY <1>a, <2>1 DEF Flight
<1>1. CASE BlockCompleted
  <2>1. PICK v \in 1..MaxPackets : v = Head(inflight).n /\ pending' = Append(pending, v)
    BY <1>a, <1>1, AnnouncedCompleted
  <2>2. ppc = "room" /\ ppc' = "count" /\ UNCHANGED <<inflight, arrivals>>
    BY <1>1 DEF BlockCompleted, recvVars
  <2>3. inflight # <<>> /\ Head(inflight) = inflight[1] /\ 1 \in 1..Len(inflight)
    BY <1>a, <1>c, <2>2, Front DEF Busy
  <2>4. v <= arrivals /\ \A i \in 1..Len(pending) : pending[i] < v /\ pending[i] <= arrivals
    BY <1>a, <2>1, <2>2, <2>3 DEF Ordered, Numbered, Received
  <2>5. /\ Len(pending') = Len(pending) + 1 /\ pending'[Len(pending) + 1] = v
        /\ \A i \in 1..Len(pending) : pending'[i] = pending[i]
    BY <1>b, <2>1
  <2>6. ASSUME NEW i \in 1..Len(pending')-1 PROVE pending'[i] < pending'[i+1]
    <3>1. CASE i = Len(pending)
      BY <1>b, <2>4, <2>5, <3>1
    <3>2. CASE i # Len(pending)
      <4>1. i \in 1..Len(pending)-1 /\ i \in 1..Len(pending) /\ i + 1 \in 1..Len(pending)
        BY <1>b, <2>5, <3>2
      <4>2. QED
        BY <1>a, <2>5, <4>1 DEF Ordered
    <3>3. QED
      BY <3>1, <3>2
  <2>7. \A i \in 1..Len(pending') : i \in 1..Len(pending) \/ i = Len(pending) + 1
    BY <1>b, <2>5
  <2>8. \A i \in 1..Len(pending') : pending'[i] <= arrivals'
    BY <2>2, <2>4, <2>5, <2>7
  <2>9. \A i \in 1..Len(pending') : pending'[i] < v \/ pending'[i] = v
    BY <2>4, <2>5, <2>7
  <2>10. QED
    BY <2>1, <2>2, <2>6, <2>8, <2>9 DEF Ordered
<1>2. CASE IterReturn
  <2>1. pending # <<>> /\ pending' = Tail(pending)
    BY <1>a, <1>2 DEF IterReturn, Announced
  <2>2. UNCHANGED <<ppc, inflight, arrivals>>
    BY <1>2 DEF IterReturn, recvVars, procVars
  <2>3. /\ Len(pending') = Len(pending) - 1
        /\ \A i \in 1..Len(pending') : i + 1 \in 1..Len(pending) /\ pending'[i] = pending[i+1]
    BY <1>b, <2>1
  <2>4. ASSUME NEW i \in 1..Len(pending')-1 PROVE pending'[i] < pending'[i+1]
    <3>1. i \in 1..Len(pending') /\ i + 1 \in 1..Len(pending') /\ i + 1 \in 1..Len(pending)-1
      BY <1>b, <2>3
    <3>2. QED
      BY <1>a, <2>3, <3>1 DEF Ordered
  <2>5. QED
    BY <1>a, <2>2, <2>3, <2>4 DEF Ordered, Received
<1>3. CASE RecvPacket
  <2>1. PICK nd : inflight' = Append(inflight, nd) /\ nd.n = arrivals' /\ nd \in Datagram
    <3>1. PICK d \in Traffic[arrivals'] : inflight' = Append(inflight, [n |-> arrivals', d |-> d])
      BY <1>3 DEF RecvPacket
    <3>2. arrivals' \in 1..MaxPackets
      BY <1>a, <1>3, Sizes DEF RecvPacket, Places
    <3>3. [n |-> arrivals', d |-> d] \in Datagram
      BY <3>1, <3>2 DEF Datagram, Arriving
    <3>4. QED
      BY <3>1, <3>3
  <2>2. arrivals' = arrivals + 1 /\ arrivals \in Nat /\ UNCHANGED <<pending, ppc>>
    BY <1>a, <1>3 DEF RecvPacket, procVars, Places
  <2>3. \A i \in 1..Len(pending) : pending[i] <= arrivals' /\ pending[i] < arrivals'
    BY <1>a, <1>b, <2>2 DEF Ordered
  <2>4. Head(inflight') = IF inflight = <<>> THEN nd ELSE Head(inflight)
    BY <1>c, <2>1
  <2>5. CASE inflight = <<>>
    BY <1>a, <2>1, <2>2, <2>3, <2>4, <2>5 DEF Ordered
  <2>6. CASE inflight # <<>>
    BY <1>a, <2>2, <2>3, <2>4, <2>6 DEF Ordered, Received
  <2>7. QED
    BY <2>5, <2>6
<1>4. CASE ProcCount
  <2>1. /\ inflight # <<>> /\ inflight' = Tail(inflight) /\ Len(inflight') = Len(inflight) - 1
    BY <1>a, <1>4, FlightCount
  <2>2. UNCHANGED <<pending, arrivals>>
    BY <1>4 DEF ProcCount, recvVars
  <2>3. CASE inflight' = <<>>
    BY <1>a, <2>2, <2>3 DEF Ordered, Received
  <2>4. CASE inflight' # <<>>
    <3>1. 1 \in 1..Len(inflight)-1 /\ 1 \in 1..Len(inflight) /\ 2 \in 1..Len(inflight)
      BY <1>c, <2>1, <2>4
    <3>2. Head(inflight) = inflight[1] /\ Head(inflight') = inflight[2]
      BY <1>c, <2>1, <2>4
    <3>3. inflight[1].n < inflight[1+1].n
      BY <1>a, <3>1 DEF Numbered
    <3>4. \A i \in 1..Len(pending) : pending[i] < inflight[1].n \/ pending[i] = inflight[1].n
      BY <1>a, <2>1, <3>2 DEF Ordered, Received
    <3>5. \A i \in 1..Len(pending) : pending[i] < inflight[2].n
      BY <1>b, <1>c, <3>1, <3>3, <3>4
    <3>6. QED
      BY <1>a, <2>2, <3>2, <3>5 DEF Ordered
  <2>5. QED
    BY <2>3, <2>4
<1>5. CASE ProcTop \/ ProcWait \/ ProcHandle \/ ProcHandleStale
  <2>1. ppc # "count" /\ UNCHANGED <<pending, inflight, arrivals>>
    BY <1>5 DEF ProcTop, ProcWait, ProcHandle, ProcHandleStale, recvVars
  <2>2. QED
    BY <1>a, <2>1 DEF Ordered, Received
<1>6. CASE RecvEnd \/ DieKill \/ DiePost \/ DieEnd
  BY <1>a, <1>6, DeadAfter
<1>7. CASE UNCHANGED <<pending, inflight, arrivals, ppc>>
  BY <1>a, <1>7 DEF Ordered, Received
<1>8. RecvTop \/ RecvWait \/ IterNext \/ IterTake \/ GetInStatsCall \/ GetInStats \/ GetOutStats
        \/ GetBwMsg \/ UNCHANGED vars => UNCHANGED <<pending, inflight, arrivals, ppc>>
  BY DEF RecvTop, RecvWait, IterNext, IterTake, GetInStatsCall, GetInStats, GetOutStats, GetBwMsg,
         vars, recvVars, procVars
<1>9. QED
  BY <1>1, <1>2, <1>3, <1>4, <1>5, <1>6, <1>7, <1>8 DEF Next, Processor, Iterator
(* The processor handles a datagram: what it adds to the counters, and     *)
(* what it still has to add, is what is due.                               *)
LEMMA CountedHandle ==
  ASSUME Places, Flight, Counted, ProcHandle, ~death
  PROVE  Counted'
<1>1. ppc = "handle" /\ Busy /\ ~lockR /\ UNCHANGED <<inflight, outReset>>
  BY DEF ProcHandle, Busy, appVars
<1>2. PICK d : d = Head(inflight).d /\ d = buffer[prc].d /\ Proper(d)
  BY <1>1, Front
<1>3. PICK ans \in Answers(Handling(d)) :
        /\ stats' = Plus(stats, Handled(d, Handling(d), ans))
        /\ due' = Plus(due, Due(d, Handling(d) \cup {ans}))
        /\ last' = Handling(d)
  BY <1>2 DEF ProcHandle, Count
<1>4. PICK h, f, g : /\ h = Handled(d, Handling(d), ans) /\ f = Fin(d)
                     /\ g = Due(d, Handling(d) \cup {ans})
  OBVIOUS
<1>5. /\ h \in [Counters -> Nat] /\ f \in [Counters -> Nat]
      /\ \A x \in Counters : g[x] = h[x] + f[x]
  BY <1>2, <1>4, CountedInTwoParts
<1>6. lockR' /\ Rest' = f
  <2>1. lockR' = TRUE
    BY DEF ProcHandle
  <2>2. QED
    BY <1>1, <1>2, <1>4, <2>1 DEF Rest
<1>7. stats \in [Counters -> Nat] /\ due \in [Counters -> Int]
  BY DEF Counted
<1>8. \A x \in Counters : /\ stats'[x] = stats[x] + h[x] /\ due'[x] = due[x] + g[x]
                          /\ stats[x] \in Nat /\ due[x] \in Int
                          /\ h[x] \in Nat /\ f[x] \in Nat /\ g[x] = h[x] + f[x]
  BY <1>3, <1>4, <1>5, <1>7 DEF Plus
<1>9. stats' \in [Counters -> Nat] /\ due' \in [Counters -> Int]
  <2>1. \A x \in Counters : stats[x] + h[x] \in Nat /\ due[x] + g[x] \in Int
    BY <1>8
  <2>2. QED
    BY <1>3, <1>4, <2>1 DEF Plus
<1>10. \A x \in Counters : Rest[x] = 0
  BY <1>1 DEF Rest, Zero
<1>11. /\ \A x \in Counters : stats'[x] + f[x] <= due'[x]
       /\ ~outReset => \A x \in Counters : stats'[x] + f[x] = due'[x]
  <2>1. /\ \A x \in Counters : stats[x] <= due[x]
        /\ ~outReset => \A x \in Counters : stats[x] = due[x]
    BY <1>8, <1>10 DEF Counted
  <2>2. QED
    BY <1>8, <2>1
<1>12. last' = Handling(Head(inflight').d)
  BY <1>1, <1>2, <1>3
<1>13. QED
  BY <1>1, <1>6, <1>9, <1>11, <1>12 DEF Counted

(* The end of the loop adds the rest. *)
LEMMA CountedCount ==
  ASSUME Places, Flight, Counted, ProcCount, ~death
  PROVE  Counted'
<1>1. ppc = "count" /\ Busy /\ lockR /\ UNCHANGED <<due, outReset>>
  BY DEF ProcCount, Busy, Places, appVars
<1>2. PICK d : d = Head(inflight).d /\ d = buffer[prc].d /\ Proper(d) /\ buffer[prc] # Nothing
  BY <1>1, Front
<1>3. PICK f : f = Fin(d) /\ f \in [Counters -> Nat]
  BY <1>2, FinType
<1>4. stats' = Plus(stats, f)
  BY <1>2, <1>3 DEF ProcCount, Count, Fin
<1>5. Rest = f
  BY <1>1, <1>2, <1>3 DEF Rest
<1>6. /\ stats \in [Counters -> Nat] /\ due \in [Counters -> Int]
      /\ \A x \in Counters : stats[x] + f[x] <= due[x]
      /\ ~outReset => \A x \in Counters : stats[x] + f[x] = due[x]
  BY <1>5 DEF Counted
<1>7. ~lockR' /\ \A x \in Counters : Rest'[x] = 0
  <2>1. lockR' = FALSE
    BY DEF ProcCount
  <2>2. QED
    BY <2>1 DEF Rest, Zero
<1>8. \A x \in Counters : stats'[x] = stats[x] + f[x] /\ stats[x] + f[x] \in Nat
  BY <1>3, <1>4, <1>6 DEF Plus
<1>9. stats' \in [Counters -> Nat]
  BY <1>4, <1>8 DEF Plus
<1>10. \A x \in Counters : stats'[x] + Rest'[x] = stats[x] + f[x]
  BY <1>7, <1>8
<1>11. QED
  BY <1>1, <1>6, <1>7, <1>9, <1>10 DEF Counted

(* get_in_stats reports and resets the counters under stat_lock_r;         *)
(* get_out_stats resets them behind its back.                              *)
LEMMA CountedCalls ==
  ASSUME Places, Flight, Counted, GetInStats \/ GetOutStats
  PROVE  Counted'
<1>1. stats \in [Counters -> Nat] /\ due \in [Counters -> Int]
  BY DEF Counted
<1>a. UNCHANGED <<lockR, last, inflight>>
  BY DEF GetInStats, GetOutStats, procVars
<1>2. CASE GetInStats
  <2>1. ~lockR /\ outReset' = outReset
    BY <1>2 DEF GetInStats
  <2>2. (\A x \in Counters : Rest[x] = 0) /\ Rest' = Rest
    BY <1>a, <2>1 DEF Rest, Zero
  <2>3. CASE UNCHANGED <<stats, due>>
    BY <1>a, <2>1, <2>2, <2>3 DEF Counted
  <2>4. CASE ResetInCounters({}) /\ due' = [x \in Counters |-> due[x] - stats[x]]
    <3>1. stats' = [x \in Counters |-> 0]
      BY <2>4 DEF ResetInCounters
    <3>2. \A x \in Counters : /\ stats'[x] = 0 /\ due'[x] = due[x] - stats[x]
                              /\ stats[x] \in Nat /\ due[x] \in Int
      BY <1>1, <2>4, <3>1
    <3>3. /\ \A x \in Counters : stats[x] <= due[x]
          /\ ~outReset => \A x \in Counters : stats[x] = due[x]
      BY <2>2, <3>2 DEF Counted
    <3>4. stats' \in [Counters -> Nat] /\ due' \in [Counters -> Int]
      BY <2>4, <3>1, <3>2
    <3>5. /\ \A x \in Counters : stats'[x] + Rest'[x] <= due'[x]
          /\ ~outReset => \A x \in Counters : stats'[x] + Rest'[x] = due'[x]
      BY <2>2, <3>2, <3>3
    <3>6. QED
      BY <1>a, <2>1, <3>4, <3>5 DEF Counted
  <2>5. QED
    BY <1>2, <2>3, <2>4 DEF GetInStats, Report
<1>3. CASE GetOutStats
  <2>1. PICK kept : stats' = [x \in Counters |-> IF x \in kept THEN stats[x] ELSE 0]
    BY <1>3 DEF GetOutStats, ResetInCounters
  <2>2. outReset' = TRUE /\ due' = due
    BY <1>3 DEF GetOutStats
  <2>3. \A x \in Counters : stats[x] \in Nat /\ stats'[x] \in Nat /\ stats'[x] <= stats[x]
    BY <1>1, <2>1
  <2>4. stats' \in [Counters -> Nat]
    BY <2>1, <2>3
  <2>5. Rest' = Rest /\ \A x \in Counters : Rest[x] \in Nat
    <3>1. Rest' = Rest
      BY <1>a DEF Rest
    <3>2. CASE lockR
      <4>1. Busy
        BY <3>2 DEF Busy, Places
      <4>2. PICK d : d = Head(inflight).d /\ Proper(d)
        BY <4>1, Front
      <4>3. Fin(d) \in [Counters -> Nat]
        BY <4>2, FinType
      <4>4. QED
        BY <3>1, <3>2, <4>2, <4>3 DEF Rest
    <3>3. CASE ~lockR
      BY <3>1, <3>3 DEF Rest, Zero
    <3>4. QED
      BY <3>2, <3>3
  <2>6. \A x \in Counters : stats'[x] + Rest'[x] <= due'[x]
    <3>1. \A x \in Counters : stats[x] + Rest[x] <= due[x] /\ due[x] \in Int
      BY <1>1 DEF Counted
    <3>2. QED
      BY <2>2, <2>3, <2>5, <3>1
  <2>7. outReset'
    BY <2>2
  <2>8. QED
    BY <1>1, <1>a, <2>2, <2>4, <2>6, <2>7 DEF Counted
<1>4. QED
  BY <1>2, <1>3

(* Every step until die() keeps the counters. *)
LEMMA CountedStep ==
  ASSUME IInv, [Next]_vars, ~death'
  PROVE  Counted'
<1>a. Places /\ Flight /\ Counted /\ ~death
  BY AliveBefore DEF IInv
<1>1. CASE ProcHandle
  BY <1>a, <1>1, CountedHandle
<1>2. CASE ProcHandleStale
  <2>1. Busy /\ ~Received
    BY <1>2 DEF ProcHandleStale, Busy
  <2>2. QED
    BY <1>a, <2>1, Front DEF Received
<1>3. CASE ProcCount
  BY <1>a, <1>3, CountedCount
<1>4. CASE GetInStats \/ GetOutStats
  BY <1>a, <1>4, CountedCalls
<1>5. CASE RecvPacket
  <2>1. UNCHANGED <<lockR, last, stats, due, outReset>>
    BY <1>5 DEF RecvPacket, procVars, statVars, appVars
  <2>2. lockR => Head(inflight') = Head(inflight)
    <3>1. SUFFICES ASSUME lockR PROVE Head(inflight') = Head(inflight)
      OBVIOUS
    <3>2. Busy
      BY <1>a, <3>1 DEF Places, Busy
    <3>3. inflight # <<>> /\ inflight \in Seq(Datagram)
      BY <1>a, <3>2, Front DEF Flight
    <3>4. PICK nd : inflight' = Append(inflight, nd) /\ nd \in Datagram
      <4>1. PICK d \in Traffic[arrivals'] : inflight' = Append(inflight, [n |-> arrivals', d |-> d])
        BY <1>5 DEF RecvPacket
      <4>2. arrivals' \in 1..MaxPackets
        BY <1>a, <1>5, Sizes DEF RecvPacket, Places
      <4>3. [n |-> arrivals', d |-> d] \in Datagram
        BY <4>1, <4>2 DEF Datagram, Arriving
      <4>4. QED
        BY <4>1, <4>3
    <3>5. QED
      BY <3>3, <3>4
  <2>3. Rest' = Rest
    BY <2>1, <2>2 DEF Rest
  <2>4. QED
    BY <1>a, <2>1, <2>2, <2>3 DEF Counted
<1>6. CASE RecvEnd \/ DieKill \/ DiePost \/ DieEnd
  BY <1>a, <1>6, DeadAfter
<1>7. CASE UNCHANGED <<inflight, lockR, last, stats, due, outReset>>
  BY <1>a, <1>7 DEF Counted, Rest
<1>8. RecvTop \/ RecvWait \/ ProcTop \/ ProcWait \/ BlockCompleted \/ Iterator \/ GetInStatsCall
        \/ GetBwMsg \/ UNCHANGED vars => UNCHANGED <<inflight, lockR, last, stats, due, outReset>>
  BY DEF RecvTop, RecvWait, ProcTop, ProcWait, BlockCompleted, Iterator, IterNext, IterTake,
         IterReturn, GetInStatsCall, GetBwMsg, vars, procVars, statVars, appVars
<1>9. QED
  BY <1>1, <1>2, <1>3, <1>4, <1>5, <1>6, <1>7, <1>8 DEF Next, Processor

(* Initially both rings are empty and the counters zero. *)
LEMMA InvInit == ASSUME Init PROVE IInv
<1>1. Places
  <2>1. lockR \in BOOLEAN /\ ~lockR /\ outReset \in BOOLEAN
    BY DEF Init
  <2>2. QED
    BY <2>1, Sizes DEF Init, Places
<1>2. Flight /\ Numbered
  BY Sizes DEF Init, Flight, Numbered, Busy, Holds, At
<1>3. Announced /\ Ordered
  BY Sizes DEF Init, Announced, Ordered, Live, Holds, At, Received
<1>4. Counted
  <2>1. ~lockR
    BY DEF Init
  <2>2. QED
    BY <2>1 DEF Init, Counted, Rest, Zero
<1>5. QED
  BY <1>1, <1>2, <1>3, <1>4 DEF IInv

(* In every state reached, until die() both rings hold exactly what is on  *)
(* its way, in order, and the counters what was handled.                   *)
THEOREM TrafficHolds == Spec => []IInv
<1>1. Init => IInv
  BY InvInit
<1>2. IInv /\ [Next]_vars => IInv'
  <2>1. SUFFICES ASSUME IInv, [Next]_vars PROVE IInv'
    OBVIOUS
  <2>2. Places'
    BY <2>1, PlacesStep DEF IInv
  <2>3. ~death' => Flight' /\ Numbered' /\ Announced' /\ Ordered' /\ Counted'
    BY <2>1, FlightStep, AnnouncedStep, OrderedStep, CountedStep
  <2>4. QED
    BY <2>2, <2>3 DEF IInv
<1>3. QED
  BY <1>1, <1>2, PTL DEF Spec

(* Type correctness of the receiving side, with every slot of both rings   *)
(* accounted for.                                                          *)
THEOREM TypeCorrect == Spec => []TypeOK
<1>1. IInv => TypeOK
  <2>1. SUFFICES ASSUME IInv PROVE TypeOK
    OBVIOUS
  <2>2. Places
    BY <2>1 DEF IInv
  <2>3. DOMAIN buffer = 0..BufN-1
    BY <2>2 DEF Places
  <2>4. lockR = (ppc \in {"room", "count"})
    BY <2>2 DEF Places
  <2>5. ASSUME ~death
        PROVE  /\ bEmpty + bFull + (IF rpc = "recv" THEN 1 ELSE 0)
                    + (IF ppc = "handle" \/ lockR THEN 1 ELSE 0) = BufN
               /\ biterEmpty + biterFull = NBiter
    <3>1. Flight /\ Announced
      BY <2>1, <2>5 DEF IInv
    <3>2. Busy <=> (ppc = "handle" \/ lockR)
      BY <2>2 DEF Places, Busy
    <3>3. /\ Len(inflight) = bFull + IF Busy THEN 1 ELSE 0
          /\ bEmpty + Len(inflight) + (IF rpc = "recv" THEN 1 ELSE 0) = BufN
          /\ bEmpty \in Nat /\ bFull \in Nat
      BY <2>2, <3>1 DEF Flight, Places
    <3>4. QED
      BY <3>1, <3>2, <3>3, Sizes DEF Announced
  <2>6. QED
    BY <2>2, <2>3, <2>4, <2>5 DEF TypeOK, Places
<1>2. QED
  BY <1>1, TrafficHolds, PTL

(* The processor handles the datagrams in the order of their arrival, each *)
(* from a slot that nothing has overwritten, and each has the effect that  *)
(* it was sent for, but for the four kinds of Mishandled.                  *)
THEOREM HandledAsSentCorrect == Spec => []HandledAsSent
<1>1. IInv => HandledAsSent
  <2>1. SUFFICES ASSUME IInv, ~death, ppc \in {"handle", "room", "count"}
                 PROVE  LET d == Head(inflight).d
                        IN  /\ buffer[prc] = Head(inflight)
                            /\ ppc # "handle" => last \ {"garbage"} =
                                 IF Mishandled(d) THEN {} ELSE Purpose[d.kind]
    BY DEF HandledAsSent
  <2>2. Places /\ Flight /\ Counted /\ Busy
    BY <2>1 DEF IInv, Busy
  <2>3. buffer[prc] = Head(inflight)
    BY <2>2, Front
  <2>4. PICK d : d = Head(inflight).d /\ Proper(d)
    BY <2>2, Front
  <2>5. ASSUME ppc # "handle"
        PROVE  last \ {"garbage"} = IF Mishandled(d) THEN {} ELSE Purpose[d.kind]
    <3>1. lockR
      BY <2>1, <2>2, <2>5 DEF Places
    <3>2. last = Handling(d)
      BY <2>2, <2>4, <3>1 DEF Counted
    <3>3. QED
      BY <2>4, <3>2, ProperOutcome DEF Outcome
  <2>6. QED
    BY <2>3, <2>4, <2>5
<1>2. QED
  BY <1>1, TrafficHolds, PTL

(* Until die() the iterator returns what was announced in the order of     *)
(* arrival, each once.                                                     *)
THEOREM IteratorCorrect == Spec => []IteratorInOrder
<1>1. IInv => IteratorInOrder
  BY DEF IInv, Announced, Ordered, IteratorInOrder
<1>2. QED
  BY <1>1, TrafficHolds, PTL

(* get_in_stats reports exactly what was handled since its last reset,     *)
(* unless get_out_stats interfered, and never more.                        *)
THEOREM InCountersCorrect == Spec => []InCountersExact
<1>1. IInv => InCountersExact
  <2>1. SUFFICES ASSUME IInv, ~lockR, ~death
                 PROVE  /\ \A x \in Counters : stats[x] <= due[x]
                        /\ outReset \/ stats = due
    BY DEF InCountersExact
  <2>2. Counted
    BY <2>1 DEF IInv
  <2>3. \A x \in Counters : Rest[x] = 0
    BY <2>1 DEF Rest, Zero
  <2>4. stats \in [Counters -> Nat] /\ due \in [Counters -> Int]
    BY <2>2 DEF Counted
  <2>5. \A x \in Counters : stats[x] + Rest[x] = stats[x]
    BY <2>3, <2>4
  <2>6. \A x \in Counters : stats[x] <= due[x]
    BY <2>2, <2>5 DEF Counted
  <2>7. ~outReset => stats = due
    <3>1. ~outReset => \A x \in Counters : stats[x] = due[x]
      BY <2>2, <2>5 DEF Counted
    <3>2. QED
      BY <2>4, <3>1
  <2>8. QED
    BY <2>6, <2>7
<1>2. QED
  BY <1>1, TrafficHolds, PTL
=============================================================================
