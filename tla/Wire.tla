-------------------------------- MODULE Wire --------------------------------
(***************************************************************************)
(* Packets and datagrams: what the encoders of netencoder.c make, what     *)
(* packet_send appends, what the packet processor strips, and the          *)
(* validation in between.  A first byte is the set of its flags; of the    *)
(* other bytes only their number, the length field of a fragment header    *)
(* and the NAT port matter.                                                *)
(***************************************************************************)
EXTENDS Integers

CONSTANT MTU

ASSUME MTUAssumption == MTU \in Nat \ {0} /\ MTU <= 1400

Flags == {"BLK_BLOCK", "BLK_ACK", "CONSECUTIVE", "COOKIE_MSG",
          "RETRANSMISSION", "BW_MSG", "NEED_ACK"}

(* sizeof of the packed structures, and of what is appended. *)
HeaderSize == 13
AckPacketSize == 13
BWPacketSize == 5
AckSize == 2
PortSize == 2

-----------------------------------------------------------------------------
(* Packets as they are handed to send_data or to the cookie slots.         *)

Packet(k, fl, f, l) == [kind |-> k, flags |-> fl, field |-> f, len |-> l]

Fragment(n) == Packet("fragment", {"BLK_BLOCK", "NEED_ACK"}, n, HeaderSize + n)

Cookie == Packet("cookie", {"COOKIE_MSG", "NEED_ACK"}, 0, HeaderSize + MTU)

AckPacket == Packet("ack", {"BLK_ACK"}, 0, AckPacketSize)

BWPacket == Packet("bw", {"BW_MSG"}, 0, BWPacketSize)

(* The longest raw message that send_raw takes. *)
MaxRaw == 1400

(* A raw message of m bytes, behind a first byte BLK_EMPTY. *)
Raw(m) == Packet("raw", {}, 0, m + 1)

(* What the retransmission makes of a packet of a nack list. *)
Resent(p) == [p EXCEPT !.flags = (@ \ {"CONSECUTIVE"}) \cup {"RETRANSMISSION"}]

(* The datagram packet_send makes: the seq number, the flag of the second  *)
(* packet of a pair, the NAT port.                                         *)
Transmit(p, z, port) ==
  LET fl == IF z THEN p.flags \cup {"CONSECUTIVE"} ELSE p.flags
      seq == IF "NEED_ACK" \in p.flags THEN AckSize ELSE 0
  IN  [kind |-> p.kind, flags |-> fl, field |-> p.field, port |-> port,
       len |-> p.len + seq + (IF fl = {} THEN 0 ELSE PortSize)]

(* What there is to send: a fragment or a cookie, fresh or to be           *)
(* retransmitted, an ack, a bandwidth message or a raw message.            *)
Packets ==
  LET fresh == {Fragment(n) : n \in 0..MTU} \cup {Cookie}
  IN  fresh \cup {Resent(p) : p \in fresh} \cup {AckPacket, BWPacket}
        \cup {Raw(m) : m \in 0..MaxRaw}

(* packet_send makes d from p.  Only a packet of send_buf, a fresh         *)
(* fragment or a raw message, is the second of a pair.                     *)
MakesFrom(p, d) ==
  \/ d = Transmit(p, FALSE, d.port)
  \/ /\ p.kind \in {"fragment", "raw"} /\ "RETRANSMISSION" \notin p.flags
     /\ d = Transmit(p, TRUE, d.port)

Sendable(d) ==
  /\ d.port \in Nat /\ d.port < 65536
  /\ \E p \in Packets : MakesFrom(p, d)

-----------------------------------------------------------------------------
(* The receiving side.                                                     *)

validate_ack(fl, l) == fl = {"BLK_ACK"} /\ l = AckPacketSize

validate_bw(fl, l) == fl = {"BW_MSG"} /\ l = BWPacketSize

validate_block(fl, f, l) ==
  \/ /\ l = HeaderSize + f
     /\ fl \subseteq {"BLK_BLOCK", "NEED_ACK", "CONSECUTIVE", "RETRANSMISSION"}
  \/ /\ l = HeaderSize + MTU
     /\ fl = {"NEED_ACK", "COOKIE_MSG"}

(* Mutant: a port of zero is not taken off. *)
StrippedZeroKept(d) == IF d.port = 0 THEN d.len ELSE d.len - PortSize

(* buflen without the port.  The test whether there is a port looks at its *)
(* first byte only, which is the high one, and strips it a second time.    *)
Stripped(d) ==
  IF d.flags = {} THEN d.len
  ELSE d.len - PortSize - (IF d.port \div 256 # 0 THEN PortSize ELSE 0)

(* The datagram asks for an ack and is well formed: its seq number is cut  *)
(* off and acknowledged.                                                   *)
Acknowledged(d) ==
  /\ "NEED_ACK" \in d.flags
  /\ validate_block(d.flags, d.field, Stripped(d) - AckSize)

FinalLen(d) == IF Acknowledged(d) THEN Stripped(d) - AckSize ELSE Stripped(d)

(* What the processor does with a datagram: the message it announces, the  *)
(* acknowledgement it sends, the handler it calls, or that it counts the   *)
(* datagram as garbage.                                                    *)
Handling(d) ==
  LET bad == "NEED_ACK" \in d.flags /\ ~Acknowledged(d)
      fl  == IF bad THEN {} ELSE d.flags
      l   == FinalLen(d)
      Try(flag, valid, what) ==
        IF flag \in fl THEN {IF valid THEN what ELSE "garbage"} ELSE {}
  IN  (IF d.flags = {} /\ d.len > 3 THEN {"message"} ELSE {})
      \cup (IF Acknowledged(d) THEN {"acknowledge"} ELSE {})
      \cup (IF bad THEN {"garbage"} ELSE {})
      \cup Try("BLK_ACK", validate_ack(fl, l), "ack")
      \cup Try("BW_MSG", validate_bw(fl, l), "bw")
      \cup Try("BLK_BLOCK", validate_block(fl, d.field, l), "fragment")

-----------------------------------------------------------------------------
(* What each kind of packet is for. *)
Purpose == [fragment |-> {"acknowledge", "fragment"}, cookie |-> {"acknowledge"},
            ack |-> {"ack"}, bw |-> {"bw"}, raw |-> {"message"}]
=============================================================================
