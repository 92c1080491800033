-------------------------- MODULE MCPacketReceiver --------------------------
(* Instances of PacketReceiver for TLC. *)
EXTENDS PacketReceiver

(* Anything that packet_send sends, then a raw message and a fragment of a *)
(* peer with a low NAT port: what has to be announced fills the iterator's *)
(* ring.                                                                   *)
MCTraffic ==
  LET first == {Transmit(p, FALSE, 0) : p \in {Resent(Fragment(1)), Cookie,
                  Resent(Cookie), AckPacket, BWPacket, Raw(2)}}
               \cup {Transmit(Raw(3), TRUE, 0)}
               \cup {Transmit(Fragment(1), FALSE, 256)}
  IN  <<first, {Transmit(Raw(3), FALSE, 0)}, {Transmit(Fragment(MTU), FALSE, 80)}>>

(* A peer that called set_nat_port. *)
NatTraffic == <<{Transmit(Fragment(n), FALSE, port) : n \in {1, MTU}, port \in {80, 5000}}>>
=============================================================================
