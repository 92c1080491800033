----------------------------- MODULE BwSamples -----------------------------
(***************************************************************************)
(* Bandwidth samples: recv_stats.c and get_bw_stats of bora.c at a node    *)
(* that several sources send the same blocks to, with the part of          *)
(* packet_sender.c that sends packets in pairs and flags the second with   *)
(* BLOCK_CONSECUTIVE.                                                      *)
(*                                                                         *)
(* A sample is the rate at which the second of two packets followed the    *)
(* first, so it means something only if they left back to back.  The node  *)
(* infers that from the flag, the ids and the last fragment it recorded of *)
(* this host; fragments it had already are not recorded.  The network      *)
(* loses (what stays in it for ever) and reorders.  A sample is kept as    *)
(* the positions of its two packets among those the source sent.           *)
(***************************************************************************)
EXTENDS Integers, Sequences, Functions

CONSTANTS
  Sources,     \* hosts that send to the node
  Blocks,
  FN,          \* fragments of a block
  MaxCalls,    \* bound: calls of sendblock in all
  MaxRetr      \* bound: retransmissions in all

ASSUME SamplesConstants == FN \in Nat \ {0} /\ MaxCalls \in Nat /\ MaxRetr \in Nat

Frag == [b : Blocks, f : 0..(FN - 1)]

VARIABLES
  sendQ,      \* sendQ[s]: fragments in send_buf of s
  retrQ,      \* retrQ[s]: fragments in retr_buf of s
  lasthost,   \* lasthost[s]: the first packet of a pair has just left
  log,        \* history: log[s]: the fragments s has sent, in order
  net,        \* datagrams on the network
  have,       \* fragments in the block cache of the node
  last,       \* last[s]: lastfragment of host s, as a sequence of length 0 or 1
  samples,    \* samples[s]: the list bandwidth of host s
  calls,      \* history: calls[<<s, b>>]: how often s was told to send b
  retrs       \* history: retransmissions so far

senderVars == <<sendQ, retrQ, lasthost, log>>
nodeVars == <<have, last, samples>>
boundVars == <<calls, retrs>>
vars == <<senderVars, net, nodeVars, boundVars>>

Init ==
  /\ sendQ = [s \in Sources |-> <<>>] /\ retrQ = [s \in Sources |-> <<>>]
  /\ lasthost = [s \in Sources |-> FALSE] /\ log = [s \in Sources |-> <<>>]
  /\ net = {} /\ have = {}
  /\ last = [s \in Sources |-> <<>>] /\ samples = [s \in Sources |-> {}]
  /\ calls = [c \in Sources \X Blocks |-> 0] /\ retrs = 0

-----------------------------------------------------------------------------
(* The sources.                                                            *)

Calls == SumFunction(calls)

(* What may get into the send queue of the fragments of b: some of them,   *)
(* in order.                                                               *)
Accepted(b) ==
  { q \in UNION {[1..n -> [b : {b}, f : 0..(FN - 1)]] : n \in 0..FN} :
    \A i, j \in DOMAIN q : i < j => q[i].f < q[j].f }

(* sendblock, with the GIL throughout: no other block gets in between.     *)
(* send_data drops a packet when the queue is full.                        *)
SendBlock(s) ==
  /\ Calls < MaxCalls
  /\ \E b \in Blocks : \E q \in Accepted(b) :
       /\ sendQ' = [sendQ EXCEPT ![s] = @ \o q]
       /\ calls' = [calls EXCEPT ![<<s, b>>] = @ + 1]
  /\ UNCHANGED <<retrQ, lasthost, log, net, nodeVars, retrs>>

(* A packet without an ack is sent again. *)
Retransmit(s) ==
  /\ retrs < MaxRetr
  /\ retrs' = retrs + 1
  /\ \E x \in Range(log[s]) : retrQ' = [retrQ EXCEPT ![s] = Append(@, x)]
  /\ UNCHANGED <<sendQ, lasthost, log, net, nodeVars, calls>>

Leaves(s, x, flag) ==
  /\ log' = [log EXCEPT ![s] = Append(@, x)]
  /\ net' = net \cup {[s |-> s, n |-> Len(log[s]) + 1, x |-> x, flag |-> flag]}

(* The first packet of a turn of send_packet: a retransmission, or the     *)
(* oldest of the send queue, which may begin a pair.                       *)
PacketSend(s) ==
  /\ ~lasthost[s]
  /\ \/ /\ retrQ[s] # <<>>
        /\ Leaves(s, Head(retrQ[s]), FALSE)
        /\ retrQ' = [retrQ EXCEPT ![s] = Tail(@)]
        /\ UNCHANGED <<sendQ, lasthost>>
     \/ /\ retrQ[s] = <<>> /\ sendQ[s] # <<>>
        /\ Leaves(s, Head(sendQ[s]), FALSE)
        /\ sendQ' = [sendQ EXCEPT ![s] = Tail(@)]
        /\ lasthost' = [lasthost EXCEPT ![s] = TRUE]
        /\ UNCHANGED retrQ
  /\ UNCHANGED <<nodeVars, boundVars>>

(* Mutant: a retransmission may leave as the second packet. *)
PacketSendSecondRetr(s) ==
  /\ lasthost[s]
  /\ lasthost' = [lasthost EXCEPT ![s] = FALSE]
  /\ LET q == retrQ[s] \o sendQ[s]
     IN  IF q = <<>> THEN UNCHANGED <<sendQ, retrQ, log, net>>
         ELSE /\ Leaves(s, Head(q), TRUE)
              /\ IF retrQ[s] = <<>>
                 THEN sendQ' = [sendQ EXCEPT ![s] = Tail(@)] /\ UNCHANGED retrQ
                 ELSE retrQ' = [retrQ EXCEPT ![s] = Tail(@)] /\ UNCHANGED sendQ
  /\ UNCHANGED <<nodeVars, boundVars>>

(* The second packet of a pair, if one is queued for the same host. *)
PacketSendSecond(s) ==
  /\ lasthost[s]
  /\ lasthost' = [lasthost EXCEPT ![s] = FALSE]
  /\ IF sendQ[s] = <<>>
     THEN UNCHANGED <<sendQ, log, net>>
     ELSE /\ Leaves(s, Head(sendQ[s]), TRUE)
          /\ sendQ' = [sendQ EXCEPT ![s] = Tail(@)]
  /\ UNCHANGED <<retrQ, nodeVars, boundVars>>

-----------------------------------------------------------------------------
(* The node.                                                               *)

(* The test of fragment_received: m follows the last fragment l. *)
IsPair(l, m) == l.x.b = m.x.b /\ l.x.f + 1 = m.x.f /\ m.flag

(* fragment_received. *)
FragmentReceived(m) ==
  /\ samples' = [samples EXCEPT ![m.s] =
                   IF last[m.s] # <<>> /\ IsPair(last[m.s][1], m)
                   THEN @ \cup {<<last[m.s][1].n, m.n>>} ELSE @]
  /\ last' = [last EXCEPT ![m.s] = <<m>>]

(* The processor handles a datagram: a fragment the cache has is not       *)
(* recorded.                                                               *)
Receive ==
  /\ \E m \in net :
       /\ net' = net \ {m}
       /\ IF m.x \in have
          THEN UNCHANGED nodeVars
          ELSE have' = have \cup {m.x} /\ FragmentReceived(m)
  /\ UNCHANGED <<senderVars, boundVars>>

(* get_bw_stats takes all hosts with their samples and last fragments. *)
FetchBwEstimations ==
  /\ \E s \in Sources : last[s] # <<>>
  /\ last' = [s \in Sources |-> <<>>] /\ samples' = [s \in Sources |-> {}]
  /\ UNCHANGED <<senderVars, net, have, boundVars>>

Source(s) == SendBlock(s) \/ Retransmit(s) \/ PacketSend(s) \/ PacketSendSecond(s)

Next == (\E s \in Sources : Source(s)) \/ Receive \/ FetchBwEstimations

Spec == Init /\ [][Next]_vars

-----------------------------------------------------------------------------
(* A sample is of two neighbouring fragments of a block, and the second    *)
(* left directly after the first, with nothing of that source in between,  *)
(* unless the first is a retransmission that overtook the second on the    *)
(* network, or the source was told to send the block twice.                *)
SamplesAreBackToBack ==
  \A s \in Sources : \A p \in samples[s] :
    LET x == log[s][p[1]]
        y == log[s][p[2]]
    IN  /\ x.b = y.b /\ x.f + 1 = y.f
        /\ \/ p[2] = p[1] + 1
           \/ p[1] > p[2]
           \/ calls[<<s, x.b>>] > 1
=============================================================================
