----------------------------- MODULE FifoClasses -----------------------------
(***************************************************************************)
(* What the outgoing side of packet_sender.c promises its callers: one     *)
(* bounded first-in first-out queue per traffic class.  A packet that was  *)
(* accepted leaves its class in the order in which it was accepted, once,  *)
(* and unchanged; cookie packets are handed out without being queued.      *)
(* SendQueues, with its ring buffers, counters and semaphores, is shown to *)
(* implement this specification.                                           *)
(***************************************************************************)
EXTENDS Naturals, Sequences

CONSTANTS Class,      \* the traffic classes
          Message,    \* the packets that can be queued
          Cookie,     \* the packets that are handed out without being queued
          Capacity    \* the capacity of each class

VARIABLES queue,      \* the packets of each class, oldest first
          out         \* the packet handed out last

vars == <<queue, out>>

Init == /\ queue = [k \in Class |-> <<>>]
        /\ out \in Message

(* A message m joins class k; it is the last one of the class afterwards. *)
Accept(k) == /\ Len(queue[k]) < Capacity
             /\ queue'[k] # <<>>
             /\ LET m == queue'[k][Len(queue'[k])]
                IN  /\ m \in Message
                    /\ queue' = [queue EXCEPT ![k] = Append(@, m)]
             /\ UNCHANGED out

HandOut(k) == /\ queue[k] # <<>>
              /\ out' = Head(queue[k])
              /\ queue' = [queue EXCEPT ![k] = Tail(@)]

HandOutCookie == /\ out' \in Cookie
                 /\ UNCHANGED queue

Next == \/ \E k \in Class : Accept(k)
        \/ \E k \in Class : HandOut(k)
        \/ HandOutCookie

Spec == Init /\ [][Next]_vars
=============================================================================
