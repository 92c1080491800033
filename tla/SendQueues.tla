------------------------------ MODULE SendQueues ------------------------------
(***************************************************************************)
(* The outgoing side of bora (packet_sender.c): the three ring buffers     *)
(* prio_buf, retr_buf and send_buf, the semaphores sFull (packets to send) *)
(* and qEmpty (room left), send_data as the threads that call it interleave*)
(* it, and the sender thread send_packet with the function packet_send it  *)
(* runs.  Each critical section under prio_lock, retr_lock or send_lock is *)
(* one action; everything else two threads can interleave with is a step.  *)
(*                                                                         *)
(* The pacing of the sender (usleep, sleeptime, bandwidth) carries no      *)
(* state of this module, and neither do the counters stats_s.  The         *)
(* condition variable produceBlock, which packet_send signals, belongs to  *)
(* the puller thread, and the bookkeeping of append_ack to Retransmission. *)
(***************************************************************************)
EXTENDS Integers, Sequences, FiniteSets

CONSTANTS
  N,            \* slots of each ring: N_PRIO = N_RETR = N_SEND
  Hosts,        \* destination addresses
  NoHost,       \* the NULL of the pointer lasthost
  Threads,      \* the threads that call send_data
  App,          \* the one that runs Python calls, serialised by the GIL
  Sends,        \* Sends[t]: the kinds of packet thread t passes to send_data
  MaxPackets,   \* bound: calls of send_data
  MaxCookies    \* bound: calls of send_cookie

(* The kinds of packet the first data byte tells apart: BLK_ACK or BW_MSG, *)
(* BLOCK_RETRANSMISSION, BLK_BLOCK_ACK and BLK_EMPTY.                      *)
Kinds == {"ack", "retr", "block", "raw"}

ASSUME ConstantsOK ==
  /\ N \in Nat \ {0}
  /\ NoHost \notin Hosts
  /\ IsFiniteSet(Threads)
  /\ App \in Threads
  /\ Sends \in [Threads -> SUBSET Kinds]
  /\ MaxPackets \in Nat
  /\ MaxCookies \in Nat

Queue == {"prio", "retr", "send"}

(* The statically allocated, zero-filled SendData. *)
Blank == [id |-> 0, kind |-> "raw", to |-> NoHost]

Packet == [id : 0..MaxPackets, kind : Kinds, to : Hosts \cup {NoHost}]

CookiePacket == [id : {0}, kind : {"cookie"}, to : Hosts]

(* The queue send_data chooses from the flags of the packet. *)
QueueOf(p) == CASE p.kind = "ack"  -> "prio"
                [] p.kind = "retr" -> "retr"
                [] OTHER           -> "send"

VARIABLES
  buf,          \* buf[q]: the slots of the ring q
  c,            \* c[q]: the slot the next packet goes to
  f,            \* f[q]: how many slots are in use
  sFull,        \* semaphore: packets the sender may take
  qEmpty,       \* semaphore: packets send_data may still accept
  ckFull,       \* semaphore: cookies waiting to be sent
  tpc,          \* tpc[t]: where thread t is inside send_data
  arg,          \* arg[t]: the packet thread t is passing to send_data
  spc,          \* where the sender thread is
  z,            \* the sender is sending the second packet of a pair
  d,            \* the packet packet_send has taken
  src,          \* packet_send's local c: 0 data or cookie, 1 prio, 2 retr
  lasthost,     \* destination of the last block packet, if a pair may follow
  kill,         \* kill_bora_threads
  wire,         \* the last datagram passed to sendto
  sent,         \* how many packets were passed to send_data
  cookies,      \* how many times send_cookie was called
  stolen,       \* history: sFull units spent on cookies
  bypass        \* history: packets taken while an older ack waits

threadVars == <<tpc, arg, sent>>
queueVars  == <<buf, c, f>>
senderVars == <<spc, z, d, src, lasthost>>
histVars   == <<stolen, bypass>>
vars == <<queueVars, sFull, qEmpty, ckFull, threadVars, senderVars, kill, wire,
          cookies, histVars>>

Datagram == [pkt : Packet \cup CookiePacket, cons : BOOLEAN, ok : BOOLEAN]

Init ==
  /\ buf = [q \in Queue |-> [i \in 0..(N-1) |-> Blank]]
  /\ c = [q \in Queue |-> 0]
  /\ f = [q \in Queue |-> 0]
  /\ sFull = 0
  /\ qEmpty = 3 * N
  /\ ckFull = 0
  /\ tpc = [t \in Threads |-> "idle"]
  /\ arg = [t \in Threads |-> Blank]
  /\ spc = "top"
  /\ z = FALSE
  /\ d = Blank
  /\ src = 0
  /\ lasthost = NoHost
  /\ kill = FALSE
  /\ wire = [pkt |-> Blank, cons |-> FALSE, ok |-> FALSE]
  /\ sent = 0
  /\ cookies = 0
  /\ stolen = 0
  /\ bypass = 0

-----------------------------------------------------------------------------
(* send_data, as called by the packet processor and by the application.    *)

(* sem_trywait(&qEmpty): with no room left the packet is dropped at once. *)
SendDataCall(t) ==
  /\ tpc[t] = "idle"
  /\ sent < MaxPackets
  /\ sent' = sent + 1
  /\ \E k \in Sends[t], h \in Hosts :
       LET p == [id |-> sent + 1, kind |-> k, to |-> h]
       IN  IF qEmpty > 0
           THEN /\ qEmpty' = qEmpty - 1
                /\ tpc' = [tpc EXCEPT ![t] = "insert"]
                /\ arg' = [arg EXCEPT ![t] = p]
           ELSE UNCHANGED <<qEmpty, tpc, arg>>
  /\ UNCHANGED <<queueVars, sFull, ckFull, senderVars, kill, wire, cookies, histVars>>

(* Mutants: the ring is not tested for room; its full case keeps the unit *)
(* of qEmpty; its full case falls through to the post of sFull.           *)
SendDataInsertUnchecked(t) ==
  /\ tpc[t] = "insert"
  /\ LET q == QueueOf(arg[t])
     IN  /\ buf' = [buf EXCEPT ![q][c[q]] = arg[t]]
         /\ c' = [c EXCEPT ![q] = (@ + 1) % N]
         /\ f' = [f EXCEPT ![q] = @ + 1]
  /\ tpc' = [tpc EXCEPT ![t] = "post"]
  /\ arg' = [arg EXCEPT ![t] = Blank]
  /\ UNCHANGED <<sFull, qEmpty, ckFull, sent, senderVars, kill, wire, cookies, histVars>>

SendDataInsertNoRefund(t) ==
  /\ tpc[t] = "insert"
  /\ IF f[QueueOf(arg[t])] < N
     THEN SendDataInsertUnchecked(t)
     ELSE /\ tpc' = [tpc EXCEPT ![t] = "idle"]
          /\ arg' = [arg EXCEPT ![t] = Blank]
          /\ UNCHANGED <<queueVars, sFull, qEmpty, ckFull, sent, senderVars, kill, wire,
                         cookies, histVars>>

SendDataInsertFallThrough(t) ==
  /\ tpc[t] = "insert"
  /\ IF f[QueueOf(arg[t])] < N
     THEN SendDataInsertUnchecked(t)
     ELSE /\ qEmpty' = qEmpty + 1
          /\ tpc' = [tpc EXCEPT ![t] = "post"]
          /\ arg' = [arg EXCEPT ![t] = Blank]
          /\ UNCHANGED <<queueVars, sFull, ckFull, sent, senderVars, kill, wire, cookies,
                         histVars>>

(* The critical section: the packet goes to its ring, or is dropped and the *)
(* unit of qEmpty given back when the ring is full.                         *)
SendDataInsert(t) ==
  /\ tpc[t] = "insert"
  /\ LET q == QueueOf(arg[t])
     IN  IF f[q] < N
         THEN /\ buf' = [buf EXCEPT ![q][c[q]] = arg[t]]
              /\ c' = [c EXCEPT ![q] = (@ + 1) % N]
              /\ f' = [f EXCEPT ![q] = @ + 1]
              /\ tpc' = [tpc EXCEPT ![t] = "post"]
              /\ UNCHANGED qEmpty
         ELSE /\ qEmpty' = qEmpty + 1
              /\ tpc' = [tpc EXCEPT ![t] = "idle"]
              /\ UNCHANGED queueVars
  /\ arg' = [arg EXCEPT ![t] = Blank]
  /\ UNCHANGED <<sFull, ckFull, sent, senderVars, kill, wire, cookies, histVars>>

(* Mutant: the post of sFull is skipped while a packet is already announced. *)
SendDataPostOnce(t) ==
  /\ tpc[t] = "post"
  /\ sFull' = 1
  /\ tpc' = [tpc EXCEPT ![t] = "idle"]
  /\ UNCHANGED <<queueVars, qEmpty, ckFull, arg, sent, senderVars, kill, wire, cookies,
                 histVars>>

(* sem_post(&sFull) *)
SendDataPost(t) ==
  /\ tpc[t] = "post"
  /\ sFull' = sFull + 1
  /\ tpc' = [tpc EXCEPT ![t] = "idle"]
  /\ UNCHANGED <<queueVars, qEmpty, ckFull, arg, sent, senderVars, kill, wire, cookies,
                 histVars>>

(* send_cookie announces two cookies on ckFull.  It does not post sFull. *)
SendCookie ==
  /\ tpc[App] = "idle"
  /\ cookies < MaxCookies
  /\ cookies' = cookies + 1
  /\ ckFull' = ckFull + 2
  /\ UNCHANGED <<queueVars, sFull, qEmpty, threadVars, senderVars, kill, wire, histVars>>

-----------------------------------------------------------------------------
(* The sender thread.                                                       *)

(* Mutant: the slot after the oldest one. *)
OldestOffByOne(q) == buf[q][(N + c[q] - f[q] + 1) % N]

(* The slot packet_send reads from ring q: the oldest packet in it. *)
Oldest(q) == buf[q][(N + c[q] - f[q]) % N]

(* Mutant: the pair is announced without a test of f_send. *)
SenderTopNoTest ==
  /\ spc = "top"
  /\ ~kill
  /\ spc' = "wait"
  /\ z' = (lasthost # NoHost /\ Oldest("send").to = lasthost)
  /\ lasthost' = IF z' THEN lasthost ELSE NoHost
  /\ UNCHANGED <<queueVars, sFull, qEmpty, ckFull, threadVars, d, src, kill, wire, cookies,
                 histVars>>

(* The top of the loop of send_packet: after a block packet, a packet for  *)
(* the same host at the head of send_buf is sent back to back (z).         *)
SenderTop ==
  /\ spc = "top"
  /\ ~kill
  /\ spc' = "wait"
  /\ z' = (lasthost # NoHost /\ f["send"] > 0 /\ Oldest("send").to = lasthost)
  /\ lasthost' = IF z' THEN lasthost ELSE NoHost
  /\ UNCHANGED <<queueVars, sFull, qEmpty, ckFull, threadVars, d, src, kill, wire, cookies,
                 histVars>>

(* sem_wait(&sFull): the second packet of a pair goes straight to send_buf. *)
SenderWait ==
  /\ spc = "wait"
  /\ sFull > 0
  /\ sFull' = sFull - 1
  /\ src' = 0
  /\ spc' = IF z THEN "data" ELSE "cookie"
  /\ lasthost' = IF z THEN lasthost ELSE NoHost
  /\ UNCHANGED <<queueVars, qEmpty, ckFull, threadVars, z, d, kill, wire, cookies, histVars>>

(* sem_trywait(&ckFull): a cookie is sent on the unit of sFull just taken. *)
SenderCookie ==
  /\ spc = "cookie"
  /\ IF ckFull > 0
     THEN /\ ckFull' = ckFull - 1
          /\ d' \in CookiePacket
          /\ spc' = "xmit"
          /\ stolen' = stolen + 1
     ELSE /\ spc' = "prio"
          /\ UNCHANGED <<ckFull, d, stolen>>
  /\ UNCHANGED <<queueVars, sFull, qEmpty, threadVars, z, src, lasthost, kill, wire,
                 cookies, bypass>>

(* Taking the oldest packet of ring q; n is packet_send's local c. *)
Take(q, n) ==
  /\ d' = Oldest(q)
  /\ f' = [f EXCEPT ![q] = @ - 1]
  /\ src' = n
  /\ spc' = "xmit"
  /\ bypass' = IF q = "prio" \/ f["prio"] <= 0 THEN 0 ELSE bypass + 1

SenderPrio ==
  /\ spc = "prio"
  /\ IF f["prio"] # 0
     THEN Take("prio", 1)
     ELSE spc' = "retr" /\ UNCHANGED <<f, d, src, bypass>>
  /\ UNCHANGED <<buf, c, sFull, qEmpty, ckFull, threadVars, z, lasthost, kill, wire,
                 cookies, stolen>>

SenderRetr ==
  /\ spc = "retr"
  /\ IF f["retr"] # 0
     THEN Take("retr", 2)
     ELSE spc' = "data" /\ UNCHANGED <<f, d, src, bypass>>
  /\ UNCHANGED <<buf, c, sFull, qEmpty, ckFull, threadVars, z, lasthost, kill, wire,
                 cookies, stolen>>

(* send_buf is read without a test of f_send. *)
SenderData ==
  /\ spc = "data"
  /\ Take("send", 0)
  /\ UNCHANGED <<buf, c, sFull, qEmpty, ckFull, threadVars, z, lasthost, kill, wire,
                 cookies, stolen>>

(* Mutant: lasthost is set by every packet that carries BLK_BLOCK, those *)
(* of the retransmission queue included.                                 *)
SenderXmitAnyQueue ==
  /\ spc = "xmit"
  /\ spc' = "post"
  /\ \E ok \in BOOLEAN :
       /\ wire' = [pkt |-> d, cons |-> z, ok |-> ok]
       /\ lasthost' = CASE ok /\ z                                 -> NoHost
                        [] ok /\ ~z /\ d.kind \in {"block", "retr"} -> d.to
                        [] OTHER                                   -> lasthost
  /\ UNCHANGED <<queueVars, sFull, qEmpty, ckFull, threadVars, z, d, src, kill, cookies,
                 histVars>>

(* The tail of packet_send up to sendto, which may fail.  A block packet of *)
(* the send queue that went out as the first of a pair sets lasthost.       *)
SenderXmit ==
  /\ spc = "xmit"
  /\ spc' = "post"
  /\ \E ok \in BOOLEAN :
       /\ wire' = [pkt |-> d, cons |-> z, ok |-> ok]
       /\ lasthost' = CASE ok /\ src = 0 /\ z                      -> NoHost
                        [] ok /\ src = 0 /\ ~z /\ d.kind = "block" -> d.to
                        [] OTHER                                   -> lasthost
  /\ UNCHANGED <<queueVars, sFull, qEmpty, ckFull, threadVars, z, d, src, kill, cookies,
                 histVars>>

(* Mutant: z is not reset after the pair. *)
SenderPostKeepZ ==
  /\ spc = "post"
  /\ qEmpty' = qEmpty + 1
  /\ spc' = IF z THEN "wait" ELSE "top"
  /\ UNCHANGED <<queueVars, sFull, ckFull, threadVars, z, d, src, lasthost, kill, wire,
                 cookies, histVars>>

(* sem_post(&qEmpty) and the return into send_packet's loop. *)
SenderPost ==
  /\ spc = "post"
  /\ qEmpty' = qEmpty + 1
  /\ spc' = IF z THEN "wait" ELSE "top"
  /\ z' = FALSE
  /\ UNCHANGED <<queueVars, sFull, ckFull, threadVars, d, src, lasthost, kill, wire,
                 cookies, histVars>>

Sender == \/ SenderTop  \/ SenderWait \/ SenderCookie \/ SenderPrio
          \/ SenderRetr \/ SenderData \/ SenderXmit   \/ SenderPost

SendData(t) == SendDataCall(t) \/ SendDataInsert(t) \/ SendDataPost(t)

Next == Sender \/ SendCookie \/ \E t \in Threads : SendData(t)

Spec == Init /\ [][Next]_vars

(* The threads keep running: the sender whenever it is not blocked on a    *)
(* semaphore, and a caller that has entered send_data until it returns.    *)
Fairness == /\ WF_vars(Sender)
            /\ \A t \in Threads : WF_vars(SendDataInsert(t) \/ SendDataPost(t))

FairSpec == Spec /\ Fairness

-----------------------------------------------------------------------------
(* Properties.                                                             *)

SenderPC == {"top", "wait", "cookie", "prio", "retr", "data", "xmit", "post"}

RingsTypeOK ==
  /\ buf \in [Queue -> [0..(N-1) -> Packet]]
  /\ c \in [Queue -> 0..(N-1)]
  /\ f \in [Queue -> 0..N]

SemaphoresTypeOK ==
  /\ sFull \in Nat
  /\ qEmpty \in Nat
  /\ ckFull \in Nat
  /\ cookies \in 0..MaxCookies
  /\ stolen \in Nat
  /\ bypass \in Nat

ThreadsTypeOK ==
  /\ tpc \in [Threads -> {"idle", "insert", "post"}]
  /\ arg \in [Threads -> Packet]
  /\ sent \in 0..MaxPackets

SenderTypeOK ==
  /\ spc \in SenderPC
  /\ z \in BOOLEAN
  /\ d \in Packet \cup CookiePacket
  /\ src \in {0, 1, 2}
  /\ lasthost \in Hosts \cup {NoHost}
  /\ kill \in BOOLEAN
  /\ wire \in Datagram

(* Every variable keeps its type; in particular the counters f_prio,       *)
(* f_retr and f_send stay between 0 and the size of their ring, although   *)
(* packet_send decrements f_send without looking at it.                    *)
TypeOK == RingsTypeOK /\ SemaphoresTypeOK /\ ThreadsTypeOK /\ SenderTypeOK

Queued == f["prio"] + f["retr"] + f["send"]

In(pc) == Cardinality({t \in Threads : tpc[t] = pc})

(* The sender has taken a unit of sFull and not yet the packet it is for. *)
Held == IF spc \in {"cookie", "prio", "retr", "data"} THEN 1 ELSE 0

(* The sender has taken a packet and not yet given its unit of qEmpty back. *)
Sending == IF spc \in {"xmit", "post"} THEN 1 ELSE 0

(* send_data posts sFull after it leaves the critical section, and         *)
(* packet_send takes the unit before it looks for the packet: whatever the *)
(* interleaving, the packets in the three rings are the units of sFull,    *)
(* plus those on their way up or down, plus the units spent on cookies.    *)
TokensMatchPackets == Queued = sFull + Held + In("post") + stolen

(* Every unit of qEmpty that send_data takes comes back exactly once,      *)
(* whether the packet is dropped in a full ring, sent or failed to send,   *)
(* so "ALL QUEUES FULL" never outlives the congestion; a cookie gives back *)
(* a unit that nobody took.                                                *)
CreditsMatchRoom == qEmpty + Queued + In("insert") + Sending = 3 * N + stolen

(* packet_send takes from send_buf, and send_packet looks at its head,     *)
(* without testing f_send again: there always is a packet there.  This is  *)
(* why it is enough that the sender alone decrements the counters.         *)
TakeFindsPacket ==
  /\ spc = "prio" => Queued >= 1
  /\ spc = "retr" => f["retr"] + f["send"] >= 1
  /\ spc = "data" => f["send"] >= 1
  /\ (z /\ spc = "wait") => f["send"] >= 1

(* An ack queued in prio_buf leaves after at most two packets of the other *)
(* queues: the one packet_send was already looking for and the second half *)
(* of a pair.                                                              *)
AckOvertakenTwice == bypass <= 2

(* The packets in ring q, oldest first. *)
Contents(q) == [i \in 1..f[q] |-> buf[q][(N + c[q] - f[q] + i - 1) % N]]

Fifo == INSTANCE FifoClasses WITH
          Class <- Queue, Message <- Packet, Cookie <- CookiePacket, Capacity <- N,
          queue <- [q \in Queue |-> Contents(q)], out <- d

(* The rings, their counters and the sender implement one bounded FIFO     *)
(* queue per traffic class: no packet is lost, repeated, torn or overtaken *)
(* inside its class between send_data and sendto.                          *)
ImplementsFifo == Fifo!Spec

(* BLOCK_CONSECUTIVE, from which the receiver computes its bandwidth       *)
(* samples, is set only on the packet sent directly after an unflagged     *)
(* block packet of the send queue that reached the socket for the same     *)
(* host.                                                                   *)
ConsecutiveIsAPair ==
  [][wire'.cons => /\ wire.ok /\ ~wire.cons
                   /\ wire.pkt.kind = "block"
                   /\ wire.pkt.to = wire'.pkt.to]_wire

(* Every packet that send_data put in a ring is passed to sendto, unless   *)
(* die() sets kill_bora_threads first.                                     *)
EveryPacketGoesOut ==
  \A n \in 1..MaxPackets :
    (\E q \in Queue : \E i \in 1..f[q] : Contents(q)[i].id = n) ~> (wire.pkt.id = n \/ kill)
=============================================================================
