--------------------------- MODULE PacketReceiver ---------------------------
(***************************************************************************)
(* The receiver thread, the packet processor, the iterator of received     *)
(* blocks and the Python calls that meet them (packet_receiver.c,          *)
(* biter_bridge.c, bw_msgs.c, stats_bridge.c and their callers in bora.c). *)
(*                                                                         *)
(* Datagrams are numbered as they arrive.  What addfragment and pop_ack    *)
(* answer is left open (BlockCache, Retransmission).  There are            *)
(* two Python threads: one iterates, the other makes the calls; whoever is *)
(* inside a call has the GIL, except the iterating thread in sem_wait.     *)
(***************************************************************************)
EXTENDS Wire, Sequences

CONSTANTS
  BufN,         \* BUF_N
  NBiter,       \* N_BITER
  Traffic,      \* bound: the datagrams that arrive; Traffic[i], what the i-th may be
  MaxCalls      \* bound: calls of the application before die()

(* What arrives was sent by packet_send.  Left out is the one datagram     *)
(* whose buflen, a size_t, would wrap below zero: an empty raw message as  *)
(* the second of a pair, from a peer with a NAT port above 255.            *)
ASSUME ReceiverConstants ==
  /\ BufN \in Nat \ {0} /\ NBiter \in Nat \ {0}
  /\ MaxCalls \in Nat
  /\ Len(Traffic) \in Nat
  /\ \A i \in 1..Len(Traffic) : \A d \in Traffic[i] : Sendable(d) /\ Stripped(d) >= 0

MaxPackets == Len(Traffic)

Counters == {"PKG", "DATA", "ACK", "GARBAGE"}

Zero == [x \in Counters |-> 0]

VARIABLES
  buffer, rc, prc,            \* ring of datagrams; c of receiver and processor
  bEmpty, bFull,              \* its semaphores
  rpc,          \* the receiver: "top", "wait", "recv", "exit"
  ppc,          \* the processor: "top", "wait", "handle", "room", "count", "exit"
  lockR,        \* stat_lock_r is held by the processor
  stats,        \* stats_r
  bwmlist,      \* bandwidth messages received, the latest first
  ring, bcr, icr,             \* b_biter_*; c of block_completed and of the iterator
  biterEmpty, biterFull,      \* its semaphores
  ipc,          \* the iterating thread: "idle", "wait", "back", "stop"
  item,         \* what it copied from the ring
  apc,          \* the other thread: "idle", "inStats", "post", "join", "shut", "dead"
  arrivals, calls,            \* numbers of datagrams and of calls so far
  inflight,     \* history: the datagrams received and not yet handled
  last,         \* history: what was done with the datagram being handled
  pending,      \* history: what was announced and not yet returned
  due,          \* history: what was handled since get_in_stats last reset the counters
  outReset      \* history: get_out_stats(1) was called since

recvVars == <<buffer, rc, rpc, arrivals>>
procVars == <<prc, ppc, last>>
iterVars == <<icr, ipc, item>>
appVars == <<apc, calls, outReset>>
biterVars == <<ring, bcr, biterEmpty, biterFull>>
statVars == <<stats, due>>
vars == <<recvVars, procVars, iterVars, appVars, biterVars, statVars, bEmpty, bFull,
          lockR, bwmlist, inflight, pending>>

(* A slot that nothing was received into, or a datagram of length 0. *)
Nothing == [n |-> 0]

Init ==
  /\ buffer = [i \in 0..BufN-1 |-> Nothing] /\ rc = 0 /\ prc = 0
  /\ bEmpty = BufN /\ bFull = 0
  /\ rpc = "top" /\ ppc = "top" /\ lockR = FALSE
  /\ stats = Zero /\ due = Zero /\ outReset = FALSE
  /\ bwmlist = <<>>
  /\ ring = [i \in 0..NBiter-1 |-> 0] /\ bcr = 0 /\ icr = 0
  /\ biterEmpty = NBiter /\ biterFull = 0
  /\ ipc = "idle" /\ item = 0
  /\ apc = "idle" /\ arrivals = 0 /\ calls = 0
  /\ inflight = <<>> /\ last = {} /\ pending = <<>>

death == apc \notin {"idle", "inStats"}

(* die() clears it again when it has closed the socket. *)
kill_bora_threads == apc \in {"post", "join", "shut"}

GilFree == apc \in {"idle", "dead"}

-----------------------------------------------------------------------------
(* The receiver.                                                           *)

RecvTop ==
  /\ rpc = "top"
  /\ rpc' = IF kill_bora_threads THEN "exit" ELSE "wait"
  /\ UNCHANGED <<buffer, rc, arrivals, procVars, iterVars, appVars, biterVars,
                 statVars, bEmpty, bFull, lockR, bwmlist, inflight, pending>>

(* Mutant: no wait for a free slot. *)
RecvWaitNot ==
  /\ rpc = "wait"
  /\ rpc' = "recv"
  /\ UNCHANGED <<buffer, rc, arrivals, procVars, iterVars, appVars, biterVars,
                 statVars, bEmpty, bFull, lockR, bwmlist, inflight, pending>>

RecvWait ==
  /\ rpc = "wait"
  /\ bEmpty > 0
  /\ bEmpty' = bEmpty - 1
  /\ rpc' = "recv"
  /\ UNCHANGED <<buffer, rc, arrivals, procVars, iterVars, appVars, biterVars,
                 statVars, bFull, lockR, bwmlist, inflight, pending>>

(* A slot is filled and given to the processor. *)
Fill(d) ==
  /\ buffer' = [buffer EXCEPT ![rc] = d]
  /\ rc' = (rc + 1) % BufN
  /\ bFull' = bFull + 1
  /\ rpc' = "top"

(* recvfrom returns a datagram. *)
RecvPacket ==
  /\ rpc = "recv"
  /\ apc \notin {"shut", "dead"}
  /\ arrivals < MaxPackets
  /\ arrivals' = arrivals + 1
  /\ \E d \in Traffic[arrivals'] :
       LET nd == [n |-> arrivals', d |-> d]
       IN  Fill(nd) /\ inflight' = Append(inflight, nd)
  /\ UNCHANGED <<procVars, iterVars, appVars, biterVars, statVars, bEmpty, lockR,
                 bwmlist, pending>>

(* recvfrom returns 0 after shutdown and -1 after close. *)
RecvEnd ==
  /\ rpc = "recv"
  /\ \/ apc \in {"shut", "dead"} /\ Fill(Nothing)
     \/ apc = "dead" /\ rpc' = "exit" /\ UNCHANGED <<buffer, rc, bFull>>
  /\ UNCHANGED <<arrivals, procVars, iterVars, appVars, biterVars, statVars, bEmpty,
                 lockR, bwmlist, inflight, pending>>

-----------------------------------------------------------------------------
(* The packet processor.                                                   *)

ProcTop ==
  /\ ppc = "top"
  /\ ppc' = IF kill_bora_threads THEN "exit" ELSE "wait"
  /\ UNCHANGED <<recvVars, prc, last, iterVars, appVars, biterVars, statVars,
                 bEmpty, bFull, lockR, bwmlist, inflight, pending>>

ProcWait ==
  /\ ppc = "wait"
  /\ bFull > 0
  /\ bFull' = bFull - 1
  /\ ppc' = "handle"
  /\ UNCHANGED <<recvVars, prc, last, iterVars, appVars, biterVars, statVars,
                 bEmpty, lockR, bwmlist, inflight, pending>>

(* The unit of bFull was the receiver's, not the one die() posts. *)
Received == inflight # <<>>

(* What addfragment and pop_ack may answer; a duplicate is like a fragment *)
(* that does not complete its block.                                       *)
Answers(eff) ==
  IF "fragment" \in eff THEN {"complete", "kept", "refused"}
  ELSE IF "ack" \in eff THEN {"popped", "unknown"} ELSE {"none"}

(* What the counters grow by before the end. *)
Handled(d, eff, ans) ==
  [PKG |-> 0,
   DATA |-> IF "acknowledge" \in eff THEN AckSize ELSE 0,
   ACK |-> IF "ack" \in eff THEN 1 ELSE 0,
   GARBAGE |-> IF "garbage" \in eff \/ ans \in {"refused", "unknown"} THEN FinalLen(d) ELSE 0]

Plus(a, b) == [x \in Counters |-> a[x] + b[x]]

Count(inc) == stats' = IF death THEN stats ELSE Plus(stats, inc)

(* The bytes of a datagram without its NAT port, which the processor cuts  *)
(* off a second time when it is above 255: those two bytes are not missed  *)
(* here, NatPeerIsReceived shows what they lead to.                        *)
Payload(d) == d.len - (IF d.flags = {} THEN 0 ELSE IF d.port > 255 THEN 4 ELSE 2)

(* What the counters should grow by. *)
Due(d, done) ==
  [PKG |-> 1, DATA |-> Payload(d), ACK |-> IF "ack" \in done THEN 1 ELSE 0,
   GARBAGE |-> IF done \cap {"garbage", "unknown"} # {} THEN Payload(d)
               ELSE IF "refused" \in done THEN Payload(d) - AckSize ELSE 0]

(* stat_lock_r is taken and the datagram handled, up to block_completed. *)
ProcHandle ==
  /\ ppc = "handle"
  /\ ~lockR /\ lockR' = TRUE
  /\ Received
  /\ LET cur == buffer[prc]
         eff == Handling(cur.d)
     IN  \E ans \in Answers(eff) :
           /\ Count(Handled(cur.d, eff, ans))
           /\ due' = IF death THEN due ELSE Plus(due, Due(cur.d, eff \cup {ans}))
           /\ bwmlist' = IF "bw" \in eff THEN <<cur.n>> \o bwmlist ELSE bwmlist
           /\ last' = eff
           /\ ppc' = IF "message" \in eff \/ ans = "complete" THEN "room" ELSE "count"
  /\ UNCHANGED <<recvVars, prc, iterVars, appVars, biterVars, bEmpty, bFull,
                 inflight, pending>>

(* A slot handled before, as it was left; its first byte may be zero now,  *)
(* and then it looks like a raw message.                                   *)
ProcHandleStale ==
  /\ ppc = "handle"
  /\ ~lockR /\ lockR' = TRUE
  /\ ~Received
  /\ ppc' \in IF buffer[prc] = Nothing THEN {"count"} ELSE {"room", "count"}
  /\ UNCHANGED <<recvVars, prc, last, iterVars, appVars, biterVars, statVars,
                 bEmpty, bFull, bwmlist, inflight, pending>>

(* Mutant: it does not wait for room in the ring. *)
BlockCompletedNoWait ==
  /\ ppc = "room"
  /\ ring' = [ring EXCEPT ![bcr] = buffer[prc].n]
  /\ bcr' = (bcr + 1) % NBiter
  /\ biterFull' = biterFull + 1
  /\ pending' = IF death THEN pending ELSE Append(pending, buffer[prc].n)
  /\ ppc' = "count"
  /\ UNCHANGED <<recvVars, prc, last, iterVars, appVars, statVars, biterEmpty,
                 bEmpty, bFull, lockR, bwmlist, inflight>>

(* block_completed, with stat_lock_r held. *)
BlockCompleted ==
  /\ ppc = "room"
  /\ biterEmpty > 0
  /\ biterEmpty' = biterEmpty - 1
  /\ ring' = [ring EXCEPT ![bcr] = buffer[prc].n]
  /\ bcr' = (bcr + 1) % NBiter
  /\ biterFull' = biterFull + 1
  /\ pending' = IF death THEN pending ELSE Append(pending, buffer[prc].n)
  /\ ppc' = "count"
  /\ UNCHANGED <<recvVars, prc, last, iterVars, appVars, statVars,
                 bEmpty, bFull, lockR, bwmlist, inflight>>

(* The end of the loop: buflen and the packet are counted, the slot is     *)
(* free again.                                                             *)
ProcCount ==
  /\ ppc = "count"
  /\ Count([Zero EXCEPT !["PKG"] = 1, !["DATA"] =
               IF buffer[prc] = Nothing THEN 0 ELSE FinalLen(buffer[prc].d)])
  /\ lockR' = FALSE
  /\ prc' = (prc + 1) % BufN
  /\ bEmpty' = bEmpty + 1
  /\ ppc' = "top"
  /\ last' = {}
  /\ inflight' = IF Received THEN Tail(inflight) ELSE inflight
  /\ UNCHANGED <<recvVars, iterVars, appVars, biterVars, due, bFull, bwmlist, pending>>

Processor == \/ ProcTop \/ ProcWait \/ ProcHandle \/ ProcHandleStale
             \/ BlockCompleted \/ ProcCount

-----------------------------------------------------------------------------
(* The iterator.                                                           *)

IterNext ==
  /\ ipc = "idle"
  /\ GilFree
  /\ ipc' = IF death THEN "stop" ELSE "wait"
  /\ UNCHANGED <<recvVars, procVars, icr, item, appVars, biterVars, statVars,
                 bEmpty, bFull, lockR, bwmlist, inflight, pending>>

(* Mutant: the slot is not given back. *)
IterTakeKeeps ==
  /\ ipc = "wait"
  /\ biterFull > 0
  /\ biterFull' = biterFull - 1
  /\ item' = ring[icr]
  /\ icr' = (icr + 1) % NBiter
  /\ ipc' = "back"
  /\ UNCHANGED <<recvVars, procVars, appVars, ring, bcr, biterEmpty, statVars,
                 bEmpty, bFull, lockR, bwmlist, inflight, pending>>

(* sem_wait without the GIL; the slot is copied and given back. *)
IterTake ==
  /\ ipc = "wait"
  /\ biterFull > 0
  /\ biterFull' = biterFull - 1
  /\ item' = ring[icr]
  /\ icr' = (icr + 1) % NBiter
  /\ biterEmpty' = biterEmpty + 1
  /\ ipc' = "back"
  /\ UNCHANGED <<recvVars, procVars, appVars, ring, bcr, statVars,
                 bEmpty, bFull, lockR, bwmlist, inflight, pending>>

(* The GIL again, and the result or StopIteration. *)
IterReturn ==
  /\ ipc = "back"
  /\ GilFree
  /\ IF death THEN ipc' = "stop" /\ UNCHANGED pending
              ELSE ipc' = "idle" /\ pending' = Tail(pending)
  /\ item' = 0
  /\ UNCHANGED <<recvVars, procVars, icr, appVars, biterVars, statVars,
                 bEmpty, bFull, lockR, bwmlist, inflight>>

-----------------------------------------------------------------------------
(* The calls of the application.                                           *)

Call == apc = "idle" /\ calls < MaxCalls /\ calls' = calls + 1

GetInStatsCall ==
  /\ Call
  /\ apc' = "inStats"
  /\ UNCHANGED <<recvVars, procVars, iterVars, outReset, biterVars, statVars,
                 bEmpty, bFull, lockR, bwmlist, inflight, pending>>

(* The counters that the processor may be adding to at this moment. *)
Adding == IF lockR THEN Counters ELSE {}

(* What reset_in_counters leaves: zero, but the one counter that somebody  *)
(* is just adding to may keep its value.                                   *)
ResetInCounters(adding) ==
  \E kept \in {{}} \cup {{x} : x \in adding} :
    stats' = [x \in Counters |-> IF x \in kept THEN stats[x] ELSE 0]

(* The counters are reported, and reset or not. *)
Report(adding) ==
  \/ /\ ResetInCounters(adding)
     /\ due' = [x \in Counters |-> due[x] - stats[x]]
  \/ UNCHANGED <<stats, due>>

(* Mutant: the counters are read and reset without the lock. *)
GetInStatsNoLock ==
  /\ apc = "inStats"
  /\ Report(Adding)
  /\ apc' = "idle"
  /\ UNCHANGED <<recvVars, procVars, iterVars, calls, outReset, biterVars,
                 bEmpty, bFull, lockR, bwmlist, inflight, pending>>

(* get_in_stats has stat_lock_r. *)
GetInStats ==
  /\ apc = "inStats"
  /\ ~lockR
  /\ Report({})
  /\ apc' = "idle"
  /\ UNCHANGED <<recvVars, procVars, iterVars, calls, outReset, biterVars,
                 bEmpty, bFull, lockR, bwmlist, inflight, pending>>

(* get_out_stats(1) resets the counters of the other direction, under      *)
(* stat_lock_s, which the processor does not take.                         *)
GetOutStats ==
  /\ Call
  /\ ResetInCounters(Adding)
  /\ outReset' = TRUE
  /\ UNCHANGED <<recvVars, procVars, iterVars, apc, due, biterVars,
                 bEmpty, bFull, lockR, bwmlist, inflight, pending>>

(* get_bw_msg takes the whole list, under bwm_lock. *)
GetBwMsg ==
  /\ Call
  /\ bwmlist' = <<>>
  /\ UNCHANGED <<recvVars, procVars, iterVars, apc, outReset, biterVars, statVars,
                 bEmpty, bFull, lockR, inflight, pending>>

(* die(): the flags, the unit for the iterator, the sender's shutdown.     *)
(* Every call answers None from now on, so the counters and what is        *)
(* pending are not followed any further.                                   *)
DieKill ==
  /\ apc = "idle"
  /\ apc' = "post"
  /\ biterFull' = biterFull + 1
  /\ stats' = Zero /\ due' = Zero /\ outReset' = FALSE
  /\ pending' = <<>>
  /\ UNCHANGED <<recvVars, procVars, iterVars, calls, ring, bcr, biterEmpty,
                 bEmpty, bFull, lockR, bwmlist, inflight>>

(* Mutant: only the receiver gets a unit. *)
DiePostOne ==
  /\ apc = "post"
  /\ apc' = "join"
  /\ bEmpty' = bEmpty + 1
  /\ UNCHANGED <<recvVars, procVars, iterVars, calls, outReset, biterVars,
                 statVars, bFull, lockR, bwmlist, inflight, pending>>

(* receiver_end_threads. *)
DiePost ==
  /\ apc = "post"
  /\ apc' = "join"
  /\ bFull' = bFull + 1
  /\ bEmpty' = bEmpty + 1
  /\ UNCHANGED <<recvVars, procVars, iterVars, calls, outReset, biterVars,
                 statVars, lockR, bwmlist, inflight, pending>>

(* pthread_join of the processor and shutdown; close and the flag falls.    *)
DieEnd ==
  /\ \/ apc = "join" /\ ppc = "exit" /\ apc' = "shut"
     \/ apc = "shut" /\ apc' = "dead"
  /\ UNCHANGED <<recvVars, procVars, iterVars, calls, outReset, biterVars, statVars,
                 bEmpty, bFull, lockR, bwmlist, inflight, pending>>

-----------------------------------------------------------------------------
Iterator == IterNext \/ IterTake \/ IterReturn

Next == \/ RecvTop \/ RecvWait \/ RecvPacket \/ RecvEnd
        \/ Processor \/ Iterator
        \/ GetInStatsCall \/ GetInStats \/ GetOutStats \/ GetBwMsg
        \/ DieKill \/ DiePost \/ DieEnd

Spec == Init /\ [][Next]_vars

(* The threads run when they can; the iterating one gets the GIL if it is  *)
(* free again and again, and goes on iterating: it is a for loop.  Nothing *)
(* has to arrive and no call has to be made; a call that was made goes on. *)
FairSpec ==
  /\ Spec
  /\ WF_vars(RecvTop \/ RecvWait \/ RecvEnd)
  /\ WF_vars(Processor)
  /\ SF_vars(Iterator)
  /\ WF_vars(GetInStats \/ DiePost \/ DieEnd)

-----------------------------------------------------------------------------
(* Properties.                                                             *)

(* Every variable keeps its type; the slots of both rings are accounted    *)
(* for by their semaphores and by the threads that are using one.          *)
TypeOK ==
  /\ DOMAIN buffer = 0..BufN-1 /\ rc \in 0..BufN-1 /\ prc \in 0..BufN-1
  /\ rpc \in {"top", "wait", "recv", "exit"}
  /\ ppc \in {"top", "wait", "handle", "room", "count", "exit"}
  /\ lockR = (ppc \in {"room", "count"})
  /\ ring \in [0..NBiter-1 -> 0..MaxPackets] /\ bcr \in 0..NBiter-1 /\ icr \in 0..NBiter-1
  /\ ipc \in {"idle", "wait", "back", "stop"} /\ item \in 0..MaxPackets
  /\ apc \in {"idle", "inStats", "post", "join", "shut", "dead"}
  /\ arrivals \in 0..MaxPackets /\ calls \in 0..MaxCalls /\ outReset \in BOOLEAN
  /\ ~death => /\ bEmpty + bFull + (IF rpc = "recv" THEN 1 ELSE 0)
                    + (IF ppc = "handle" \/ lockR THEN 1 ELSE 0) = BufN
               /\ biterEmpty + biterFull = NBiter

(* The datagrams that packet_send sends and the processor cannot handle:   *)
(* the sender has a NAT port above 255, a raw message was the second       *)
(* packet of a pair, a cookie was retransmitted, a raw message has fewer   *)
(* than three bytes.                                                       *)
Mishandled(d) ==
  \/ d.flags # {} /\ d.port > 255
  \/ d.kind = "raw" /\ "CONSECUTIVE" \in d.flags
  \/ d.kind = "cookie" /\ "RETRANSMISSION" \in d.flags
  \/ d.kind = "raw" /\ d.len <= 3

(* Datagrams are handled in the order of their arrival, each once and none *)
(* overwritten in the ring; each has the effect it was sent for, but for   *)
(* the four kinds above, which have none.                                  *)
HandledAsSent ==
  ~death /\ ppc \in {"handle", "room", "count"} =>
    LET d == Head(inflight).d
    IN  /\ buffer[prc] = Head(inflight)
        /\ ppc # "handle" =>
             last \ {"garbage"} = IF Mishandled(d) THEN {} ELSE Purpose[d.kind]

(* Until die(), the iterator returns every raw message and every completed *)
(* block once, in the order in which they arrived.                         *)
IteratorInOrder ==
  ~death => /\ ipc = "back" => item = Head(pending)
            /\ \A i \in 1..Len(pending)-1 : pending[i] < pending[i+1]

(* What get_in_stats would report is what was handled since its last       *)
(* reset: nothing is counted twice, whatever races, and nothing is lost    *)
(* unless get_out_stats reset the counters.  The bytes of a datagram are   *)
(* those left of it (Payload), two too few from a NAT port above 255.      *)
InCountersExact ==
  ~lockR /\ ~death => /\ \A x \in Counters : stats[x] <= due[x]
                      /\ outReset \/ stats = due

(* The processor waits for room in the iterator's ring, which only a       *)
(* thread without the GIL could make.                                      *)
Stuck ==
  /\ ppc = "room" /\ biterEmpty = 0
  /\ ~GilFree
  /\ ipc # "wait"

(* As long as the application iterates, everything received is handled,    *)
(* and next() returns what it announces; only a get_in_stats that waits    *)
(* for the processor, while the processor waits for the iterating thread,  *)
(* or die() stop it.                                                       *)
ReceivedIsReturned == 
  []<>((inflight = <<>> /\ pending = <<>>) \/ Stuck \/ death)

(* get_in_stats and die() return, unless the processor is stuck; and the   *)
(* receiver thread, which nobody joins, ends or waits for a slot for ever. *)
CallsReturn ==
  /\ (apc = "inStats") ~> (apc # "inStats" \/ Stuck)
  /\ death ~> (apc = "dead" \/ Stuck)
  /\ (apc = "dead") ~> (rpc = "exit" \/ (rpc = "wait" /\ bEmpty = 0))

(* A peer that set its NAT port is received like any other. *)
NatPeerIsReceived ==
  inflight # <<>> => (Head(inflight).d.port # 0 => "garbage" \notin last)
=============================================================================
