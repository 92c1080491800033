---------------------------- MODULE BlockPuller ----------------------------
(***************************************************************************)
(* The puller thread (packet_sender.c send_pull, bpuller_bridge.c, the     *)
(* iterator bora_BPuller in bora.c): when the send queue runs low the      *)
(* sender signals produceBlock, the puller hands a unit to the iterator    *)
(* and waits for blockProduced, which sendblock signals.  Both conditions  *)
(* are waited for without a predicate and signalled without the mutex, so  *)
(* a signal nobody waits for is lost; a wait may also end without one.     *)
(*                                                                         *)
(* The send queue is reduced to the number of its packets and `other`      *)
(* stands for the acks and retransmissions that also make the sender run   *)
(* (SendQueues).  The Python thread that iterates owns the GIL except in   *)
(* sem_wait; die() is called by another Python thread and keeps the GIL.   *)
(***************************************************************************)
EXTENDS Integers

CONSTANTS
  NPuller,     \* N_BPULLER
  NSend,       \* N_SEND, slots of send_buf
  Threshold,   \* HIT_TRESHOLD: fewer packets in send_buf than this
  Fragments    \* the numbers of fragments the blocks of the application have

ASSUME PullerConstants ==
  /\ NPuller \in Nat \ {0}
  /\ NSend \in Nat \ {0}
  /\ Threshold \in 1..NSend
  /\ Fragments \subseteq Nat \ {0}

VARIABLES
  fsend,     \* f_send
  other,     \* acks and retransmissions queued, 0 or 1
  sFull,     \* semaphore: packets to send
  spc,       \* the sender: "top", "enter", "wait", "low", "exit"
  z,         \* it is sending the second packet of a pair
  upc,       \* the puller: "top", "pb", "pbWait", "test", "pull", "bp", "bpWait", "exit"
  full,      \* s_bpuller_full: pulls the iterator has not returned
  empty,     \* s_bpuller_empty: room for pulls
  apc,       \* the application: "idle", "next", "back", "asked", "sig", "none", "stop"
  dpc,       \* die(): "run", "post", "s1".."s4", "joinS", "joinP", "done"
  answered,  \* history: send_block was called since the last pull
  woken      \* history: the wait for blockProduced ended by itself since then

senderVars == <<fsend, sFull, spc, z>>
historyVars == <<answered, woken>>
vars == <<senderVars, other, upc, full, empty, apc, dpc, historyVars>>

Init ==
  /\ fsend = 0 /\ other = 0 /\ sFull = 0
  /\ spc = "top" /\ z = FALSE
  /\ upc = "top"
  /\ full = 0 /\ empty = NPuller
  /\ apc = "idle" /\ dpc = "run"
  /\ answered = TRUE /\ woken = FALSE

kill == dpc # "run"

(* The thread in die() has the GIL until it returns. *)
GilFree == dpc \in {"run", "done"}

(* HIT_TRESHOLD: send_buf runs low.  The product with f_send is divided by *)
(* an unsigned number: a negative one is large.                            *)
HitThreshold == fsend \in 0..(Threshold - 1)

(* pthread_cond_signal: the puller at place w goes on at place to. *)
Signal(w, to) == upc' = IF upc = w THEN to ELSE upc

SignalProduceBlock == Signal("pbWait", "test")

SignalBlockProduced == Signal("bpWait", "top")

-----------------------------------------------------------------------------
(* The sender.                                                             *)

(* The top of the loop; a pair needs a packet in send_buf. *)
SenderTop ==
  /\ spc = "top"
  /\ IF kill
     THEN spc' = "exit" /\ UNCHANGED z
     ELSE spc' = "enter" /\ z' \in {b \in BOOLEAN : b => fsend > 0}
  /\ UNCHANGED <<fsend, sFull, other, upc, full, empty, apc, dpc, historyVars>>

(* The test at the start of packet_send, under send_lock. *)
SenderEnter ==
  /\ spc = "enter"
  /\ spc' = "wait"
  /\ IF HitThreshold THEN SignalProduceBlock ELSE UNCHANGED upc
  /\ UNCHANGED <<fsend, sFull, z, other, full, empty, apc, dpc, historyVars>>

(* The rest of packet_send: one packet goes out. *)
SenderSend ==
  /\ spc = "wait"
  /\ sFull > 0
  /\ sFull' = sFull - 1
  /\ IF ~z /\ other > 0
     THEN other' = other - 1 /\ UNCHANGED fsend
     ELSE fsend' = fsend - 1 /\ UNCHANGED other
  /\ spc' = IF z THEN "enter" ELSE "low"
  /\ z' = FALSE
  /\ UNCHANGED <<upc, full, empty, apc, dpc, historyVars>>

(* The test after packet_send. *)
SenderLow ==
  /\ spc = "low"
  /\ spc' = "top"
  /\ IF HitThreshold THEN SignalProduceBlock ELSE UNCHANGED upc
  /\ UNCHANGED <<fsend, sFull, z, other, full, empty, apc, dpc, historyVars>>

Sender == SenderTop \/ SenderEnter \/ SenderSend \/ SenderLow

(* The processor queues an ack, or bws_set a retransmission. *)
QueueOther ==
  /\ other = 0
  /\ dpc \notin {"joinP", "done"}
  /\ other' = 1
  /\ sFull' = sFull + 1
  /\ UNCHANGED <<fsend, spc, z, upc, full, empty, apc, dpc, historyVars>>

-----------------------------------------------------------------------------
(* The puller.                                                             *)

(* The two tests of kill_bora_threads, at the top and after the first wait. *)
PullerTest(at, to) ==
  /\ upc = at
  /\ upc' = IF kill THEN "exit" ELSE to
  /\ UNCHANGED <<senderVars, other, full, empty, apc, dpc, historyVars>>

(* pthread_cond_wait begins. *)
PullerWait(at, to) ==
  /\ upc = at
  /\ upc' = to
  /\ UNCHANGED <<senderVars, other, full, empty, apc, dpc, historyVars>>

(* A wait may end although nobody signalled. *)
PullerSpurious ==
  /\ \/ upc = "pbWait" /\ upc' = "test" /\ UNCHANGED woken
     \/ upc = "bpWait" /\ upc' = "top" /\ woken' = TRUE
  /\ UNCHANGED <<senderVars, other, full, empty, apc, dpc, answered>>

(* Mutant: the puller goes back to the top without waiting for the block. *)
BlockPullNoWait ==
  /\ upc = "pull"
  /\ empty > 0
  /\ empty' = empty - 1
  /\ full' = full + 1
  /\ upc' = "top"
  /\ answered' = FALSE /\ woken' = FALSE
  /\ UNCHANGED <<senderVars, other, apc, dpc>>

(* block_pull: a unit for the iterator, when there is room. *)
BlockPull ==
  /\ upc = "pull"
  /\ empty > 0
  /\ empty' = empty - 1
  /\ full' = full + 1
  /\ upc' = "bp"
  /\ answered' = FALSE /\ woken' = FALSE
  /\ UNCHANGED <<senderVars, other, apc, dpc>>

Puller == \/ PullerTest("top", "pb") \/ PullerWait("pb", "pbWait")
          \/ PullerTest("test", "pull") \/ BlockPull \/ PullerWait("bp", "bpWait")

-----------------------------------------------------------------------------
(* The application.                                                        *)

(* next() on the iterator, up to sem_wait; death ends the iteration. *)
IterNext ==
  /\ apc = "idle"
  /\ GilFree
  /\ apc' = IF kill THEN "stop" ELSE "next"
  /\ UNCHANGED <<senderVars, other, upc, full, empty, dpc, historyVars>>

(* Mutant: the room is not given back. *)
IterTakeNoPost ==
  /\ apc = "next"
  /\ full > 0
  /\ full' = full - 1
  /\ apc' = "back"
  /\ UNCHANGED <<senderVars, other, upc, empty, dpc, historyVars>>

(* sem_wait(&s_bpuller_full) and sem_post(&s_bpuller_empty), without GIL. *)
IterTake ==
  /\ apc = "next"
  /\ full > 0
  /\ full' = full - 1
  /\ empty' = empty + 1
  /\ apc' = "back"
  /\ UNCHANGED <<senderVars, other, upc, dpc, historyVars>>

(* The GIL again, and the result or StopIteration. *)
IterReturn ==
  /\ apc = "back"
  /\ GilFree
  /\ apc' = IF kill THEN "stop" ELSE "asked"
  /\ UNCHANGED <<senderVars, other, upc, full, empty, dpc, historyVars>>

(* send_block, asked for or not: the fragments that find room are queued;  *)
(* a block that is not in the cache has none.  After die() the call has no *)
(* effect.                                                                 *)
SendBlock ==
  /\ apc \in {"idle", "asked"}
  /\ GilFree /\ ~kill
  /\ \/ \E k \in Fragments :
          LET fit == IF fsend + k <= NSend THEN k ELSE NSend - fsend
          IN  fsend' = fsend + fit /\ sFull' = sFull + fit /\ apc' = "sig"
     \/ apc' = "none" /\ UNCHANGED <<fsend, sFull>>
  /\ UNCHANGED <<spc, z, other, upc, full, empty, dpc, historyVars>>

(* Mutant: no signal for a block that was queued. *)
SendBlockSignalMissing ==
  /\ apc \in {"sig", "none"}
  /\ apc' = "idle"
  /\ IF apc = "none" THEN SignalBlockProduced ELSE UNCHANGED upc
  /\ answered' = TRUE
  /\ UNCHANGED <<senderVars, other, full, empty, dpc, woken>>

(* Its last step. *)
SendBlockSignal ==
  /\ apc \in {"sig", "none"}
  /\ apc' = "idle"
  /\ SignalBlockProduced
  /\ answered' = TRUE
  /\ UNCHANGED <<senderVars, other, full, empty, dpc, woken>>

-----------------------------------------------------------------------------
(* die()                                                                   *)

(* death and kill_bora_threads are set, and s_bpuller_full is posted. *)
DieKill ==
  /\ dpc = "run"
  /\ apc \in {"idle", "next", "back", "asked"}
  /\ dpc' = "post"
  /\ full' = full + 1
  /\ UNCHANGED <<senderVars, other, upc, empty, apc, historyVars>>

(* Mutant: sFull is not posted. *)
DiePostMissing ==
  /\ dpc = "post"
  /\ dpc' = "s1"
  /\ UNCHANGED <<senderVars, other, upc, full, empty, apc, historyVars>>

(* sender_end_threads: sFull, then four signals. *)
DiePost ==
  /\ dpc = "post"
  /\ sFull' = sFull + 1
  /\ dpc' = "s1"
  /\ UNCHANGED <<fsend, spc, z, other, upc, full, empty, apc, historyVars>>

DieSignal ==
  /\ \/ dpc = "s1" /\ SignalBlockProduced /\ dpc' = "s2"
     \/ dpc = "s2" /\ SignalProduceBlock  /\ dpc' = "s3"
     \/ dpc = "s3" /\ SignalBlockProduced /\ dpc' = "s4"
     \/ dpc = "s4" /\ SignalProduceBlock  /\ dpc' = "joinS"
  /\ UNCHANGED <<senderVars, other, full, empty, apc, historyVars>>

(* pthread_join of the sender, then of the puller. *)
DieJoin ==
  /\ \/ dpc = "joinS" /\ spc = "exit" /\ dpc' = "joinP"
     \/ dpc = "joinP" /\ upc = "exit" /\ dpc' = "done"
  /\ UNCHANGED <<senderVars, other, upc, full, empty, apc, historyVars>>

-----------------------------------------------------------------------------
Next == \/ Sender \/ QueueOther \/ Puller \/ PullerSpurious
        \/ IterNext \/ IterTake \/ IterReturn \/ SendBlock \/ SendBlockSignal
        \/ DieKill \/ DiePost \/ DieSignal \/ DieJoin

Spec == Init /\ [][Next]_vars

(* Every thread runs when it can, the one in die() too.  Nobody is obliged *)
(* to call, to iterate or to queue anything, and no wait has to end by     *)
(* itself.                                                                 *)
FairSpec ==
  /\ Spec
  /\ WF_vars(Sender) /\ WF_vars(Puller)
  /\ WF_vars(IterTake \/ IterReturn \/ SendBlockSignal)
  /\ WF_vars(DiePost \/ DieSignal \/ DieJoin)

-----------------------------------------------------------------------------
(* Properties.                                                             *)

(* Every variable keeps its type; no more pulls are handed out than the    *)
(* bridge has room for, but for the unit die() posts, and f_send falls     *)
(* below zero only for the unit of sFull that die() posts.                 *)
TypeOK ==
  /\ fsend \in (IF kill THEN -1 ELSE 0)..NSend
  /\ other \in {0, 1}
  /\ sFull \in 0..(NSend + 2)
  /\ spc \in {"top", "enter", "wait", "low", "exit"} /\ z \in BOOLEAN
  /\ upc \in {"top", "pb", "pbWait", "test", "pull", "bp", "bpWait", "exit"}
  /\ full \in 0..(NPuller + 1) /\ empty \in 0..(NPuller + 1)
  /\ full + empty = NPuller + (IF kill THEN 1 ELSE 0)
  /\ apc \in {"idle", "next", "back", "asked", "sig", "none", "stop"}
  /\ dpc \in {"run", "post", "s1", "s2", "s3", "s4", "joinS", "joinP", "done"}
  /\ answered \in BOOLEAN /\ woken \in BOOLEAN

(* Until die(), the application is asked for one block at a time: between  *)
(* two units that block_pull hands to the iterator there was a call of     *)
(* send_block, whichever signals were lost or came late, unless the wait   *)
(* for blockProduced, which has no predicate, ended by itself in between:  *)
(* then the puller asks again without an answer.                           *)
OneBlockAtATime == [][full' > full /\ ~kill' => answered \/ woken]_vars

(* Blocks the application sends repair every lost wakeup: as long as some  *)
(* are sent, the puller asks for a block again and again, unless the queue *)
(* is well filled or nobody takes the pulls, until die().                  *)
PullsRecover ==
  []<>(apc = "sig") => []<>(upc = "bp" \/ fsend >= Threshold \/ empty = 0 \/ kill)

(* The puller waits for a signal that was sent before it waited, or for    *)
(* room that only the application, which die() keeps out, could make.      *)
PullerMissedIt ==
  /\ dpc = "joinP"
  /\ upc \in {"pbWait", "bpWait"} \/ (upc = "pull" /\ empty = 0)

(* die() returns, unless the puller missed the signals.  The sender always *)
(* ends, and the Python thread in next() too.                              *)
DieReturnsOrMissed ==
  /\ kill ~> (dpc = "done" \/ PullerMissedIt)
  /\ (apc = "next" /\ kill) ~> (apc # "next")

(* die() kills the generators and returns. *)
DieReturns == kill ~> (dpc = "done")
=============================================================================
