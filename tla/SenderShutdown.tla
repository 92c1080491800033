--------------------------- MODULE SenderShutdown ---------------------------
(***************************************************************************)
(* die() as the sender thread sees it (bora.c die, packet_sender.c         *)
(* sender_end_threads): the flag kill_bora_threads, one extra unit of      *)
(* sFull and of qEmpty, and pthread_join of the sender.  die() keeps the   *)
(* GIL, so the application makes no other call from then on; the packet    *)
(* processor is stopped only after the sender and still calls send_data.   *)
(* The extra unit stands for no packet: a sender blocked on sFull goes     *)
(* through packet_send once more, with f_send = 0.                         *)
(***************************************************************************)
EXTENDS SendQueues

VARIABLE dpc    \* where die() is: "run", "killed", "posted", "joined"

shutVars == <<vars, dpc>>

ShutInit == Init /\ dpc = "run"

(* die is called; kill_bora_threads is set. *)
DieKill ==
  /\ dpc = "run"
  /\ tpc[App] = "idle"
  /\ kill' = TRUE
  /\ dpc' = "killed"
  /\ UNCHANGED <<queueVars, sFull, qEmpty, ckFull, threadVars, senderVars, wire, cookies,
                 histVars>>

(* Mutant: sender_end_threads does not post sFull. *)
SenderEndThreadsNoPost ==
  /\ dpc = "killed"
  /\ qEmpty' = qEmpty + 1
  /\ dpc' = "posted"
  /\ UNCHANGED <<queueVars, sFull, ckFull, threadVars, senderVars, kill, wire, cookies,
                 histVars>>

(* The posts of sender_end_threads. *)
SenderEndThreads ==
  /\ dpc = "killed"
  /\ sFull' = sFull + 1
  /\ qEmpty' = qEmpty + 1
  /\ dpc' = "posted"
  /\ UNCHANGED <<queueVars, ckFull, threadVars, senderVars, kill, wire, cookies, histVars>>

(* The break at the top of send_packet's loop. *)
SenderExit ==
  /\ spc = "top"
  /\ kill
  /\ spc' = "exit"
  /\ UNCHANGED <<queueVars, sFull, qEmpty, ckFull, threadVars, z, d, src, lasthost, kill,
                 wire, cookies, histVars, dpc>>

(* pthread_join(sender_t) returns. *)
SenderJoined ==
  /\ dpc = "posted"
  /\ spc = "exit"
  /\ dpc' = "joined"
  /\ UNCHANGED vars

(* Nothing calls send_data from Python once die() runs.  Cookies, which    *)
(* leave packets behind in the rings, are left to SendQueues.              *)
Running(t) == t # App \/ dpc = "run"

ShutNext ==
  \/ (Sender \/ \E t \in Threads : Running(t) /\ SendData(t)) /\ UNCHANGED dpc
  \/ DieKill
  \/ SenderEndThreads
  \/ SenderExit
  \/ SenderJoined

ShutSpec == ShutInit /\ [][ShutNext]_shutVars

(* As in SendQueues; the thread that runs die() keeps running too. *)
ShutFairSpec ==
  /\ ShutSpec
  /\ WF_shutVars((Sender /\ UNCHANGED dpc) \/ SenderExit)
  /\ \A t \in Threads : WF_shutVars((SendDataInsert(t) \/ SendDataPost(t)) /\ UNCHANGED dpc)
  /\ WF_shutVars(SenderEndThreads \/ SenderJoined)

-----------------------------------------------------------------------------
(* The unit sFull that sender_end_threads posts is for no packet, and      *)
(* packet_send does not test f_send: one slot that was already sent may be *)
(* sent again, never two, and only by die(): the other rings never         *)
(* underflow, and no ring holds more than its slots.                       *)
AtMostOneStale ==
  /\ f["prio"] \in 0..N /\ f["retr"] \in 0..N /\ f["send"] \in -1..N
  /\ f["send"] = -1 => dpc \in {"posted", "joined"}

(* Once die() has set kill_bora_threads the sender thread leaves its loop  *)
(* and pthread_join returns, although the flag is tested only at the top   *)
(* of the loop and the second packet of a pair waits on sFull again.       *)
DieReturns == kill ~> (dpc = "joined")
=============================================================================
