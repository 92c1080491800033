----------------------------- MODULE BwControl -----------------------------
(***************************************************************************)
(* Bandwidth control: the thread of bw_stats.c, the iterator bora_BWIter   *)
(* and bws_set of bora.c, with the statistics of ack_received.c that the   *)
(* iterator reports and the counters of packet_send.                       *)
(*                                                                         *)
(* In every round the thread takes bwLock, which stops the sender; next()  *)
(* reports and keeps ack_list, which stops the packet processor with       *)
(* stat_lock_r held; bws_set gives both back.  A Python thread iterates,   *)
(* another may call die(); whoever is inside a call has the GIL, except in *)
(* sem_wait.  Retransmissions at bws_set are in Retransmission.            *)
(***************************************************************************)
EXTENDS Integers, FiniteSets, FiniteSetsExt

CONSTANTS
  Peers,     \* hosts that acknowledge
  Seqs,      \* the seq numbers of the packets they acknowledge
  MaxSent    \* bound: packets sent

ASSUME BwConstants == Seqs \subseteq Nat \ {0} /\ IsFiniteSet(Seqs) /\ MaxSent \in Nat

VARIABLES
  bpc,        \* bws_thread: "top", "sleep", "wait", "exit"
  bwLock,     \* bwLock is held by bws_thread
  hasdata, processed,   \* s_bws_hasdata, s_bws_processed
  spc,        \* the sender: "top", "pace", "xmit", "load", "store", "exit"
  tmp,        \* the counter as the sender loaded it
  stats,      \* stats_s[O_PKG_COUNTER]
  ppc,        \* the processor: "top", "ack", "exit"; it has stat_lock_r at "ack"
  ackList,    \* ack_list is held by the iterating thread
  store,      \* store[p]: the seq numbers of the acks in peer p's ack_store
  lastAcked,  \* lastAcked[p]: last_acked of p
  highest,    \* highest_seq: the seq number of an AckStore, 0 for NULL
  apc,        \* the iterating thread: "idle", "wait", "back", "held", "inStats",
              \* "asked", "release", "stop"
  dpc,        \* die(): "run", "post", "joinB", "joinS", "joinP", "done"
  acked,      \* history: the acks received
  sent,       \* history: packets sent
  reported,   \* history: packets reported
  slips,      \* history: packets sent since bws_thread took bwLock
  early       \* history: some report was made while the sender was sending

bwsVars == <<bpc, bwLock, slips>>
senderVars == <<spc, tmp, sent>>
peerVars == <<store, lastAcked, highest>>
vars == <<bwsVars, hasdata, processed, senderVars, stats, ppc, ackList, peerVars,
          apc, dpc, acked, reported, early>>

Init ==
  /\ bpc = "top" /\ bwLock = FALSE /\ slips = 0
  /\ hasdata = 0 /\ processed = 0
  /\ spc = "top" /\ tmp = 0 /\ sent = 0 /\ stats = 0
  /\ ppc = "top" /\ ackList = FALSE
  /\ store = [p \in Peers |-> {}] /\ lastAcked = [p \in Peers |-> 0] /\ highest = 0
  /\ apc = "idle" /\ dpc = "run"
  /\ acked = {} /\ reported = 0 /\ early = FALSE

death == dpc # "run"

GilFree == apc \notin {"inStats", "release"} /\ dpc \in {"run", "done"}

-----------------------------------------------------------------------------
(* bws_thread                                                              *)

BwsTop ==
  /\ bpc = "top"
  /\ bpc' = IF death THEN "exit" ELSE "sleep"
  /\ UNCHANGED <<bwLock, slips, hasdata, processed, senderVars, stats, ppc, ackList,
                 peerVars, apc, dpc, acked, reported, early>>

(* Mutant: bwLock is given back before the report was processed. *)
BwsRoundShort ==
  /\ bpc = "sleep"
  /\ ~bwLock
  /\ slips' = 0
  /\ hasdata' = hasdata + 1
  /\ bpc' = "wait"
  /\ UNCHANGED <<bwLock, processed, senderVars, stats, ppc, ackList, peerVars, apc, dpc,
                 acked, reported, early>>

(* The interval is over: bwLock and s_bws_hasdata. *)
BwsRound ==
  /\ bpc = "sleep"
  /\ ~bwLock
  /\ bwLock' = TRUE /\ slips' = 0
  /\ hasdata' = hasdata + 1
  /\ bpc' = "wait"
  /\ UNCHANGED <<processed, senderVars, stats, ppc, ackList, peerVars, apc, dpc,
                 acked, reported, early>>

BwsProcessed ==
  /\ bpc = "wait"
  /\ processed > 0
  /\ processed' = processed - 1
  /\ bwLock' = FALSE
  /\ bpc' = "top"
  /\ UNCHANGED <<slips, hasdata, senderVars, stats, ppc, ackList, peerVars, apc, dpc,
                 acked, reported, early>>

Bws == BwsTop \/ BwsRound \/ BwsProcessed

-----------------------------------------------------------------------------
(* The sender, as far as bwLock and the counters go.                       *)

SenderTop ==
  /\ spc = "top"
  /\ \/ death /\ spc' = "exit"
     \/ ~death /\ sent < MaxSent /\ spc' = "pace"
  /\ UNCHANGED <<tmp, sent, bwsVars, hasdata, processed, stats, ppc, ackList, peerVars,
                 apc, dpc, acked, reported, early>>

(* Mutant: the sleep time is computed without bwLock. *)
SenderPaceNoLock ==
  /\ spc = "pace"
  /\ spc' = "xmit"
  /\ UNCHANGED <<tmp, sent, bwsVars, hasdata, processed, stats, ppc, ackList, peerVars,
                 apc, dpc, acked, reported, early>>

(* bwLock around the computation of the sleep time. *)
SenderPace ==
  /\ spc = "pace"
  /\ ~bwLock
  /\ spc' = "xmit"
  /\ UNCHANGED <<tmp, sent, bwsVars, hasdata, processed, stats, ppc, ackList, peerVars,
                 apc, dpc, acked, reported, early>>

(* sendto. *)
SenderXmit ==
  /\ spc = "xmit"
  /\ spc' = "load"
  /\ sent' = sent + 1
  /\ slips' = IF bwLock THEN slips + 1 ELSE slips
  /\ UNCHANGED <<tmp, bpc, bwLock, hasdata, processed, stats, ppc, ackList, peerVars,
                 apc, dpc, acked, reported, early>>

(* O_PKG_COUNTER is increased, under stat_lock_s, which neither the report *)
(* nor reset_out_counters takes.                                           *)
SenderCount ==
  /\ \/ spc = "load" /\ spc' = "store" /\ tmp' = stats /\ UNCHANGED stats
     \/ spc = "store" /\ spc' = "top" /\ stats' = tmp + 1 /\ tmp' = 0
  /\ UNCHANGED <<sent, bwsVars, hasdata, processed, ppc, ackList, peerVars,
                 apc, dpc, acked, reported, early>>

Sender == SenderTop \/ SenderPace \/ SenderXmit \/ SenderCount

-----------------------------------------------------------------------------
(* The packet processor.                                                   *)

(* An ack is handled, from here on with stat_lock_r, or the thread ends. *)
ProcTop ==
  /\ ppc = "top"
  /\ \/ death /\ ppc' = "exit"
     \/ acked # Seqs /\ ppc' = "ack"
  /\ UNCHANGED <<bwsVars, hasdata, processed, senderVars, stats, ackList, peerVars,
                 apc, dpc, acked, reported, early>>

(* ack_received under ack_list, and the end of the loop. *)
AckReceived ==
  /\ ppc = "ack"
  /\ ~ackList
  /\ \E p \in Peers, s \in Seqs \ acked :
       /\ acked' = acked \cup {s}
       /\ store' = [store EXCEPT ![p] = @ \cup {s}]
       /\ lastAcked' = [lastAcked EXCEPT ![p] = @ + 1]
       /\ highest' = IF highest = 0 \/ highest < s THEN s ELSE highest
  /\ ppc' = "top"
  /\ UNCHANGED <<bwsVars, hasdata, processed, senderVars, stats, ackList,
                 apc, dpc, reported, early>>

Processor == ProcTop \/ AckReceived

-----------------------------------------------------------------------------
(* The iterating thread.                                                   *)

IterNext ==
  /\ apc = "idle"
  /\ GilFree
  /\ apc' = IF death THEN "stop" ELSE "wait"
  /\ UNCHANGED <<bwsVars, hasdata, processed, senderVars, stats, ppc, ackList, peerVars,
                 dpc, acked, reported, early>>

IterTake ==
  /\ apc = "wait"
  /\ hasdata > 0
  /\ hasdata' = hasdata - 1
  /\ apc' = "back"
  /\ UNCHANGED <<bwsVars, processed, senderVars, stats, ppc, ackList, peerVars,
                 dpc, acked, reported, early>>

(* get_ack_store and the report: every store is emptied, highest_seq is    *)
(* freed with it, and ack_list stays locked.                               *)
IterReport ==
  /\ apc = "back"
  /\ GilFree
  /\ IF death
     THEN apc' = "stop" /\ UNCHANGED <<ackList, store, reported, early>>
     ELSE /\ ~ackList
          /\ ackList' = TRUE
          /\ store' = [p \in Peers |-> {}]
          /\ reported' = reported + stats
          /\ early' = (early \/ spc \in {"xmit", "load", "store"})
          /\ apc' = "held"
  /\ UNCHANGED <<bwsVars, hasdata, processed, senderVars, stats, ppc, lastAcked, highest,
                 dpc, acked>>

(* get_in_stats between the report and bws_set: the call and its lock. *)
GetInStatsCall ==
  /\ apc = "held"
  /\ GilFree /\ ~death
  /\ apc' = "inStats"
  /\ UNCHANGED <<bwsVars, hasdata, processed, senderVars, stats, ppc, ackList, peerVars,
                 dpc, acked, reported, early>>

GetInStats ==
  /\ apc = "inStats"
  /\ ppc # "ack"
  /\ apc' = "asked"
  /\ UNCHANGED <<bwsVars, hasdata, processed, senderVars, stats, ppc, ackList, peerVars,
                 dpc, acked, reported, early>>

(* bws_set up to reset_out_counters; after die() it does nothing. *)
BwsSet ==
  /\ apc \in {"held", "asked"}
  /\ GilFree
  /\ IF death THEN apc' = "idle" /\ UNCHANGED stats
              ELSE apc' = "release" /\ stats' = 0
  /\ UNCHANGED <<bwsVars, hasdata, processed, senderVars, ppc, ackList, peerVars,
                 dpc, acked, reported, early>>

(* Mutant: highest_seq keeps pointing to what the report freed. *)
ReleaseAckStoreKeep ==
  /\ apc = "release"
  /\ lastAcked' = [p \in Peers |-> 0]
  /\ ackList' = FALSE
  /\ processed' = processed + 1
  /\ apc' = "idle"
  /\ UNCHANGED <<bwsVars, hasdata, senderVars, stats, ppc, store, highest, dpc, acked,
                 reported, early>>

(* Mutant: bws_thread is not told. *)
ReleaseAckStoreSilent ==
  /\ apc = "release"
  /\ lastAcked' = [p \in Peers |-> 0]
  /\ highest' = 0
  /\ ackList' = FALSE
  /\ apc' = "idle"
  /\ UNCHANGED <<bwsVars, hasdata, processed, senderVars, stats, ppc, store, dpc, acked,
                 reported, early>>

(* The rest of bws_set: release_ack_store and s_bws_processed. *)
ReleaseAckStore ==
  /\ apc = "release"
  /\ lastAcked' = [p \in Peers |-> 0]
  /\ highest' = 0
  /\ ackList' = FALSE
  /\ processed' = processed + 1
  /\ apc' = "idle"
  /\ UNCHANGED <<bwsVars, hasdata, senderVars, stats, ppc, store, dpc, acked,
                 reported, early>>

-----------------------------------------------------------------------------
(* die(), called by another thread.                                        *)

(* The flags and s_bws_hasdata; the history of the reports ends. *)
DieKill ==
  /\ dpc = "run"
  /\ GilFree
  /\ dpc' = "post"
  /\ hasdata' = hasdata + 1
  /\ reported' = 0 /\ early' = FALSE
  /\ UNCHANGED <<bwsVars, processed, senderVars, stats, ppc, ackList, peerVars, apc,
                 acked>>

(* Mutant: s_bws_processed is not posted. *)
BwsEndThreadsOne ==
  /\ dpc = "post"
  /\ dpc' = "joinB"
  /\ hasdata' = hasdata + 1
  /\ UNCHANGED <<bwsVars, processed, senderVars, stats, ppc, ackList, peerVars, apc,
                 acked, reported, early>>

BwsEndThreads ==
  /\ dpc = "post"
  /\ dpc' = "joinB"
  /\ hasdata' = hasdata + 1 /\ processed' = processed + 1
  /\ UNCHANGED <<bwsVars, senderVars, stats, ppc, ackList, peerVars, apc,
                 acked, reported, early>>

(* The threads are joined one after the other. *)
DieJoin ==
  /\ \/ dpc = "joinB" /\ bpc = "exit" /\ dpc' = "joinS"
     \/ dpc = "joinS" /\ spc = "exit" /\ dpc' = "joinP"
     \/ dpc = "joinP" /\ ppc = "exit" /\ dpc' = "done"
  /\ UNCHANGED <<bwsVars, hasdata, processed, senderVars, stats, ppc, ackList, peerVars,
                 apc, acked, reported, early>>

-----------------------------------------------------------------------------
Iterator == \/ IterNext \/ IterTake \/ IterReport
            \/ GetInStats \/ BwsSet \/ ReleaseAckStore

Next == \/ Bws \/ Sender \/ Processor \/ Iterator \/ GetInStatsCall
        \/ DieKill \/ BwsEndThreads \/ DieJoin

Spec == Init /\ [][Next]_vars

(* The threads run when they can.  The sender gets bwLock if it is free    *)
(* again and again: bws_thread sleeps in between.  The application goes on *)
(* iterating and answers every report with bws_set, as its documentation   *)
(* asks; nobody has to call die(), but a die() that was called goes on.    *)
FairSpec ==
  /\ Spec
  /\ WF_vars(Bws) /\ SF_vars(SenderPace) /\ WF_vars(Sender) /\ WF_vars(Processor)
  /\ WF_vars(Iterator)
  /\ WF_vars(BwsEndThreads \/ DieJoin)

-----------------------------------------------------------------------------
(* Properties.                                                             *)

(* Every variable keeps its type; until die(), a round is always in exactly *)
(* one place: with the thread, in a semaphore or with the application.     *)
TypeOK ==
  /\ bpc \in {"top", "sleep", "wait", "exit"} /\ bwLock = (bpc = "wait")
  /\ spc \in {"top", "pace", "xmit", "load", "store", "exit"}
  /\ tmp \in 0..MaxSent /\ stats \in 0..MaxSent /\ sent \in 0..MaxSent
  /\ ppc \in {"top", "ack", "exit"} /\ ackList \in BOOLEAN
  /\ store \in [Peers -> SUBSET Seqs] /\ lastAcked \in [Peers -> 0..Cardinality(Seqs)]
  /\ highest \in Seqs \cup {0} /\ acked \subseteq Seqs
  /\ apc \in {"idle", "wait", "back", "held", "inStats", "asked", "release", "stop"}
  /\ dpc \in {"run", "post", "joinB", "joinS", "joinP", "done"}
  /\ ~death => /\ hasdata + processed
                    + (IF apc \notin {"idle", "wait"} THEN 1 ELSE 0)
                  = (IF bpc = "wait" THEN 1 ELSE 0)
               /\ ackList = (apc \in {"held", "inStats", "asked", "release"})

(* Whenever ack_list is free, the acked_last of a peer is the number of    *)
(* values the next report lists for it, and highest_seq is the highest     *)
(* live ack: it never points to one that a report freed.                   *)
PeerStatsConsistent ==
  ~ackList =>
    LET all == UNION {store[p] : p \in Peers}
    IN  /\ \A p \in Peers : lastAcked[p] = Cardinality(store[p])
        /\ highest = IF all = {} THEN 0 ELSE Max(all)

(* While bws_thread has bwLock at most one packet goes out, the one the    *)
(* sender was about to send; and only such a packet can make the counters  *)
(* of the reports differ from what was sent.                               *)
OnePacketSlips ==
  /\ slips <= 1
  /\ ~death /\ ~early /\ apc \in {"idle", "wait", "back"} =>
       reported + stats = sent - (IF spc \in {"load", "store"} THEN 1 ELSE 0)

(* get_in_stats waits for stat_lock_r, which the processor has, who waits  *)
(* for ack_list, which the caller has.                                     *)
StatsDeadlock == apc = "inStats" /\ ppc = "ack" /\ ackList

(* The sender always goes on after a round, unless get_in_stats was called *)
(* at a bad moment of it.                                                  *)
SenderResumes == (spc = "pace") ~> (spc # "pace" \/ StatsDeadlock)

(* die() returns, and ends bws_thread and the iteration, unless it comes   *)
(* between a report and its bws_set and the processor waits for ack_list.  *)
DieReturnsUnlessHeld ==
  /\ death ~> (dpc = "done" \/ (dpc = "joinP" /\ ppc = "ack" /\ ackList))
  /\ death ~> (bpc = "exit" /\ spc = "exit" /\ apc # "wait")
=============================================================================
