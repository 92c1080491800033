-------------------------- MODULE BwControlProofs --------------------------
(***************************************************************************)
(* Proofs about bandwidth control: the type invariant with the accounting  *)
(* of a round, the statistics of the peers and the packets that slip       *)
(* through, for any peers, any seq numbers and any number of packets.      *)
(***************************************************************************)
EXTENDS BwControl, FiniteSetTheorems, TLAPS

Holding == {"held", "inStats", "asked", "release"}

Calling == {"idle", "wait", "back"}

(* The values of the program counters, the semaphores and the histories. *)
Places ==
  /\ bpc \in {"top", "sleep", "wait", "exit"}
  /\ bwLock \in BOOLEAN /\ (bwLock <=> bpc = "wait")
  /\ spc \in {"top", "pace", "xmit", "load", "store", "exit"}
  /\ ppc \in {"top", "ack", "exit"}
  /\ apc \in Calling \cup Holding \cup {"stop"}
  /\ dpc \in {"run", "post", "joinB", "joinS", "joinP", "done"}
  /\ hasdata \in Nat /\ processed \in Nat
  /\ reported \in Nat

(* Until die(), a round is in one place and ack_list is held exactly       *)
(* between the report and bws_set.                                         *)
Round ==
  ~death => /\ hasdata + processed + (IF apc \notin {"idle", "wait"} THEN 1 ELSE 0)
                 = (IF bpc = "wait" THEN 1 ELSE 0)
            /\ (ackList <=> apc \in Holding)

(* The counter of the sender never runs ahead of what was sent: a packet   *)
(* that is out and not yet counted is missing in it.                       *)
Counters ==
  /\ tmp \in Nat /\ stats \in Nat /\ sent \in Nat /\ sent <= MaxSent
  /\ spc \in {"pace", "xmit"} => sent < MaxSent
  /\ tmp <= sent /\ stats <= sent
  /\ spc \in {"load", "store"} => stats < sent
  /\ spc = "store" => tmp < sent

(* The statistics of the peers.  While ack_list is held every store is     *)
(* empty, which is what makes release_ack_store leave them consistent.     *)
PeerData ==
  /\ ackList \in BOOLEAN /\ acked \subseteq Seqs
  /\ store \in [Peers -> SUBSET acked]
  /\ lastAcked \in [Peers -> 0..Cardinality(Seqs)]
  /\ highest \in Seqs \cup {0}
  /\ apc \in Holding => ackList
  /\ ackList => \A p \in Peers : store[p] = {}
  /\ ~ackList => /\ \A p \in Peers : lastAcked[p] = Cardinality(store[p])
                 /\ \A p \in Peers : \A s \in store[p] : s <= highest
                 /\ highest # 0 => \E p \in Peers : highest \in store[p]

(* A packet slips through only when the sender had passed bwLock before    *)
(* bws_thread took it.                                                     *)
Slips == slips \in {0, 1} /\ (bwLock /\ spc = "xmit" => slips = 0)

(* What the reports say, as long as none was made while a packet was on    *)
(* its way: between a report and bws_set the sender stands still, so that  *)
(* reset_out_counters loses nothing.                                       *)
Reports ==
  ~death /\ ~early =>
    /\ apc \in Calling =>
         /\ reported + stats = sent - (IF spc \in {"load", "store"} THEN 1 ELSE 0)
         /\ spc = "store" => tmp = stats
    /\ apc \in Holding => spc \in {"top", "pace", "exit"} /\ reported = sent
    /\ apc = "release" => stats = 0

IInv == Places /\ Round /\ Counters /\ PeerData /\ Slips /\ Reports

-----------------------------------------------------------------------------

(* Every step keeps the program counters, semaphores and histories in      *)
(* their ranges, and bwLock with the thread that waits for bws_set.        *)
LEMMA PlacesStep == ASSUME IInv, [Next]_vars PROVE Places'
<1>a. Places /\ stats \in Nat
  BY DEF IInv, Counters
<1>1. CASE Bws
  <2>1. CASE BwsTop
    BY <1>a, <2>1 DEF Places, BwsTop, senderVars
  <2>2. CASE BwsRound
    BY <1>a, <2>2 DEF Places, BwsRound, senderVars
  <2>3. CASE BwsProcessed
    <3>1. bwLock' \in BOOLEAN /\ ~bwLock' /\ bpc' = "top"
      BY <2>3 DEF BwsProcessed
    <3>2. processed' \in Nat
      BY <1>a, <2>3 DEF Places, BwsProcessed
    <3>3. UNCHANGED <<hasdata, spc, ppc, apc, dpc, reported>>
      BY <2>3 DEF BwsProcessed, senderVars
    <3>4. QED
      BY <1>a, <3>1, <3>2, <3>3 DEF Places
  <2>4. QED
    BY <1>1, <2>1, <2>2, <2>3 DEF Bws
<1>2. CASE Sender
  BY <1>a, <1>2 DEF Places, Sender, SenderTop, SenderPace, SenderXmit, SenderCount, bwsVars
<1>3. CASE Processor
  BY <1>a, <1>3 DEF Places, Processor, ProcTop, AckReceived, bwsVars, senderVars
<1>4. CASE Iterator
  <2>1. CASE IterNext
    BY <1>a, <2>1 DEF Places, IterNext, Calling, Holding, bwsVars, senderVars
  <2>2. CASE IterTake
    BY <1>a, <2>2 DEF Places, IterTake, Calling, Holding, bwsVars, senderVars
  <2>3. CASE IterReport
    BY <1>a, <2>3 DEF Places, IterReport, Calling, Holding, bwsVars, senderVars
  <2>4. CASE GetInStats
    BY <1>a, <2>4 DEF Places, GetInStats, Calling, Holding, bwsVars, senderVars
  <2>5. CASE BwsSet
    BY <1>a, <2>5 DEF Places, BwsSet, Calling, Holding, bwsVars, senderVars
  <2>6. CASE ReleaseAckStore
    BY <1>a, <2>6 DEF Places, ReleaseAckStore, Calling, Holding, bwsVars, senderVars
  <2>7. QED
    BY <1>4, <2>1, <2>2, <2>3, <2>4, <2>5, <2>6 DEF Iterator
<1>5. CASE GetInStatsCall
  BY <1>a, <1>5 DEF Places, GetInStatsCall, Calling, Holding, bwsVars, senderVars
<1>6. CASE DieKill \/ BwsEndThreads \/ DieJoin
  <2>1. CASE DieKill
    BY <1>a, <2>1 DEF Places, DieKill, bwsVars, senderVars
  <2>2. CASE BwsEndThreads
    BY <1>a, <2>2 DEF Places, BwsEndThreads, bwsVars, senderVars
  <2>3. CASE DieJoin
    BY <1>a, <2>3 DEF Places, DieJoin, bwsVars, senderVars
  <2>4. QED
    BY <1>6, <2>1, <2>2, <2>3
<1>7. CASE UNCHANGED vars
  BY <1>a, <1>7 DEF Places, vars, bwsVars, senderVars
<1>8. QED
  BY <1>1, <1>2, <1>3, <1>4, <1>5, <1>6, <1>7 DEF Next

(* Every step keeps the round in one place: the steps that move it take it *)
(* from one place to the next, all others leave it where it is.            *)
LEMMA RoundStep == ASSUME IInv, [Next]_vars PROVE Round'
<1>a. Places /\ Round
  BY DEF IInv
<1>1. CASE BwsTop \/ BwsRound \/ BwsProcessed
  <2>1. UNCHANGED <<apc, dpc, ackList>>
    BY <1>1 DEF BwsTop, BwsRound, BwsProcessed
  <2>2. CASE BwsTop
    BY <1>a, <2>1, <2>2 DEF Places, Round, BwsTop, death
  <2>3. CASE BwsRound
    BY <1>a, <2>1, <2>3 DEF Places, Round, BwsRound, death
  <2>4. CASE BwsProcessed
    BY <1>a, <2>1, <2>4 DEF Places, Round, BwsProcessed, death
  <2>5. QED
    BY <1>1, <2>2, <2>3, <2>4
<1>2. CASE IterNext
  BY <1>a, <1>2 DEF Places, Round, IterNext, death, bwsVars, Holding
<1>3. CASE IterTake
  BY <1>a, <1>3 DEF Places, Round, IterTake, death, bwsVars, Holding
<1>4. CASE IterReport
  BY <1>a, <1>4 DEF Places, Round, IterReport, death, bwsVars, Holding
<1>5. CASE GetInStats \/ GetInStatsCall \/ BwsSet
  BY <1>a, <1>5 DEF Places, Round, GetInStats, GetInStatsCall, BwsSet, death, bwsVars, Holding
<1>6. CASE ReleaseAckStore
  BY <1>a, <1>6 DEF Places, Round, ReleaseAckStore, death, bwsVars, Holding
<1>7. CASE DieKill \/ BwsEndThreads \/ DieJoin
  BY <1>7 DEF Round, DieKill, BwsEndThreads, DieJoin, death
<1>8. CASE UNCHANGED <<bpc, apc, dpc, hasdata, processed, ackList>>
  BY <1>a, <1>8 DEF Round, death
<1>9. Sender \/ Processor \/ UNCHANGED vars =>
        UNCHANGED <<bpc, apc, dpc, hasdata, processed, ackList>>
  BY DEF Sender, SenderTop, SenderPace, SenderXmit, SenderCount, Processor, ProcTop,
         AckReceived, vars, bwsVars
<1>10. QED
  BY <1>1, <1>2, <1>3, <1>4, <1>5, <1>6, <1>7, <1>8, <1>9 DEF Next, Bws, Iterator

(* Every step keeps the counter behind what was sent; only the sender and  *)
(* reset_out_counters change it.                                           *)
LEMMA CountersStep == ASSUME IInv, [Next]_vars PROVE Counters'
<1>a. Places /\ Counters
  BY DEF IInv
<1>1. CASE SenderTop
  BY <1>a, <1>1, BwConstants DEF Places, Counters, SenderTop
<1>2. CASE SenderPace
  BY <1>a, <1>2 DEF Places, Counters, SenderPace
<1>3. CASE SenderXmit
  BY <1>a, <1>3, BwConstants DEF Places, Counters, SenderXmit
<1>4. CASE SenderCount
  BY <1>a, <1>4, BwConstants DEF Places, Counters, SenderCount
<1>5. CASE BwsSet
  BY <1>a, <1>5 DEF Places, Counters, BwsSet, senderVars
<1>6. CASE UNCHANGED <<spc, tmp, sent, stats>>
  BY <1>a, <1>6 DEF Counters
<1>7. Bws \/ Processor \/ IterNext \/ IterTake \/ IterReport \/ GetInStats \/ ReleaseAckStore
        \/ GetInStatsCall \/ DieKill \/ BwsEndThreads \/ DieJoin \/ UNCHANGED vars =>
        UNCHANGED <<spc, tmp, sent, stats>>
  BY DEF Bws, BwsTop, BwsRound, BwsProcessed, Processor, ProcTop, AckReceived, IterNext, IterTake,
         IterReport, GetInStats, ReleaseAckStore, GetInStatsCall, DieKill, BwsEndThreads, DieJoin,
         vars, senderVars
<1>8. QED
  BY <1>1, <1>2, <1>3, <1>4, <1>5, <1>6, <1>7 DEF Next, Sender, Iterator

(* Every step keeps what may slip through bounded: the sender passes       *)
(* bwLock only while it is free.                                           *)
LEMMA SlipsStep == ASSUME IInv, [Next]_vars PROVE Slips'
<1>a. Places /\ Slips
  BY DEF IInv
<1>1. CASE Bws
  BY <1>a, <1>1 DEF Places, Slips, Bws, BwsTop, BwsRound, BwsProcessed, senderVars
<1>2. CASE Sender
  BY <1>a, <1>2 DEF Places, Slips, Sender, SenderTop, SenderPace, SenderXmit, SenderCount, bwsVars
<1>3. CASE UNCHANGED <<slips, bwLock, spc>>
  BY <1>a, <1>3 DEF Slips
<1>4. Processor \/ Iterator \/ GetInStatsCall \/ DieKill \/ BwsEndThreads \/ DieJoin
        \/ UNCHANGED vars => UNCHANGED <<slips, bwLock, spc>>
  BY DEF Processor, ProcTop, AckReceived, Iterator, IterNext, IterTake, IterReport, GetInStats,
         BwsSet, ReleaseAckStore, GetInStatsCall, DieKill, BwsEndThreads, DieJoin, vars, bwsVars,
         senderVars
<1>5. QED
  BY <1>1, <1>2, <1>3, <1>4 DEF Next

(* Every step keeps the reports exact as long as none is made while a      *)
(* packet is on its way.                                                   *)
LEMMA ReportsStep == ASSUME IInv, [Next]_vars PROVE Reports'
<1>a. Places /\ Round /\ Counters /\ Reports
  BY DEF IInv
<1>h. ~death /\ apc \in Holding => bwLock
  BY <1>a DEF Places, Round, Holding
<1>1. CASE SenderTop
  BY <1>a, <1>1 DEF Places, Reports, SenderTop, death, Calling, Holding
<1>2. CASE SenderPace
  BY <1>a, <1>h, <1>2 DEF Places, Reports, SenderPace, death, Calling, Holding
<1>3. CASE SenderXmit
  BY <1>a, <1>3 DEF Places, Counters, Reports, SenderXmit, death, Calling, Holding
<1>4. CASE SenderCount
  BY <1>a, <1>4 DEF Places, Counters, Reports, SenderCount, death, Calling, Holding
<1>5. CASE IterNext \/ IterTake
  BY <1>a, <1>5 DEF Places, Reports, IterNext, IterTake, death, Calling, Holding, senderVars
<1>6. CASE IterReport
  <2>1. CASE death
    BY <1>6, <2>1 DEF Reports, IterReport, death
  <2>2. CASE ~death
    <3>1. ~early' => ~early /\ spc \notin {"xmit", "load", "store"}
      BY <1>6, <2>2 DEF IterReport
    <3>2. /\ apc = "back" /\ apc' = "held" /\ reported' = reported + stats
          /\ UNCHANGED <<spc, sent>>
      BY <1>6, <2>2 DEF IterReport, senderVars
    <3>3. QED
      BY <1>a, <2>2, <3>1, <3>2 DEF Places, Counters, Reports, death, Calling, Holding
  <2>3. QED
    BY <2>1, <2>2
<1>7. CASE GetInStats \/ GetInStatsCall
  BY <1>a, <1>7 DEF Places, Reports, GetInStats, GetInStatsCall, death, Calling, Holding,
                    senderVars
<1>8. CASE BwsSet
  BY <1>a, <1>8 DEF Places, Reports, BwsSet, death, Calling, Holding, senderVars
<1>9. CASE ReleaseAckStore
  BY <1>a, <1>9 DEF Places, Counters, Reports, ReleaseAckStore, death, Calling, Holding,
                    senderVars
<1>10. CASE DieKill \/ BwsEndThreads \/ DieJoin
  BY <1>10 DEF Reports, DieKill, BwsEndThreads, DieJoin, death
<1>11. CASE UNCHANGED <<spc, tmp, sent, stats, apc, dpc, reported, early>>
  BY <1>a, <1>11 DEF Reports, death
<1>12. Bws \/ Processor \/ UNCHANGED vars =>
         UNCHANGED <<spc, tmp, sent, stats, apc, dpc, reported, early>>
  BY DEF Bws, BwsTop, BwsRound, BwsProcessed, Processor, ProcTop, AckReceived, vars, senderVars
<1>13. QED
  BY <1>1, <1>2, <1>3, <1>4, <1>5, <1>6, <1>7, <1>8, <1>9, <1>10, <1>11, <1>12
     DEF Next, Sender, Iterator

(* The greatest element of a set is what Max chooses. *)
LEMMA MaxIs ==
  ASSUME NEW S, S \subseteq Nat, NEW m \in S, \A y \in S : y <= m
  PROVE  Max(S) = m
<1>1. \A y \in S : m >= y
  OBVIOUS
<1>2. \A x \in S : (\A y \in S : x >= y) => x = m
  OBVIOUS
<1>3. QED
  BY <1>1, <1>2 DEF Max

(* A peer's store is finite, and counting it stays within the seq numbers. *)
LEMMA StoreFinite ==
  ASSUME NEW T \in SUBSET Seqs
  PROVE  IsFiniteSet(T) /\ Cardinality(T) \in 0..Cardinality(Seqs)
<1>1. IsFiniteSet(T) /\ Cardinality(T) <= Cardinality(Seqs)
  BY BwConstants, FS_Subset
<1>2. Cardinality(T) \in Nat /\ Cardinality(Seqs) \in Nat
  BY <1>1, BwConstants, FS_CardinalityType
<1>3. QED
  BY <1>1, <1>2

(* An ack keeps the statistics of the peers: it is in no store yet, and    *)
(* highest_seq moves to it when it is higher.                              *)
LEMMA PeerDataAck == ASSUME IInv, AckReceived PROVE PeerData'
<1>a. PeerData
  BY DEF IInv
<1>1. PICK p \in Peers, s \in Seqs \ acked :
        /\ acked' = acked \cup {s}
        /\ store' = [store EXCEPT ![p] = @ \cup {s}]
        /\ lastAcked' = [lastAcked EXCEPT ![p] = @ + 1]
        /\ highest' = IF highest = 0 \/ highest < s THEN s ELSE highest
  BY DEF AckReceived
<1>2. ~ackList /\ ackList' = ackList /\ apc' = apc
  BY DEF AckReceived
<1>3. \A q \in Peers : store'[q] = IF q = p THEN store[q] \cup {s} ELSE store[q]
  BY <1>a, <1>1 DEF PeerData
<1>4. \A q \in Peers : store[q] \in SUBSET acked /\ acked \in SUBSET Seqs
  BY <1>a DEF PeerData
<1>5. /\ acked' \subseteq Seqs /\ store' \in [Peers -> SUBSET acked']
      /\ highest' \in Seqs \cup {0}
  BY <1>a, <1>1 DEF PeerData
<1>6. \A q \in Peers : lastAcked'[q] = Cardinality(store'[q])
  <2>1. SUFFICES ASSUME NEW q \in Peers PROVE lastAcked'[q] = Cardinality(store'[q])
    OBVIOUS
  <2>2. lastAcked[q] = Cardinality(store[q])
    BY <1>a, <1>2 DEF PeerData
  <2>3. CASE q = p
    <3>1. store[p] \in SUBSET Seqs /\ s \notin store[p]
      BY <1>4
    <3>2. IsFiniteSet(store[p])
      BY <3>1, StoreFinite
    <3>3. Cardinality(store[p] \cup {s}) = Cardinality(store[p]) + 1
      BY <3>1, <3>2, FS_AddElement
    <3>4. lastAcked'[p] = lastAcked[p] + 1
      BY <1>a, <1>1 DEF PeerData
    <3>5. QED
      BY <1>3, <2>2, <2>3, <3>3, <3>4
  <2>4. CASE q # p
    BY <1>a, <1>1, <1>3, <2>2, <2>4 DEF PeerData
  <2>5. QED
    BY <2>3, <2>4
<1>7. lastAcked' \in [Peers -> 0..Cardinality(Seqs)]
  <2>1. \A q \in Peers : Cardinality(store'[q]) \in 0..Cardinality(Seqs)
    <3>1. \A q \in Peers : store'[q] \in SUBSET Seqs
      BY <1>5
    <3>2. QED
      BY <3>1, StoreFinite
  <2>2. DOMAIN lastAcked' = Peers /\ lastAcked' = [q \in Peers |-> lastAcked'[q]]
    BY <1>a, <1>1 DEF PeerData
  <2>3. QED
    BY <1>6, <2>1, <2>2
<1>8. /\ \A q \in Peers : \A t \in store'[q] : t <= highest'
      /\ highest' # 0 => \E q \in Peers : highest' \in store'[q]
  <2>1. /\ \A q \in Peers : \A t \in store[q] : t \in Nat /\ t <= highest
        /\ highest # 0 => \E q \in Peers : highest \in store[q]
        /\ s \in Nat /\ highest \in Nat
    BY <1>a, <1>2, <1>4, BwConstants DEF PeerData
  <2>2. \A q \in Peers : \A t \in store'[q] : t <= highest'
    BY <1>1, <1>3, <2>1
  <2>3. CASE highest = 0 \/ highest < s
    <3>1. highest' = s /\ s \in store'[p]
      BY <1>1, <1>3, <2>3
    <3>2. QED
      BY <2>2, <3>1
  <2>4. CASE ~(highest = 0 \/ highest < s)
    BY <1>1, <1>3, <2>1, <2>4
  <2>5. QED
    BY <2>2, <2>3, <2>4
<1>9. QED
  BY <1>a, <1>2, <1>5, <1>6, <1>7, <1>8 DEF PeerData

(* Every step keeps the statistics of the peers.  A report empties the     *)
(* stores while ack_list is taken, release_ack_store resets what was       *)
(* counted before it gives it back.                                        *)
LEMMA PeerDataStep == ASSUME IInv, [Next]_vars PROVE PeerData'
<1>a. Places /\ Round /\ PeerData
  BY DEF IInv
<1>1. CASE AckReceived
  BY <1>1, PeerDataAck
<1>2. CASE IterNext \/ IterTake \/ GetInStats \/ GetInStatsCall \/ BwsSet
  <2>1. UNCHANGED <<acked, store, lastAcked, highest, ackList>>
    BY <1>2 DEF IterNext, IterTake, GetInStats, GetInStatsCall, BwsSet, peerVars
  <2>2. apc' \in Holding => apc \in Holding
    BY <1>2 DEF IterNext, IterTake, GetInStats, GetInStatsCall, BwsSet, Holding
  <2>3. QED
    BY <1>a, <2>1, <2>2 DEF PeerData
<1>3. CASE IterReport
  <2>1. CASE death
    <3>1. apc' = "stop" /\ UNCHANGED <<acked, store, lastAcked, highest, ackList>>
      BY <1>3, <2>1 DEF IterReport
    <3>2. QED
      BY <1>a, <3>1 DEF PeerData, Holding
  <2>2. CASE ~death
    <3>1. /\ ackList' = TRUE /\ store' = [p \in Peers |-> {}]
          /\ UNCHANGED <<acked, lastAcked, highest>>
      BY <1>3, <2>2 DEF IterReport
    <3>2. QED
      BY <1>a, <3>1 DEF PeerData
  <2>3. QED
    BY <2>1, <2>2
<1>4. CASE ReleaseAckStore
  <2>1. /\ lastAcked' = [p \in Peers |-> 0] /\ highest' = 0 /\ ackList' = FALSE
        /\ apc = "release" /\ apc' = "idle" /\ UNCHANGED <<acked, store>>
    BY <1>4 DEF ReleaseAckStore
  <2>2. \A p \in Peers : store[p] = {}
    BY <1>a, <2>1 DEF PeerData, Holding
  <2>3. Cardinality({}) = 0 /\ Cardinality(Seqs) \in Nat
    BY FS_EmptySet, FS_CardinalityType, BwConstants
  <2>4. /\ lastAcked' \in [Peers -> 0..Cardinality(Seqs)]
        /\ \A p \in Peers : lastAcked'[p] = Cardinality(store'[p]) /\ store'[p] = {}
    BY <2>1, <2>2, <2>3
  <2>5. QED
    BY <1>a, <2>1, <2>4 DEF PeerData, Holding
<1>5. CASE UNCHANGED <<acked, store, lastAcked, highest, ackList, apc>>
  BY <1>a, <1>5 DEF PeerData
<1>6. Bws \/ Sender \/ ProcTop \/ DieKill \/ BwsEndThreads \/ DieJoin \/ UNCHANGED vars =>
        UNCHANGED <<acked, store, lastAcked, highest, ackList, apc>>
  BY DEF Bws, BwsTop, BwsRound, BwsProcessed, Sender, SenderTop, SenderPace, SenderXmit,
         SenderCount, ProcTop, DieKill, BwsEndThreads, DieJoin, vars, peerVars
<1>7. QED
  BY <1>1, <1>2, <1>3, <1>4, <1>5, <1>6 DEF Next, Processor, Iterator

-----------------------------------------------------------------------------

(* The program starts with everything empty and no round under way. *)
LEMMA IInvInit == ASSUME Init PROVE IInv
<1>0. ~bwLock /\ ~ackList /\ bwLock \in BOOLEAN
  BY DEF Init
<1>1. Places /\ Round
  <2>1. Places
    BY <1>0 DEF Init, Places, Calling
  <2>2. Round
    BY <1>0 DEF Init, Round, Holding
  <2>3. QED
    BY <2>1, <2>2
<1>2. Counters /\ Slips /\ Reports
  <2>1. Counters
    BY BwConstants DEF Init, Counters
  <2>2. Slips
    BY DEF Init, Slips
  <2>3. Reports
    <3>1. reported = 0 /\ stats = 0 /\ sent = 0 /\ spc = "top" /\ apc = "idle"
      BY DEF Init
    <3>2. reported + stats = sent - (IF spc \in {"load", "store"} THEN 1 ELSE 0)
      <4>1. (IF spc \in {"load", "store"} THEN 1 ELSE 0) = 0
        BY <3>1
      <4>2. reported \in Nat /\ stats \in Nat /\ reported + stats = sent - 0
        BY <3>1
      <4>3. QED
        BY <4>1, <4>2
    <3>3. apc \notin Holding
      BY <3>1 DEF Holding
    <3>4. QED
      BY <3>1, <3>2, <3>3 DEF Reports
  <2>4. QED
    BY <2>1, <2>2, <2>3
<1>3. PeerData
  <2>1. Cardinality({}) = 0 /\ Cardinality(Seqs) \in Nat
    BY FS_EmptySet, FS_CardinalityType, BwConstants
  <2>2. /\ lastAcked \in [Peers -> 0..Cardinality(Seqs)] /\ store \in [Peers -> SUBSET acked]
        /\ \A p \in Peers : lastAcked[p] = Cardinality(store[p]) /\ store[p] = {}
    BY <2>1 DEF Init
  <2>3. highest = 0 /\ ackList = FALSE /\ acked = {} /\ apc = "idle"
    BY DEF Init
  <2>4. QED
    BY <2>2, <2>3 DEF PeerData, Holding
<1>4. QED
  BY <1>1, <1>2, <1>3 DEF IInv

(* The inductive invariant holds in every reachable state. *)
THEOREM RoundsHold == Spec => []IInv
<1>1. Init => IInv
  BY IInvInit
<1>2. IInv /\ [Next]_vars => IInv'
  BY PlacesStep, RoundStep, CountersStep, PeerDataStep, SlipsStep, ReportsStep DEF IInv
<1>3. QED
  BY <1>1, <1>2, PTL DEF Spec

(* Type correctness: until die(), a round of bandwidth control is in       *)
(* exactly one place, so that neither semaphore ever holds two units and   *)
(* bwLock is held exactly while the application has a round to answer.     *)
THEOREM TypeCorrect == Spec => []TypeOK
<1>1. ASSUME IInv PROVE TypeOK
  <2>1. Places /\ Round /\ Counters /\ PeerData
    BY <1>1 DEF IInv
  <2>2. store \in [Peers -> SUBSET Seqs]
    BY <2>1 DEF PeerData
  <2>3. bwLock = (bpc = "wait")
    BY <2>1 DEF Places
  <2>4. QED
    BY <2>1, <2>2, <2>3, BwConstants
       DEF TypeOK, Places, Round, Counters, PeerData, Calling, Holding
<1>2. QED
  BY <1>1, RoundsHold, PTL

(* Whenever ack_list is free, acked_last counts what the next report will  *)
(* list and highest_seq is a live ack, the highest of all peers.           *)
THEOREM PeerStatsCorrect == Spec => []PeerStatsConsistent
<1>1. ASSUME IInv PROVE PeerStatsConsistent
  <2>1. SUFFICES ASSUME ~ackList
                 PROVE  LET all == UNION {store[p] : p \in Peers}
                        IN  highest = IF all = {} THEN 0 ELSE Max(all)
    BY <1>1 DEF PeerStatsConsistent, IInv, PeerData
  <2> DEFINE all == UNION {store[p] : p \in Peers}
  <2>2. PeerData
    BY <1>1 DEF IInv
  <2>3. /\ \A t \in all : t \in Nat \ {0} /\ t <= highest
        /\ highest # 0 => highest \in all
        /\ highest \in Nat
    <3>1. \A p \in Peers : store[p] \subseteq Nat \ {0}
      BY <2>2, BwConstants DEF PeerData
    <3>2. QED
      BY <2>1, <2>2, <3>1, BwConstants DEF PeerData
  <2>4. CASE all = {}
    BY <2>3, <2>4
  <2>5. CASE all # {}
    <3>1. highest \in all
      BY <2>3, <2>5
    <3>2. Max(all) = highest
      BY <2>3, <3>1, MaxIs
    <3>3. QED
      BY <2>5, <3>2
  <2>6. QED
    BY <2>4, <2>5
<1>2. QED
  BY <1>1, RoundsHold, PTL

(* At most one packet goes out while bws_thread has bwLock, and the        *)
(* counters of the reports add up to what was sent unless a report was     *)
(* made while such a packet was on its way.                                *)
THEOREM OnePacketSlipsCorrect == Spec => []OnePacketSlips
<1>1. ASSUME IInv PROVE OnePacketSlips
  BY <1>1 DEF IInv, Slips, Reports, OnePacketSlips, Calling
<1>2. QED
  BY <1>1, RoundsHold, PTL
=============================================================================
