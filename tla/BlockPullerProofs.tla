------------------------- MODULE BlockPullerProofs -------------------------
(***************************************************************************)
(* Proofs about the puller: the accounting of the two semaphore pairs, and *)
(* that the application is asked for one block at a time, for every size   *)
(* of the queues and every number of fragments.                            *)
(***************************************************************************)
EXTENDS BlockPuller, TLAPS

(* The unit of sFull that die() posts and no packet stands for. *)
Posted == IF dpc \in {"run", "post"} THEN 0 ELSE 1

(* The values of the program counters and flags. *)
Places ==
  /\ spc \in {"top", "enter", "wait", "low", "exit"} /\ z \in BOOLEAN
  /\ upc \in {"top", "pb", "pbWait", "test", "pull", "bp", "bpWait", "exit"}
  /\ apc \in {"idle", "next", "back", "asked", "sig", "none", "stop"}
  /\ dpc \in {"run", "post", "s1", "s2", "s3", "s4", "joinS", "joinP", "done"}
  /\ answered \in BOOLEAN /\ woken \in BOOLEAN

(* A unit of sFull is a packet of send_buf or of the other queues, or the  *)
(* one die() posted; the second packet of a pair is taken from send_buf    *)
(* without another look at it.                                             *)
Queue ==
  /\ fsend \in Int /\ fsend <= NSend /\ fsend >= 0 - Posted
  /\ other \in {0, 1}
  /\ sFull \in Nat /\ sFull = fsend + other + Posted
  /\ z => fsend > 0

(* What the iterator may take and the room left make up the bridge. *)
Bridge ==
  /\ full \in Nat /\ empty \in Nat
  /\ full + empty = NPuller + (IF kill THEN 1 ELSE 0)

(* Until die() the puller is at block_pull again only after an answer to   *)
(* the last one, or a wait for it that ended by itself.                    *)
Asked == upc \notin {"bp", "bpWait"} /\ ~kill => answered \/ woken

IInv == Places /\ Queue /\ Bridge /\ Asked

-----------------------------------------------------------------------------

(* A signal leaves the puller at one of its places, and never takes it to  *)
(* a wait.                                                                 *)
LEMMA SignalPlace ==
  ASSUME Places, NEW w, NEW to \in {"test", "top"}, Signal(w, to)
  PROVE  /\ upc' \in {"top", "pb", "pbWait", "test", "pull", "bp", "bpWait", "exit"}
         /\ upc' # upc => upc = w /\ upc' = to
  BY DEF Places, Signal

(* Every step keeps the program counters in their ranges. *)
LEMMA PlacesStep == ASSUME IInv, [Next]_vars PROVE Places'
<1>a. Places
  BY DEF IInv
<1>1. CASE Sender
  <2>1. CASE SenderTop
    BY <1>a, <2>1 DEF Places, SenderTop, historyVars
  <2>2. CASE SenderEnter
    <3>1. upc' \in {"top", "pb", "pbWait", "test", "pull", "bp", "bpWait", "exit"}
      BY <1>a, <2>2, SignalPlace DEF Places, SenderEnter, SignalProduceBlock
    <3>2. spc' = "wait" /\ UNCHANGED <<z, apc, dpc, answered, woken>>
      BY <2>2 DEF SenderEnter, historyVars
    <3>3. QED
      BY <1>a, <3>1, <3>2 DEF Places
  <2>3. CASE SenderSend
    <3>1. spc' \in {"enter", "low"} /\ z' \in BOOLEAN
      BY <2>3 DEF SenderSend
    <3>2. UNCHANGED <<upc, apc, dpc, answered, woken>>
      BY <2>3 DEF SenderSend, historyVars
    <3>3. QED
      BY <1>a, <3>1, <3>2 DEF Places
  <2>4. CASE SenderLow
    <3>1. upc' \in {"top", "pb", "pbWait", "test", "pull", "bp", "bpWait", "exit"}
      BY <1>a, <2>4, SignalPlace DEF Places, SenderLow, SignalProduceBlock
    <3>2. spc' = "top" /\ UNCHANGED <<z, apc, dpc, answered, woken>>
      BY <2>4 DEF SenderLow, historyVars
    <3>3. QED
      BY <1>a, <3>1, <3>2 DEF Places
  <2>5. QED
    BY <1>1, <2>1, <2>2, <2>3, <2>4 DEF Sender
<1>2. CASE QueueOther
  BY <1>a, <1>2 DEF Places, QueueOther, historyVars
<1>3. CASE Puller \/ PullerSpurious
  BY <1>a, <1>3 DEF Places, Puller, PullerTest, PullerWait, BlockPull, PullerSpurious,
                      senderVars, historyVars
<1>4. CASE IterNext \/ IterTake \/ IterReturn
  BY <1>a, <1>4 DEF Places, IterNext, IterTake, IterReturn, senderVars, historyVars
<1>5. CASE SendBlock
  BY <1>a, <1>5 DEF Places, SendBlock, historyVars
<1>6. CASE SendBlockSignal
  BY <1>a, <1>6, SignalPlace DEF Places, SendBlockSignal, SignalBlockProduced,
                                   senderVars, historyVars
<1>7. CASE DieKill \/ DiePost \/ DieJoin
  BY <1>a, <1>7 DEF Places, DieKill, DiePost, DieJoin, senderVars, historyVars
<1>8. CASE DieSignal
  <2>1. UNCHANGED <<spc, z, apc, answered, woken>>
    BY <1>8 DEF DieSignal, senderVars, historyVars
  <2>2. upc' \in {"top", "pb", "pbWait", "test", "pull", "bp", "bpWait", "exit"}
    BY <1>a, <1>8, SignalPlace DEF DieSignal, SignalBlockProduced, SignalProduceBlock
  <2>3. dpc' \in {"s2", "s3", "s4", "joinS"}
    BY <1>8 DEF DieSignal
  <2>4. QED
    BY <1>a, <2>1, <2>2, <2>3 DEF Places
<1>9. CASE UNCHANGED vars
  BY <1>a, <1>9 DEF Places, vars, senderVars, historyVars
<1>10. QED
  BY <1>1, <1>2, <1>3, <1>4, <1>5, <1>6, <1>7, <1>8, <1>9 DEF Next

(* Every step keeps the units of sFull and the packets together.  The      *)
(* sender finds the packet a unit stands for, but for the unit of die().   *)
LEMMA QueueStep == ASSUME IInv, [Next]_vars PROVE Queue'
<1>a. Places /\ Queue
  BY DEF IInv
<1>p. Posted \in {0, 1}
  BY DEF Posted
<1>1. CASE SenderTop
  <2>1. UNCHANGED <<fsend, other, sFull, dpc>> /\ (z' => z \/ fsend > 0)
    BY <1>1 DEF SenderTop
  <2>2. QED
    BY <1>a, <2>1 DEF Queue, Posted
<1>2. CASE SenderSend
  <2>1. sFull > 0 /\ sFull' = sFull - 1 /\ dpc' = dpc /\ ~z'
    BY <1>2 DEF SenderSend
  <2>2. CASE ~z /\ other > 0
    <3>1. other' = other - 1 /\ fsend' = fsend
      BY <1>2, <2>2 DEF SenderSend
    <3>2. QED
      BY <1>a, <1>p, <2>1, <2>2, <3>1 DEF Queue, Posted
  <2>3. CASE ~(~z /\ other > 0)
    <3>1. other' = other /\ fsend' = fsend - 1
      BY <1>2, <2>3 DEF SenderSend
    <3>2. fsend >= 1 - Posted
      <4>1. z \/ other = 0
        BY <1>a, <2>3 DEF Queue
      <4>2. CASE z
        BY <1>a, <1>p, <4>2 DEF Queue
      <4>3. CASE other = 0
        BY <1>a, <1>p, <2>1, <4>3 DEF Queue
      <4>4. QED
        BY <4>1, <4>2, <4>3
    <3>3. Posted' = Posted
      BY <2>1 DEF Posted
    <3>4. QED
      BY <1>a, <1>p, <2>1, <3>1, <3>2, <3>3, PullerConstants DEF Queue
  <2>4. QED
    BY <2>2, <2>3
<1>3. CASE QueueOther
  BY <1>a, <1>p, <1>3 DEF Queue, QueueOther, Posted
<1>4. CASE SendBlock
  <2>1. dpc = "run" /\ UNCHANGED <<other, z, dpc>>
    BY <1>4 DEF SendBlock, kill
  <2>2. Posted = 0 /\ Posted' = 0
    BY <2>1 DEF Posted
  <2>3. CASE UNCHANGED <<fsend, sFull>>
    BY <1>a, <2>1, <2>2, <2>3 DEF Queue
  <2>4. ASSUME NEW k \in Fragments,
               fsend' = fsend + (IF fsend + k <= NSend THEN k ELSE NSend - fsend),
               sFull' = sFull + (IF fsend + k <= NSend THEN k ELSE NSend - fsend)
        PROVE  Queue'
    BY <1>a, <2>1, <2>2, <2>4, PullerConstants DEF Queue
  <2>5. QED
    BY <1>4, <2>3, <2>4 DEF SendBlock
<1>5. CASE DieKill
  BY <1>a, <1>5 DEF Queue, DieKill, Posted, senderVars, historyVars
<1>6. CASE DiePost
  BY <1>a, <1>6 DEF Queue, DiePost, Posted
<1>7. CASE DieSignal \/ DieJoin
  BY <1>a, <1>7 DEF Queue, DieSignal, DieJoin, Posted, senderVars, historyVars
<1>8. CASE UNCHANGED <<fsend, other, sFull, z, dpc>>
  BY <1>a, <1>8 DEF Queue, Posted
<1>9. SenderEnter \/ SenderLow \/ Puller \/ PullerSpurious \/ IterNext \/ IterTake \/ IterReturn
        \/ SendBlockSignal \/ UNCHANGED vars => UNCHANGED <<fsend, other, sFull, z, dpc>>
  BY DEF SenderEnter, SenderLow, Puller, PullerTest, PullerWait, BlockPull, PullerSpurious,
         IterNext, IterTake, IterReturn, SendBlockSignal, vars, senderVars, historyVars
<1>10. QED
  BY <1>1, <1>2, <1>3, <1>4, <1>5, <1>6, <1>7, <1>8, <1>9 DEF Next, Sender

(* Every step keeps the pulls and the room for them together. *)
LEMMA BridgeStep == ASSUME IInv, [Next]_vars PROVE Bridge'
<1>a. Places /\ Bridge
  BY DEF IInv
<1>1. CASE BlockPull
  BY <1>a, <1>1 DEF Bridge, BlockPull, kill
<1>2. CASE IterTake
  BY <1>a, <1>2 DEF Bridge, IterTake, kill
<1>3. CASE DieKill
  BY <1>a, <1>3, PullerConstants DEF Bridge, DieKill, kill
<1>4. CASE DiePost \/ DieSignal \/ DieJoin
  BY <1>a, <1>4 DEF Bridge, DiePost, DieSignal, DieJoin, kill
<1>5. CASE UNCHANGED <<full, empty, dpc>>
  BY <1>a, <1>5 DEF Bridge, kill
<1>6. Sender \/ QueueOther \/ PullerTest("top", "pb") \/ PullerWait("pb", "pbWait")
        \/ PullerTest("test", "pull") \/ PullerWait("bp", "bpWait") \/ PullerSpurious
        \/ IterNext \/ IterReturn \/ SendBlock \/ SendBlockSignal \/ UNCHANGED vars =>
        UNCHANGED <<full, empty, dpc>>
  BY DEF Sender, SenderTop, SenderEnter, SenderSend, SenderLow, QueueOther, PullerTest,
         PullerWait, PullerSpurious, IterNext, IterReturn, SendBlock, SendBlockSignal, vars
<1>7. QED
  BY <1>1, <1>2, <1>3, <1>4, <1>5, <1>6 DEF Next, Puller

(* Every step keeps the puller waiting until it is answered: only the end  *)
(* of its second wait takes it back to the top, and until die() that wait  *)
(* ends by the signal of send_block or by itself.                          *)
LEMMA AskedStep == ASSUME IInv, [Next]_vars PROVE Asked'
<1>a. Places /\ Asked
  BY DEF IInv
<1>1. CASE BlockPull
  BY <1>1 DEF Asked, BlockPull
<1>2. CASE SendBlockSignal
  BY <1>2 DEF Asked, SendBlockSignal
<1>3. CASE PullerSpurious
  BY <1>a, <1>3 DEF Asked, PullerSpurious, kill
<1>4. CASE DieKill \/ DiePost \/ DieSignal \/ DieJoin
  BY <1>4 DEF Asked, DieKill, DiePost, DieSignal, DieJoin, kill
<1>5. CASE SenderEnter \/ SenderLow
  BY <1>a, <1>5 DEF Asked, SenderEnter, SenderLow, SignalProduceBlock, Signal, historyVars, kill
<1>6. CASE PullerTest("top", "pb") \/ PullerWait("pb", "pbWait")
             \/ PullerTest("test", "pull") \/ PullerWait("bp", "bpWait")
  BY <1>a, <1>6 DEF Asked, PullerTest, PullerWait, historyVars, kill
<1>7. CASE UNCHANGED <<upc, answered, woken, dpc>>
  BY <1>a, <1>7 DEF Asked, kill
<1>8. SenderTop \/ SenderSend \/ QueueOther \/ IterNext \/ IterTake \/ IterReturn \/ SendBlock
        \/ UNCHANGED vars => UNCHANGED <<upc, answered, woken, dpc>>
  BY DEF SenderTop, SenderSend, QueueOther, IterNext, IterTake, IterReturn, SendBlock, vars,
         historyVars
<1>9. QED
  BY <1>1, <1>2, <1>3, <1>4, <1>5, <1>6, <1>7, <1>8 DEF Next, Sender, Puller

(* The queues are empty and nothing was asked at the start. *)
LEMMA IInvInit == ASSUME Init PROVE IInv
<1>1. ~z /\ z \in BOOLEAN /\ answered /\ answered \in BOOLEAN /\ woken \in BOOLEAN
  BY DEF Init
<1>2. Places
  BY <1>1 DEF Init, Places
<1>3. Queue
  BY <1>1, PullerConstants DEF Init, Queue, Posted
<1>4. Bridge
  BY PullerConstants DEF Init, Bridge, kill
<1>5. Asked
  BY <1>1 DEF Asked
<1>6. QED
  BY <1>2, <1>3, <1>4, <1>5 DEF IInv

(* The inductive invariant holds in every reachable state. *)
THEOREM PullsHold == Spec => []IInv
<1>1. Init => IInv
  BY IInvInit
<1>2. IInv /\ [Next]_vars => IInv'
  BY PlacesStep, QueueStep, BridgeStep, AskedStep DEF IInv
<1>3. QED
  BY <1>1, <1>2, PTL DEF Spec

(* Type correctness: f_send falls below zero only after die(), by one, and *)
(* the bridge never holds more pulls than it has room for.                 *)
THEOREM TypeCorrect == Spec => []TypeOK
<1>1. ASSUME IInv PROVE TypeOK
  <2>1. Places /\ Queue /\ Bridge
    BY <1>1 DEF IInv
  <2>2. fsend \in (IF kill THEN -1 ELSE 0)..NSend /\ sFull \in 0..(NSend + 2)
    BY <2>1, PullerConstants DEF Queue, Posted, kill
  <2>3. full \in 0..(NPuller + 1) /\ empty \in 0..(NPuller + 1)
    BY <2>1, PullerConstants DEF Bridge
  <2>4. QED
    BY <2>1, <2>2, <2>3 DEF TypeOK, Places, Queue, Bridge
<1>2. QED
  BY <1>1, PullsHold, PTL

(* Until die(), between two units that block_pull hands to the iterator    *)
(* send_block was called, whichever signals were lost, unless the wait for *)
(* blockProduced ended by itself.                                          *)
THEOREM OneBlockCorrect == Spec => OneBlockAtATime
<1>1. ASSUME IInv, [Next]_vars
      PROVE  [full' > full /\ ~kill' => answered \/ woken]_vars
  <2>1. SUFFICES ASSUME full' > full, ~kill', Next PROVE answered \/ woken
    BY <1>1
  <2>2. Asked /\ full \in Nat
    BY <1>1 DEF IInv, Bridge
  <2>3. CASE BlockPull
    BY <2>1, <2>2, <2>3 DEF Asked, BlockPull, kill
  <2>4. CASE IterTake
    BY <2>1, <2>2, <2>4 DEF IterTake
  <2>5. CASE DieKill
    BY <2>1, <2>5 DEF DieKill, kill
  <2>6. Sender \/ QueueOther \/ PullerTest("top", "pb") \/ PullerWait("pb", "pbWait")
          \/ PullerTest("test", "pull") \/ PullerWait("bp", "bpWait") \/ PullerSpurious
          \/ IterNext \/ IterReturn \/ SendBlock \/ SendBlockSignal \/ DiePost \/ DieSignal
          \/ DieJoin => full' = full
    BY DEF Sender, SenderTop, SenderEnter, SenderSend, SenderLow, QueueOther, PullerTest,
           PullerWait, PullerSpurious, IterNext, IterReturn, SendBlock, SendBlockSignal, DiePost,
           DieSignal, DieJoin
  <2>7. full' # full
    BY <2>1, <2>2
  <2>8. QED
    BY <2>1, <2>3, <2>4, <2>5, <2>6, <2>7 DEF Next, Puller
<1>2. QED
  BY <1>1, PullsHold, PTL DEF Spec, OneBlockAtATime
=============================================================================
