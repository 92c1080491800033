-------------------------- MODULE SendQueuesProofs --------------------------
(***************************************************************************)
(* Proofs about SendQueues, for every ring size, every set of hosts, every *)
(* finite set of threads and every bound on the packets and the cookies,   *)
(* and about the rings while die() stops the sender (SenderShutdown).      *)
(***************************************************************************)
EXTENDS SenderShutdown, FiniteSetTheorems, SequenceTheorems, TLAPS

-----------------------------------------------------------------------------
(* Arithmetic of the ring indices.                                         *)

(* The remainder that every ring index is reduced to stays in the ring. *)
LEMMA ModRange == \A n \in Nat \ {0}, a \in Int : a % n \in 0..(n-1)
  OBVIOUS

(* Between 0 and twice the ring size, the remainder subtracts the size at  *)
(* most once.                                                              *)
LEMMA ModOnce ==
  ASSUME NEW n \in Nat \ {0}, NEW a \in 0..(2*n - 1)
  PROVE  a % n = IF a < n THEN a ELSE a - n
  OBVIOUS

-----------------------------------------------------------------------------
(* Counting the threads at one place of send_data.                         *)

(* The counts that TokensMatchPackets and CreditsMatchRoom speak of are    *)
(* natural numbers.                                                        *)
LEMMA InType == ASSUME NEW pc PROVE In(pc) \in Nat
<1>1. {t \in Threads : tpc[t] = pc} \subseteq Threads
  OBVIOUS
<1>2. IsFiniteSet({t \in Threads : tpc[t] = pc})
  BY <1>1, ConstantsOK, FS_Subset
<1>3. QED
  BY <1>2, FS_CardinalityType DEF In

(* A step of thread u inside send_data from one place to another changes   *)
(* the count of a place by one when u enters or leaves it.                 *)
LEMMA InMove ==
  ASSUME tpc \in [Threads -> {"idle", "insert", "post"}],
         NEW u \in Threads, NEW b \in {"idle", "insert", "post"},
         tpc' = [tpc EXCEPT ![u] = b], NEW pc \in {"insert", "post"}
  PROVE  /\ (tpc[u] = pc /\ b # pc) => In(pc)' = In(pc) - 1
         /\ (tpc[u] # pc /\ b = pc) => In(pc)' = In(pc) + 1
         /\ (tpc[u] # pc /\ b # pc) => In(pc)' = In(pc)
<1> DEFINE G == {t \in Threads : tpc[t] = pc}
           H == {t \in Threads : tpc'[t] = pc}
<1>0. IsFiniteSet(G) /\ In(pc) = Cardinality(G) /\ In(pc)' = Cardinality(H)
  <2>1. G \subseteq Threads
    OBVIOUS
  <2>2. QED
    BY <2>1, ConstantsOK, FS_Subset DEF In
<1>1. \A t \in Threads : tpc'[t] = IF t = u THEN b ELSE tpc[t]
  OBVIOUS
<1>2. ASSUME tpc[u] = pc, b # pc PROVE In(pc)' = In(pc) - 1
  <2>1. H = G \ {u} /\ u \in G
    BY <1>1, <1>2
  <2>2. Cardinality(G \ {u}) = Cardinality(G) - 1
    BY <1>0, <2>1, FS_RemoveElement
  <2>3. QED
    BY <1>0, <2>1, <2>2
<1>3. ASSUME tpc[u] # pc, b = pc PROVE In(pc)' = In(pc) + 1
  <2>1. H = G \cup {u} /\ u \notin G
    BY <1>1, <1>3
  <2>2. Cardinality(G \cup {u}) = Cardinality(G) + 1
    BY <1>0, <2>1, FS_AddElement
  <2>3. QED
    BY <1>0, <2>1, <2>2
<1>4. ASSUME tpc[u] # pc, b # pc PROVE In(pc)' = In(pc)
  <2>1. H = G
    BY <1>1, <1>4
  <2>2. QED
    BY <1>0, <2>1
<1>5. QED
  BY <1>2, <1>3, <1>4

-----------------------------------------------------------------------------
(* The accounting of the semaphores.                                       *)

(* TypeOK, TokensMatchPackets, CreditsMatchRoom and TakeFindsPacket are    *)
(* inductive only together: a counter never underflows because the sender  *)
(* holds a unit of sFull for a packet, and the units match the packets     *)
(* only while no counter underflows.                                       *)
Accounting == TypeOK /\ TokensMatchPackets /\ CreditsMatchRoom /\ TakeFindsPacket

(* The empty rings of init_sender satisfy the accounting. *)
LEMMA AccountingInit == Init => Accounting
<1> SUFFICES ASSUME Init PROVE Accounting
  OBVIOUS
<1>1. Blank \in Packet
  BY ConstantsOK DEF Blank, Packet, Kinds
<1>2. RingsTypeOK
  BY <1>1, ConstantsOK DEF Init, RingsTypeOK
<1>3. SemaphoresTypeOK
  BY ConstantsOK DEF Init, SemaphoresTypeOK
<1>4. ThreadsTypeOK
  BY <1>1, ConstantsOK DEF Init, ThreadsTypeOK
<1>5. SenderTypeOK
  BY <1>1, ConstantsOK DEF Init, SenderTypeOK, SenderPC, Datagram
<1>6. \A pc \in {"insert", "post"} : In(pc) = 0
  <2>1. TAKE pc \in {"insert", "post"}
  <2>2. {t \in Threads : tpc[t] = pc} = {}
    BY DEF Init
  <2>3. QED
    BY <2>2, FS_EmptySet DEF In
<1>7. TokensMatchPackets
  BY <1>6 DEF Init, TokensMatchPackets, Queued, Held, Queue
<1>8. CreditsMatchRoom
  BY <1>6, ConstantsOK DEF Init, CreditsMatchRoom, Queued, Sending, Queue
<1>9. TakeFindsPacket
  BY DEF Init, TakeFindsPacket
<1>10. QED
  BY <1>2, <1>3, <1>4, <1>5, <1>7, <1>8, <1>9 DEF Accounting, TypeOK

(* The slot packet_send reads holds a packet. *)
LEMMA OldestType == ASSUME RingsTypeOK, NEW q \in Queue PROVE Oldest(q) \in Packet
<1>1. N \in Nat \ {0} /\ N + c[q] - f[q] \in Int
  BY ConstantsOK DEF RingsTypeOK
<1>2. (N + c[q] - f[q]) % N \in 0..(N-1)
  BY <1>1, ModRange
<1>3. QED
  BY <1>2 DEF Oldest, RingsTypeOK

(* The counters and counts of threads are numbers the provers can add. *)
LEMMA Numbers ==
  ASSUME TypeOK
  PROVE  /\ \A q \in Queue : f[q] \in Nat
         /\ Queued \in Nat /\ Held \in Nat /\ Sending \in Nat
         /\ In("insert") \in Nat /\ In("post") \in Nat
         /\ sFull \in Nat /\ qEmpty \in Nat /\ stolen \in Nat
  BY InType, ConstantsOK
  DEF TypeOK, RingsTypeOK, SemaphoresTypeOK, Queued, Held, Sending, Queue

(* Every step of send_data keeps the accounting. *)
LEMMA AccountingSendData ==
  ASSUME Accounting, NEW t \in Threads, SendData(t)
  PROVE  Accounting'
<1>a. RingsTypeOK /\ SemaphoresTypeOK /\ ThreadsTypeOK /\ SenderTypeOK /\ TypeOK
  BY DEF Accounting, TypeOK
<1>t. tpc \in [Threads -> {"idle", "insert", "post"}]
  BY <1>a DEF ThreadsTypeOK
<1>b. TokensMatchPackets /\ CreditsMatchRoom /\ TakeFindsPacket
  BY DEF Accounting
<1>n. /\ \A q \in Queue : f[q] \in Nat
      /\ Queued \in Nat /\ Held \in Nat /\ Sending \in Nat
      /\ In("insert") \in Nat /\ In("post") \in Nat
      /\ sFull \in Nat /\ qEmpty \in Nat /\ stolen \in Nat
  BY <1>a, Numbers
<1>c. Blank \in Packet
  BY ConstantsOK DEF Blank, Packet, Kinds
<1>s. UNCHANGED <<senderVars, kill, wire, stolen, bypass, cookies, ckFull>>
  BY DEF SendData, SendDataCall, SendDataInsert, SendDataPost, histVars
<1>h. SenderTypeOK' /\ Held' = Held /\ Sending' = Sending
  BY <1>a, <1>s DEF SenderTypeOK, Held, Sending, senderVars
<1>1. CASE SendDataCall(t)
  <2>1. RingsTypeOK' /\ UNCHANGED queueVars
    BY <1>a, <1>1 DEF SendDataCall, RingsTypeOK, queueVars
  <2>2. SemaphoresTypeOK'
    BY <1>a, <1>s, <1>1 DEF SendDataCall, SemaphoresTypeOK
  <2>3. ThreadsTypeOK'
    BY <1>a, <1>1, ConstantsOK DEF SendDataCall, ThreadsTypeOK, Packet
  <2>4. Queued' = Queued /\ TakeFindsPacket'
    BY <1>b, <1>s, <2>1 DEF Queued, TakeFindsPacket, queueVars, senderVars
  <2>5. CASE qEmpty > 0
    <3>1. /\ tpc[t] = "idle" /\ tpc' = [tpc EXCEPT ![t] = "insert"]
          /\ qEmpty' = qEmpty - 1 /\ sFull' = sFull
      BY <1>1, <2>5 DEF SendDataCall
    <3>2. In("insert")' = In("insert") + 1 /\ In("post")' = In("post")
      BY <1>t, <3>1, InMove
    <3>3. TokensMatchPackets' /\ CreditsMatchRoom'
      BY <1>b, <1>n, <1>s, <1>h, <2>4, <3>1, <3>2 DEF TokensMatchPackets, CreditsMatchRoom
    <3>4. QED
      BY <1>h, <2>1, <2>2, <2>3, <2>4, <3>3 DEF Accounting, TypeOK
  <2>6. CASE ~(qEmpty > 0)
    <3>1. UNCHANGED <<tpc, qEmpty, sFull>>
      BY <1>1, <2>6 DEF SendDataCall
    <3>2. In("insert")' = In("insert") /\ In("post")' = In("post")
      BY <3>1 DEF In
    <3>3. TokensMatchPackets' /\ CreditsMatchRoom'
      BY <1>b, <1>s, <1>h, <2>4, <3>1, <3>2 DEF TokensMatchPackets, CreditsMatchRoom
    <3>4. QED
      BY <1>h, <2>1, <2>2, <2>3, <2>4, <3>3 DEF Accounting, TypeOK
  <2>7. QED
    BY <2>5, <2>6
<1>2. CASE SendDataInsert(t)
  <2> DEFINE q == QueueOf(arg[t])
  <2>q. q \in Queue
    BY DEF QueueOf, Queue
  <2>1. CASE f[q] < N
    <3>1. /\ buf' = [buf EXCEPT ![q][c[q]] = arg[t]]
          /\ c' = [c EXCEPT ![q] = (c[q] + 1) % N]
          /\ f' = [f EXCEPT ![q] = f[q] + 1]
          /\ tpc' = [tpc EXCEPT ![t] = "post"]
          /\ arg' = [arg EXCEPT ![t] = Blank]
          /\ UNCHANGED <<sFull, qEmpty, sent>>
          /\ tpc[t] = "insert"
      BY <1>2, <2>1 DEF SendDataInsert
    <3>2. (c[q] + 1) % N \in 0..(N-1)
      <4>1. N \in Nat \ {0} /\ c[q] + 1 \in Int
        BY <1>a, <2>q, ConstantsOK DEF RingsTypeOK
      <4>2. QED
        BY <4>1, ModRange
    <3>3. RingsTypeOK'
      BY <1>a, <2>q, <2>1, <3>1, <3>2, ConstantsOK DEF RingsTypeOK, ThreadsTypeOK
    <3>4. SemaphoresTypeOK'
      BY <1>a, <1>s, <3>1 DEF SemaphoresTypeOK
    <3>5. ThreadsTypeOK'
      BY <1>a, <1>c, <3>1 DEF ThreadsTypeOK
    <3>6. In("insert")' = In("insert") - 1 /\ In("post")' = In("post") + 1
      BY <1>t, <3>1, InMove
    <3>7. \A r \in Queue : f'[r] = IF r = q THEN f[r] + 1 ELSE f[r]
      BY <1>a, <3>1 DEF RingsTypeOK
    <3>8. Queued' = Queued + 1
      BY <1>n, <2>q, <3>7 DEF Queued, Queue
    <3>9. TakeFindsPacket'
      BY <1>b, <1>n, <1>s, <3>7, <3>8 DEF TakeFindsPacket, Queue, senderVars
    <3>10. TokensMatchPackets' /\ CreditsMatchRoom'
      BY <1>b, <1>n, <1>s, <1>h, <3>1, <3>6, <3>8 DEF TokensMatchPackets, CreditsMatchRoom
    <3>11. QED
      BY <1>h, <3>3, <3>4, <3>5, <3>9, <3>10 DEF Accounting, TypeOK
  <2>2. CASE ~(f[q] < N)
    <3>1. /\ qEmpty' = qEmpty + 1
          /\ tpc' = [tpc EXCEPT ![t] = "idle"]
          /\ arg' = [arg EXCEPT ![t] = Blank]
          /\ UNCHANGED <<queueVars, sFull, sent>>
          /\ tpc[t] = "insert"
      BY <1>2, <2>2 DEF SendDataInsert
    <3>2. RingsTypeOK'
      BY <1>a, <3>1 DEF RingsTypeOK, queueVars
    <3>3. SemaphoresTypeOK'
      BY <1>a, <1>s, <3>1 DEF SemaphoresTypeOK
    <3>4. ThreadsTypeOK'
      BY <1>a, <1>c, <3>1 DEF ThreadsTypeOK
    <3>5. In("insert")' = In("insert") - 1 /\ In("post")' = In("post")
      BY <1>t, <3>1, InMove
    <3>6. Queued' = Queued /\ TakeFindsPacket'
      BY <1>b, <1>s, <3>1 DEF Queued, TakeFindsPacket, queueVars, senderVars
    <3>7. TokensMatchPackets' /\ CreditsMatchRoom'
      BY <1>b, <1>n, <1>s, <1>h, <3>1, <3>5, <3>6 DEF TokensMatchPackets, CreditsMatchRoom
    <3>8. QED
      BY <1>h, <3>2, <3>3, <3>4, <3>6, <3>7 DEF Accounting, TypeOK
  <2>3. QED
    BY <2>1, <2>2
<1>3. CASE SendDataPost(t)
  <2>1. /\ tpc[t] = "post" /\ tpc' = [tpc EXCEPT ![t] = "idle"]
        /\ sFull' = sFull + 1
        /\ UNCHANGED <<queueVars, qEmpty, arg, sent>>
    BY <1>3 DEF SendDataPost
  <2>2. RingsTypeOK' /\ Queued' = Queued /\ TakeFindsPacket'
    BY <1>a, <1>b, <1>s, <2>1 DEF RingsTypeOK, Queued, TakeFindsPacket, queueVars, senderVars
  <2>3. SemaphoresTypeOK' /\ ThreadsTypeOK'
    BY <1>a, <1>s, <2>1 DEF SemaphoresTypeOK, ThreadsTypeOK
  <2>4. In("insert")' = In("insert") /\ In("post")' = In("post") - 1
    BY <1>t, <2>1, InMove
  <2>5. TokensMatchPackets' /\ CreditsMatchRoom'
    BY <1>b, <1>n, <1>s, <1>h, <2>1, <2>2, <2>4 DEF TokensMatchPackets, CreditsMatchRoom
  <2>6. QED
    BY <1>h, <2>2, <2>3, <2>5 DEF Accounting, TypeOK
<1>4. QED
  BY <1>1, <1>2, <1>3 DEF SendData

(* Taking a packet from a ring that is not empty keeps the accounting: the *)
(* unit of sFull the sender holds turns into the packet it is sending.     *)
LEMMA AccountingTake ==
  ASSUME Accounting, NEW q \in Queue, NEW n \in {0, 1, 2}, Take(q, n),
         spc \in {"prio", "retr", "data"}, f[q] >= 1,
         UNCHANGED <<buf, c, sFull, qEmpty, ckFull, threadVars, z, lasthost, kill, wire,
                     cookies, stolen>>
  PROVE  Accounting'
<1>a. RingsTypeOK /\ SemaphoresTypeOK /\ ThreadsTypeOK /\ SenderTypeOK /\ TypeOK
  BY DEF Accounting, TypeOK
<1>b. TokensMatchPackets /\ CreditsMatchRoom /\ TakeFindsPacket
  BY DEF Accounting
<1>n. /\ \A r \in Queue : f[r] \in Nat
      /\ Queued \in Nat /\ In("insert") \in Nat /\ In("post") \in Nat
      /\ sFull \in Nat /\ qEmpty \in Nat /\ stolen \in Nat
  BY <1>a, Numbers
<1>1. f' = [f EXCEPT ![q] = f[q] - 1] /\ d' = Oldest(q) /\ src' = n /\ spc' = "xmit"
  BY DEF Take
<1>2. RingsTypeOK'
  BY <1>a, <1>1, ConstantsOK DEF RingsTypeOK
<1>3. SemaphoresTypeOK'
  <2>1. bypass' \in Nat
    BY <1>a DEF Take, SemaphoresTypeOK
  <2>2. QED
    BY <1>a, <2>1 DEF SemaphoresTypeOK
<1>4. ThreadsTypeOK' /\ In("insert")' = In("insert") /\ In("post")' = In("post")
  BY <1>a DEF ThreadsTypeOK, In, threadVars
<1>5. SenderTypeOK'
  <2>1. Oldest(q) \in Packet
    BY <1>a, OldestType
  <2>2. QED
    BY <1>a, <1>1, <2>1 DEF SenderTypeOK, SenderPC
<1>6. \A r \in Queue : f'[r] = IF r = q THEN f[r] - 1 ELSE f[r]
  BY <1>a, <1>1 DEF RingsTypeOK
<1>7. Queued' = Queued - 1
  BY <1>n, <1>6 DEF Queued, Queue
<1>8. Held = 1 /\ Held' = 0 /\ Sending = 0 /\ Sending' = 1
  BY <1>1 DEF Held, Sending
<1>9. TokensMatchPackets' /\ CreditsMatchRoom'
  BY <1>b, <1>n, <1>4, <1>7, <1>8 DEF TokensMatchPackets, CreditsMatchRoom
<1>10. TakeFindsPacket'
  BY <1>1 DEF TakeFindsPacket
<1>11. QED
  BY <1>2, <1>3, <1>4, <1>5, <1>9, <1>10 DEF Accounting, TypeOK

(* A step of the sender that takes nothing from a ring keeps the           *)
(* accounting when it moves the unit of sFull or of qEmpty as it should.   *)
LEMMA AccountingFrame ==
  ASSUME Accounting, UNCHANGED <<queueVars, threadVars, bypass, cookies>>,
         SemaphoresTypeOK', SenderTypeOK', TakeFindsPacket',
         sFull' + Held' + stolen' = sFull + Held + stolen,
         qEmpty' + Sending' - stolen' = qEmpty + Sending - stolen
  PROVE  Accounting'
<1>a. RingsTypeOK /\ SemaphoresTypeOK /\ ThreadsTypeOK /\ SenderTypeOK /\ TypeOK
  BY DEF Accounting, TypeOK
<1>1. RingsTypeOK' /\ ThreadsTypeOK' /\ TypeOK'
  BY <1>a DEF RingsTypeOK, ThreadsTypeOK, TypeOK, queueVars, threadVars
<1>2. Queued' = Queued /\ In("insert")' = In("insert") /\ In("post")' = In("post")
  BY DEF Queued, In, queueVars, threadVars
<1>3. /\ Queued \in Nat /\ In("insert") \in Nat /\ In("post") \in Nat
      /\ sFull \in Nat /\ qEmpty \in Nat /\ stolen \in Nat /\ Held \in Nat /\ Sending \in Nat
  BY <1>a, Numbers
<1>4. sFull' \in Nat /\ qEmpty' \in Nat /\ stolen' \in Nat /\ Held' \in Nat /\ Sending' \in Nat
  BY DEF SemaphoresTypeOK, Held, Sending
<1>b. Queued = sFull + Held + In("post") + stolen
  BY DEF Accounting, TokensMatchPackets
<1>c. qEmpty + Queued + In("insert") + Sending = 3 * N + stolen
  BY DEF Accounting, CreditsMatchRoom
<1>d. PICK s \in Nat, e \in Nat, h \in Nat, g \in Nat, st \in Nat :
        s = sFull' /\ e = qEmpty' /\ h = Held' /\ g = Sending' /\ st = stolen'
  BY <1>4
<1>e. s + h + st = sFull + Held + stolen /\ e + g - st = qEmpty + Sending - stolen
  BY <1>d
<1>5. TokensMatchPackets'
  <2>1. Queued = s + h + In("post") + st
    BY <1>b, <1>e, <1>3
  <2>2. QED
    BY <1>d, <1>2, <2>1 DEF TokensMatchPackets
<1>6. CreditsMatchRoom'
  <2>0. PICK m \in Nat, q \in Nat, i \in Nat : m = 3 * N /\ q = Queued /\ i = In("insert")
    <3>1. 3 * N \in Nat
      BY ConstantsOK
    <3>2. QED
      BY <3>1, <1>3
  <2>1. e + Queued + In("insert") + g = 3 * N + st
    <3>1. qEmpty + q + i + Sending = m + stolen
      BY <1>c, <2>0
    <3>2. e + q + i + g = m + st
      BY <3>1, <1>e, <1>3
    <3>3. QED
      BY <2>0, <3>2
  <2>2. QED
    BY <1>d, <1>2, <2>1 DEF CreditsMatchRoom
<1>7. QED
  BY <1>1, <1>5, <1>6 DEF Accounting

(* Every step of the sender thread keeps the accounting. *)
LEMMA AccountingSender == ASSUME Accounting, Sender PROVE Accounting'
<1>a. RingsTypeOK /\ SemaphoresTypeOK /\ ThreadsTypeOK /\ SenderTypeOK /\ TypeOK
  BY DEF Accounting, TypeOK
<1>b. TokensMatchPackets /\ CreditsMatchRoom /\ TakeFindsPacket
  BY DEF Accounting
<1>n. /\ \A q \in Queue : f[q] \in Nat
      /\ Queued \in Nat /\ Held \in Nat /\ Sending \in Nat
      /\ In("insert") \in Nat /\ In("post") \in Nat
      /\ sFull \in Nat /\ qEmpty \in Nat /\ stolen \in Nat
  BY <1>a, Numbers
<1>1. CASE SenderTop
  <2>1. SemaphoresTypeOK'
    BY <1>a, <1>1 DEF SenderTop, SemaphoresTypeOK, histVars
  <2>2. SenderTypeOK'
    BY <1>a, <1>1 DEF SenderTop, SenderTypeOK, SenderPC
  <2>3. TakeFindsPacket'
    <3>1. spc' = "wait" /\ f' = f
      BY <1>1 DEF SenderTop, queueVars
    <3>2. z' => f["send"] > 0
      BY <1>1 DEF SenderTop
    <3>3. f["send"] > 0 => f["send"] >= 1
      BY <1>n DEF Queue
    <3>4. QED
      BY <3>1, <3>2, <3>3 DEF TakeFindsPacket
  <2>4. Held' = Held /\ Sending' = Sending
    BY <1>1 DEF SenderTop, Held, Sending
  <2>5. QED
    BY <1>1, <2>1, <2>2, <2>3, <2>4, AccountingFrame DEF SenderTop, histVars
<1>2. CASE SenderWait
  <2>1. SemaphoresTypeOK'
    BY <1>a, <1>2 DEF SenderWait, SemaphoresTypeOK, histVars
  <2>2. SenderTypeOK'
    BY <1>a, <1>2 DEF SenderWait, SenderTypeOK, SenderPC
  <2>3. TakeFindsPacket'
    BY <1>b, <1>2 DEF SenderWait, TakeFindsPacket, queueVars
  <2>4. Held = 0 /\ Held' = 1 /\ Sending = 0 /\ Sending' = 0
    BY <1>2 DEF SenderWait, Held, Sending
  <2>5. sFull' = sFull - 1 /\ UNCHANGED <<queueVars, threadVars, bypass, cookies, qEmpty, stolen>>
    BY <1>2 DEF SenderWait, histVars
  <2>6. QED
    BY <1>n, <2>1, <2>2, <2>3, <2>4, <2>5, AccountingFrame
<1>3. CASE SenderCookie
  <2>1. SemaphoresTypeOK'
    BY <1>a, <1>3 DEF SenderCookie, SemaphoresTypeOK
  <2>2. SenderTypeOK'
    BY <1>a, <1>3 DEF SenderCookie, SenderTypeOK, SenderPC
  <2>3. Queued >= 1
    BY <1>b, <1>n, <1>3 DEF SenderCookie, TokensMatchPackets, Held
  <2>4. TakeFindsPacket'
    BY <2>3, <1>3 DEF SenderCookie, TakeFindsPacket, Queued, queueVars
  <2>5. UNCHANGED <<queueVars, threadVars, bypass, cookies, qEmpty, sFull>>
    BY <1>3 DEF SenderCookie
  <2>6. CASE ckFull > 0
    <3>1. stolen' = stolen + 1 /\ Held = 1 /\ Held' = 0 /\ Sending = 0 /\ Sending' = 1
      BY <1>3, <2>6 DEF SenderCookie, Held, Sending
    <3>2. QED
      BY <1>n, <2>1, <2>2, <2>4, <2>5, <3>1, AccountingFrame
  <2>7. CASE ~(ckFull > 0)
    <3>1. stolen' = stolen /\ Held = 1 /\ Held' = 1 /\ Sending = 0 /\ Sending' = 0
      BY <1>3, <2>7 DEF SenderCookie, Held, Sending
    <3>2. QED
      BY <1>n, <2>1, <2>2, <2>4, <2>5, <3>1, AccountingFrame
  <2>8. QED
    BY <2>6, <2>7
<1>4. CASE SenderPrio
  <2>1. CASE f["prio"] # 0
    <3>1. "prio" \in Queue /\ f["prio"] >= 1
      BY <1>n, <2>1 DEF Queue
    <3>2. QED
      BY <1>4, <2>1, <3>1, AccountingTake DEF SenderPrio
  <2>2. CASE f["prio"] = 0
    <3>1. /\ spc = "prio" /\ spc' = "retr"
          /\ UNCHANGED <<queueVars, threadVars, sFull, qEmpty, ckFull, bypass, cookies, stolen,
                         z, d, src, lasthost, kill, wire>>
      BY <1>4, <2>2 DEF SenderPrio, queueVars
    <3>2. SemaphoresTypeOK' /\ SenderTypeOK'
      BY <1>a, <3>1 DEF SemaphoresTypeOK, SenderTypeOK, SenderPC
    <3>3. TakeFindsPacket'
      BY <1>b, <1>n, <2>2, <3>1 DEF TakeFindsPacket, Queued, queueVars, Queue
    <3>4. Held' = Held /\ Sending' = Sending
      BY <3>1 DEF Held, Sending
    <3>5. QED
      BY <3>1, <3>2, <3>3, <3>4, AccountingFrame
  <2>3. QED
    BY <2>1, <2>2
<1>5. CASE SenderRetr
  <2>1. CASE f["retr"] # 0
    <3>1. "retr" \in Queue /\ f["retr"] >= 1
      BY <1>n, <2>1 DEF Queue
    <3>2. QED
      BY <1>5, <2>1, <3>1, AccountingTake DEF SenderRetr
  <2>2. CASE f["retr"] = 0
    <3>1. /\ spc = "retr" /\ spc' = "data"
          /\ UNCHANGED <<queueVars, threadVars, sFull, qEmpty, ckFull, bypass, cookies, stolen,
                         z, d, src, lasthost, kill, wire>>
      BY <1>5, <2>2 DEF SenderRetr, queueVars
    <3>2. SemaphoresTypeOK' /\ SenderTypeOK'
      BY <1>a, <3>1 DEF SemaphoresTypeOK, SenderTypeOK, SenderPC
    <3>3. TakeFindsPacket'
      BY <1>b, <1>n, <2>2, <3>1 DEF TakeFindsPacket, queueVars, Queue
    <3>4. Held' = Held /\ Sending' = Sending
      BY <3>1 DEF Held, Sending
    <3>5. QED
      BY <3>1, <3>2, <3>3, <3>4, AccountingFrame
  <2>3. QED
    BY <2>1, <2>2
<1>6. CASE SenderData
  <2>1. "send" \in Queue /\ f["send"] >= 1
    BY <1>b, <1>6 DEF SenderData, TakeFindsPacket, Queue
  <2>2. QED
    BY <1>6, <2>1, AccountingTake DEF SenderData
<1>7. CASE SenderXmit
  <2>1. /\ spc = "xmit" /\ spc' = "post"
        /\ UNCHANGED <<queueVars, sFull, qEmpty, ckFull, threadVars, z, d, src, kill, cookies,
                       stolen, bypass>>
    BY <1>7 DEF SenderXmit, histVars
  <2>2. wire' \in Datagram
    BY <1>a, <1>7 DEF SenderXmit, SenderTypeOK, Datagram
  <2>3. lasthost' \in Hosts \cup {NoHost}
    BY <1>a, <1>7 DEF SenderXmit, SenderTypeOK, Packet, CookiePacket
  <2>4. SemaphoresTypeOK' /\ SenderTypeOK'
    BY <1>a, <2>1, <2>2, <2>3 DEF SemaphoresTypeOK, SenderTypeOK, SenderPC
  <2>5. TakeFindsPacket' /\ Held' = Held /\ Sending' = Sending
    BY <2>1 DEF TakeFindsPacket, Held, Sending
  <2>6. QED
    BY <2>1, <2>4, <2>5, AccountingFrame
<1>8. CASE SenderPost
  <2>1. /\ spc = "post" /\ spc' \in {"wait", "top"} /\ z' = FALSE /\ qEmpty' = qEmpty + 1
        /\ UNCHANGED <<queueVars, sFull, ckFull, threadVars, d, src, lasthost, kill, wire,
                       cookies, stolen, bypass>>
    BY <1>8 DEF SenderPost, histVars
  <2>2. SemaphoresTypeOK' /\ SenderTypeOK'
    <3>1. SemaphoresTypeOK'
      BY <1>a, <2>1 DEF SemaphoresTypeOK
    <3>2. SenderTypeOK'
      BY <1>a, <2>1 DEF SenderTypeOK, SenderPC
    <3>3. QED
      BY <3>1, <3>2
  <2>3. TakeFindsPacket'
    BY <2>1 DEF TakeFindsPacket
  <2>4. Held = 0 /\ Held' = 0 /\ Sending = 1 /\ Sending' = 0
    BY <2>1 DEF Held, Sending
  <2>5. QED
    BY <1>n, <2>1, <2>2, <2>3, <2>4, AccountingFrame
<1>9. QED
  BY <1>1, <1>2, <1>3, <1>4, <1>5, <1>6, <1>7, <1>8 DEF Sender

(* Announcing two cookies touches neither a ring nor sFull. *)
LEMMA AccountingCookie == ASSUME Accounting, SendCookie PROVE Accounting'
<1>1. /\ UNCHANGED <<queueVars, sFull, qEmpty, threadVars, senderVars, kill, wire, stolen,
                     bypass>>
      /\ ckFull' = ckFull + 2 /\ cookies' = cookies + 1 /\ cookies < MaxCookies
  BY DEF SendCookie, histVars
<1>2. TypeOK'
  <2>1. SemaphoresTypeOK'
    BY <1>1, ConstantsOK DEF Accounting, TypeOK, SemaphoresTypeOK
  <2>2. RingsTypeOK' /\ ThreadsTypeOK'
    BY <1>1 DEF Accounting, TypeOK, RingsTypeOK, ThreadsTypeOK, queueVars, threadVars
  <2>3. SenderTypeOK'
    BY <1>1 DEF Accounting, TypeOK, SenderTypeOK, senderVars
  <2>4. QED
    BY <2>1, <2>2, <2>3 DEF TypeOK
<1>3. Queued' = Queued /\ In("insert")' = In("insert") /\ In("post")' = In("post")
  BY <1>1 DEF Queued, In, queueVars, threadVars
<1>4. Held' = Held /\ Sending' = Sending /\ TakeFindsPacket'
  BY <1>1, <1>3 DEF Held, Sending, Accounting, TakeFindsPacket, senderVars, queueVars
<1>5. TokensMatchPackets' /\ CreditsMatchRoom'
  BY <1>1, <1>3, <1>4 DEF Accounting, TokensMatchPackets, CreditsMatchRoom
<1>6. QED
  BY <1>2, <1>4, <1>5 DEF Accounting

(* A step that changes nothing keeps the accounting. *)
LEMMA AccountingStutter == ASSUME Accounting, UNCHANGED vars PROVE Accounting'
<1>1. TypeOK'
  <2>1. RingsTypeOK' /\ ThreadsTypeOK'
    BY DEF vars, Accounting, TypeOK, RingsTypeOK, ThreadsTypeOK, queueVars, threadVars
  <2>2. SemaphoresTypeOK'
    BY DEF vars, Accounting, TypeOK, SemaphoresTypeOK, histVars
  <2>3. SenderTypeOK'
    BY DEF vars, Accounting, TypeOK, SenderTypeOK, senderVars
  <2>4. QED
    BY <2>1, <2>2, <2>3 DEF TypeOK
<1>2. TokensMatchPackets' /\ CreditsMatchRoom' /\ TakeFindsPacket'
  BY DEF vars, Accounting, TokensMatchPackets, CreditsMatchRoom, TakeFindsPacket, Queued, Held,
         Sending, In, queueVars, threadVars, senderVars, histVars
<1>3. QED
  BY <1>1, <1>2 DEF Accounting

(* Every step of the system keeps the accounting. *)
LEMMA AccountingStep == ASSUME Accounting, [Next]_vars PROVE Accounting'
  BY AccountingSendData, AccountingSender, AccountingCookie, AccountingStutter DEF Next

(* The semaphores sFull and qEmpty and the counters of the three rings     *)
(* agree in every reachable state, whatever the threads interleave.        *)
THEOREM AccountingHolds == Spec => []Accounting
<1>1. Init => Accounting
  BY AccountingInit
<1>2. Accounting /\ [Next]_vars => Accounting'
  BY AccountingStep
<1>3. QED
  BY <1>1, <1>2, PTL DEF Spec

(* Type correctness: no counter of a ring leaves 0..N, so that no read     *)
(* index, and no decrement of f_send, goes astray.                         *)
THEOREM TypeCorrect == Spec => []TypeOK
<1>1. Accounting => TypeOK
  BY DEF Accounting
<1>2. QED
  BY <1>1, AccountingHolds, PTL

(* The packets in the rings are the units of sFull, those on their way and *)
(* those the cookies used up.                                              *)
THEOREM TokensCorrect == Spec => []TokensMatchPackets
<1>1. Accounting => TokensMatchPackets
  BY DEF Accounting
<1>2. QED
  BY <1>1, AccountingHolds, PTL

(* Every unit of qEmpty comes back exactly once. *)
THEOREM CreditsCorrect == Spec => []CreditsMatchRoom
<1>1. Accounting => CreditsMatchRoom
  BY DEF Accounting
<1>2. QED
  BY <1>1, AccountingHolds, PTL

(* packet_send never takes from an empty send_buf. *)
THEOREM TakeCorrect == Spec => []TakeFindsPacket
<1>1. Accounting => TakeFindsPacket
  BY DEF Accounting
<1>2. QED
  BY <1>1, AccountingHolds, PTL
-----------------------------------------------------------------------------
(* The rings as queues.                                                    *)

(* The slot of the i-th oldest packet of a ring whose next slot is a and   *)
(* that holds k packets.                                                   *)
Slot(a, k, i) == (N + a - k + i - 1) % N

(* A slot is one of the ring. *)
LEMMA SlotType ==
  ASSUME NEW a \in 0..(N-1), NEW k \in 0..N, NEW i \in 1..N
  PROVE  Slot(a, k, i) \in 0..(N-1)
<1>1. N \in Nat \ {0} /\ N + a - k + i - 1 \in Int
  BY ConstantsOK
<1>2. QED
  BY <1>1, ModRange DEF Slot

(* Filling slot a leaves the slots in use where they are, and makes a the  *)
(* last one.                                                               *)
LEMMA SlotsGrow ==
  ASSUME NEW a \in 0..(N-1), NEW k \in 0..(N-1)
  PROVE  /\ Slot((a + 1) % N, k + 1, k + 1) = a
         /\ \A i \in 1..k : Slot(a, k, i) # a /\ Slot((a + 1) % N, k + 1, i) = Slot(a, k, i)
<1>0. N \in Nat \ {0}
  BY ConstantsOK
<1>1. (a + 1) % N = IF a + 1 < N THEN a + 1 ELSE 0
  <2>1. PICK x \in 0..(2*N - 1) : x = a + 1 /\ x <= N
    BY <1>0
  <2>2. x % N = IF x < N THEN x ELSE x - N
    BY <1>0, ModOnce
  <2>3. QED
    BY <1>0, <2>1, <2>2
<1>2. PICK a1 \in 0..(N-1) : a1 = (a + 1) % N /\ (a1 = a + 1 \/ (a1 = 0 /\ a = N - 1))
  BY <1>0, <1>1
<1>3. Slot(a1, k + 1, k + 1) = a
  <2>1. N + a1 - (k + 1) + (k + 1) - 1 = N + a1 - 1 /\ N + a1 - 1 \in 0..(2*N - 1)
    BY <1>0, <1>2
  <2>2. PICK x \in 0..(2*N - 1) : x = N + a1 - 1
    BY <2>1
  <2>3. x % N = IF x < N THEN x ELSE x - N
    BY <1>0, ModOnce
  <2>4. x % N = a
    BY <1>0, <1>2, <2>2, <2>3
  <2>5. QED
    BY <2>1, <2>2, <2>4 DEF Slot
<1>4. ASSUME NEW i \in 1..k
      PROVE  Slot(a, k, i) # a /\ Slot(a1, k + 1, i) = Slot(a, k, i)
  <2>1. PICK x \in 0..(2*N - 1) : x = N + a - k + i - 1 /\ x # a /\ x - N # a
    BY <1>0, <1>4
  <2>2. PICK y \in 0..(2*N - 1) : y = N + a1 - (k + 1) + i - 1 /\ (y = x \/ y = x - N)
    BY <1>0, <1>2, <2>1
  <2>3. x % N = (IF x < N THEN x ELSE x - N) /\ y % N = (IF y < N THEN y ELSE y - N)
    BY <1>0, ModOnce
  <2>4. x % N # a /\ y % N = x % N
    BY <1>0, <2>1, <2>2, <2>3
  <2>5. QED
    BY <2>1, <2>2, <2>4 DEF Slot
<1>5. QED
  BY <1>2, <1>3, <1>4

(* The packets of a ring with slots b, next slot a and k packets. *)
Ring(b, a, k) == [i \in 1..k |-> b[Slot(a, k, i)]]

(* They form a sequence of k packets whose first one is in the slot that   *)
(* packet_send reads.                                                      *)
LEMMA RingType ==
  ASSUME NEW b \in [0..(N-1) -> Packet], NEW a \in 0..(N-1), NEW k \in 0..N
  PROVE  /\ Ring(b, a, k) \in Seq(Packet) /\ Len(Ring(b, a, k)) = k
         /\ \A i \in 1..k : Ring(b, a, k)[i] = b[Slot(a, k, i)]
         /\ k >= 1 => Head(Ring(b, a, k)) = b[(N + a - k) % N]
<1>1. N \in Nat \ {0} /\ k \in Nat
  BY ConstantsOK
<1>2. \A i \in 1..k : b[Slot(a, k, i)] \in Packet
  <2>1. TAKE i \in 1..k
  <2>2. i \in 1..N
    BY <1>1
  <2>3. QED
    BY <2>2, SlotType
<1>3. Ring(b, a, k) \in [1..k -> Packet]
  BY <1>2 DEF Ring
<1>4. Ring(b, a, k) \in Seq(Packet)
  BY <1>1, <1>3, SeqDef
<1>5. Len(Ring(b, a, k)) = k
  BY <1>1, <1>3, <1>4, LenProperties
<1>6. \A i \in 1..k : Ring(b, a, k)[i] = b[Slot(a, k, i)]
  BY DEF Ring
<1>7. ASSUME k >= 1 PROVE Head(Ring(b, a, k)) = b[(N + a - k) % N]
  <2>1. Head(Ring(b, a, k)) = Ring(b, a, k)[1]
    BY <1>4, <1>5, <1>7
  <2>2. 1 \in 1..k /\ N + a - k + 1 - 1 = N + a - k
    BY <1>1, <1>7
  <2>3. QED
    BY <1>6, <2>1, <2>2 DEF Slot
<1>8. QED
  BY <1>4, <1>5, <1>6, <1>7

(* Filling the next slot of a ring that has room appends to its packets,   *)
(* and the slot packet_send reads keeps its packet if there is one.        *)
LEMMA RingAppend ==
  ASSUME NEW b \in [0..(N-1) -> Packet], NEW a \in 0..(N-1), NEW k \in 0..N, k < N,
         NEW p \in Packet
  PROVE  /\ Ring([b EXCEPT ![a] = p], (a + 1) % N, k + 1) = Append(Ring(b, a, k), p)
         /\ k >= 1 => [b EXCEPT ![a] = p][(N + ((a + 1) % N) - (k + 1)) % N]
                        = b[(N + a - k) % N]
<1> DEFINE b1 == [b EXCEPT ![a] = p]
           a1 == (a + 1) % N
           new == Ring(b1, a1, k + 1)
           old == Ring(b, a, k)
<1>1. N \in Nat \ {0} /\ k \in 0..(N-1) /\ k + 1 \in 0..N /\ b1 \in [0..(N-1) -> Packet]
  BY ConstantsOK
<1>2. a1 \in 0..(N-1)
  <2>1. a + 1 \in Int
    BY <1>1
  <2>2. QED
    BY <1>1, <2>1, ModRange
<1>3. /\ new \in Seq(Packet) /\ Len(new) = k + 1
      /\ \A i \in 1..(k + 1) : new[i] = b1[Slot(a1, k + 1, i)]
      /\ Head(new) = b1[(N + a1 - (k + 1)) % N]
  <2>1. k + 1 >= 1
    BY <1>1
  <2> HIDE DEF b1, a1
  <2>2. QED
    BY <1>1, <1>2, <2>1, RingType
<1>4. /\ old \in Seq(Packet) /\ Len(old) = k
      /\ \A i \in 1..k : old[i] = b[Slot(a, k, i)]
      /\ k >= 1 => Head(old) = b[(N + a - k) % N]
  BY RingType
<1>s. /\ Slot(a1, k + 1, k + 1) = a
      /\ \A i \in 1..k : /\ Slot(a, k, i) # a
                         /\ Slot(a1, k + 1, i) = Slot(a, k, i)
  BY <1>1, SlotsGrow
<1>5. new[k + 1] = p
  <2>1. Slot(a1, k + 1, k + 1) = a
    BY <1>s
  <2>2. k + 1 \in 1..(k + 1)
    BY <1>1
  <2>3. new[k + 1] = b1[a]
    BY <1>3, <2>1, <2>2
  <2>4. QED
    BY <2>3
<1>6. \A i \in 1..k : new[i] = old[i]
  <2>1. TAKE i \in 1..k
  <2>2. /\ Slot(a, k, i) # a
        /\ Slot(a1, k + 1, i) = Slot(a, k, i)
    BY <1>s
  <2>3. Slot(a, k, i) \in 0..(N-1)
    <3>1. i \in 1..N
      BY <1>1
    <3>2. QED
      BY <3>1, SlotType
  <2>4. b1[Slot(a, k, i)] = b[Slot(a, k, i)]
    BY <2>2, <2>3
  <2>5. i \in 1..(k + 1)
    BY <1>1
  <2>6. QED
    BY <1>3, <1>4, <2>2, <2>4, <2>5
<1> HIDE DEF new, old, b1, a1
<1>7. new = Append(old, p)
  <2>1. /\ Append(old, p) \in Seq(Packet) /\ Len(Append(old, p)) = k + 1
        /\ \A i \in 1..k : Append(old, p)[i] = old[i]
        /\ Append(old, p)[k + 1] = p
    BY <1>1, <1>4
  <2>2. \A i \in 1..Len(new) : new[i] = Append(old, p)[i]
    <3>1. TAKE i \in 1..Len(new)
    <3>2. i \in 1..k \/ i = k + 1
      BY <1>1, <1>3
    <3>3. QED
      BY <1>5, <1>6, <2>1, <3>2
  <2>3. QED
    BY <1>3, <2>1, <2>2, SeqEqual
<1>8. ASSUME k >= 1 PROVE b1[(N + a1 - (k + 1)) % N] = b[(N + a - k) % N]
  <2>1. Head(new) = new[1] /\ Head(old) = old[1]
    BY <1>1, <1>3, <1>4, <1>8
  <2>2. 1 \in 1..k
    BY <1>1, <1>8
  <2>3. QED
    BY <1>3, <1>4, <1>6, <1>8, <2>1, <2>2
<1>9. QED
  BY <1>7, <1>8 DEF new, old, b1, a1

(* Decrementing the counter of a ring that has packets removes the first. *)
LEMMA RingTail ==
  ASSUME NEW b \in [0..(N-1) -> Packet], NEW a \in 0..(N-1), NEW k \in 0..N, k >= 1
  PROVE  Ring(b, a, k - 1) = Tail(Ring(b, a, k))
<1> DEFINE new == Ring(b, a, k - 1)
           old == Ring(b, a, k)
<1>1. N \in Nat \ {0} /\ k - 1 \in 0..N
  BY ConstantsOK
<1>2. /\ new \in Seq(Packet) /\ Len(new) = k - 1
      /\ \A i \in 1..(k - 1) : new[i] = b[Slot(a, k - 1, i)]
  BY <1>1, RingType
<1>3. /\ old \in Seq(Packet) /\ Len(old) = k
      /\ \A i \in 1..k : old[i] = b[Slot(a, k, i)]
  BY RingType
<1> HIDE DEF new, old
<1>4. old # <<>>
  BY <1>3, EmptySeq
<1>5. /\ Tail(old) \in Seq(Packet) /\ Len(Tail(old)) = k - 1
      /\ \A i \in 1..(k - 1) : Tail(old)[i] = old[i + 1]
  BY <1>3, <1>4, HeadTailProperties
<1>6. \A i \in 1..(k - 1) : new[i] = Tail(old)[i]
  <2>1. TAKE i \in 1..(k - 1)
  <2>2. i + 1 \in 1..k /\ N + a - (k - 1) + i - 1 = N + a - k + (i + 1) - 1
    BY <1>1
  <2>s. Slot(a, k - 1, i) = Slot(a, k, i + 1)
    BY <2>2 DEF Slot
  <2>3. QED
    BY <1>2, <1>3, <1>5, <2>2, <2>s
<1>7. new = Tail(old)
  BY <1>2, <1>5, <1>6, SeqEqual
<1>8. QED
  BY <1>7 DEF new, old
(* What a ring of SendQueues holds, before and after a step. *)
LEMMA ContentsRing ==
  ASSUME NEW q \in Queue
  PROVE  /\ Contents(q) = Ring(buf[q], c[q], f[q])
         /\ Contents(q)' = Ring(buf'[q], c'[q], f'[q])
         /\ Oldest(q) = buf[q][(N + c[q] - f[q]) % N]
         /\ Oldest(q)' = buf'[q][(N + c'[q] - f'[q]) % N]
  BY DEF Contents, Ring, Slot, Oldest

(* The critical section of send_data appends the packet to its ring and    *)
(* changes no other; the head of a ring that has one stays the same.       *)
LEMMA InsertAppends ==
  ASSUME RingsTypeOK, NEW q \in Queue, NEW p \in Packet, f[q] < N,
         buf' = [buf EXCEPT ![q][c[q]] = p],
         c' = [c EXCEPT ![q] = (c[q] + 1) % N],
         f' = [f EXCEPT ![q] = f[q] + 1]
  PROVE  /\ Contents(q) \in Seq(Packet) /\ Len(Contents(q)) = f[q]
         /\ Contents(q)' = Append(Contents(q), p)
         /\ \A r \in Queue \ {q} : Contents(r)' = Contents(r) /\ Oldest(r)' = Oldest(r)
         /\ f[q] >= 1 => Oldest(q)' = Oldest(q)
<1>1. buf[q] \in [0..(N-1) -> Packet] /\ c[q] \in 0..(N-1) /\ f[q] \in 0..N
  BY DEF RingsTypeOK
<1>2. buf'[q] = [buf[q] EXCEPT ![c[q]] = p] /\ c'[q] = (c[q] + 1) % N /\ f'[q] = f[q] + 1
  BY DEF RingsTypeOK
<1>3. \A r \in Queue \ {q} : buf'[r] = buf[r] /\ c'[r] = c[r] /\ f'[r] = f[r]
  BY DEF RingsTypeOK
<1>4. /\ Ring([buf[q] EXCEPT ![c[q]] = p], (c[q] + 1) % N, f[q] + 1)
           = Append(Ring(buf[q], c[q], f[q]), p)
      /\ f[q] >= 1 => [buf[q] EXCEPT ![c[q]] = p][(N + ((c[q] + 1) % N) - (f[q] + 1)) % N]
                        = buf[q][(N + c[q] - f[q]) % N]
  <2> DEFINE b == buf[q]
             cq == c[q]
             fq == f[q]
  <2>1. b \in [0..(N-1) -> Packet] /\ cq \in 0..(N-1) /\ fq \in 0..N /\ fq < N
    BY <1>1
  <2> HIDE DEF b, cq, fq
  <2>2. /\ Ring([b EXCEPT ![cq] = p], (cq + 1) % N, fq + 1) = Append(Ring(b, cq, fq), p)
        /\ fq >= 1 => [b EXCEPT ![cq] = p][(N + ((cq + 1) % N) - (fq + 1)) % N]
                        = b[(N + cq - fq) % N]
    BY <2>1, RingAppend
  <2>3. QED
    BY <2>2 DEF b, cq, fq
<1>5. Contents(q)' = Append(Contents(q), p) /\ (f[q] >= 1 => Oldest(q)' = Oldest(q))
  BY <1>2, <1>4, ContentsRing
<1>6. \A r \in Queue \ {q} : Contents(r)' = Contents(r) /\ Oldest(r)' = Oldest(r)
  BY <1>3, ContentsRing
<1>7. Contents(q) \in Seq(Packet) /\ Len(Contents(q)) = f[q]
  BY <1>1, RingType, ContentsRing
<1>8. QED
  BY <1>5, <1>6, <1>7

(* packet_send takes the first packet of a ring and changes no other. *)
LEMMA TakeRemoves ==
  ASSUME RingsTypeOK, NEW q \in Queue, f[q] >= 1, f' = [f EXCEPT ![q] = f[q] - 1],
         UNCHANGED <<buf, c>>
  PROVE  /\ Contents(q) # <<>> /\ Oldest(q) = Head(Contents(q))
         /\ Contents(q)' = Tail(Contents(q))
         /\ \A r \in Queue \ {q} : Contents(r)' = Contents(r)
<1>1. buf[q] \in [0..(N-1) -> Packet] /\ c[q] \in 0..(N-1) /\ f[q] \in 0..N
  BY DEF RingsTypeOK
<1>2. buf'[q] = buf[q] /\ c'[q] = c[q] /\ f'[q] = f[q] - 1
  BY DEF RingsTypeOK
<1>3. \A r \in Queue \ {q} : buf'[r] = buf[r] /\ c'[r] = c[r] /\ f'[r] = f[r]
  BY DEF RingsTypeOK
<1>4. Ring(buf[q], c[q], f[q] - 1) = Tail(Ring(buf[q], c[q], f[q]))
  BY <1>1, RingTail
<1>5. /\ Contents(q) \in Seq(Packet) /\ Len(Contents(q)) = f[q]
      /\ Head(Contents(q)) = Oldest(q)
  BY <1>1, RingType, ContentsRing
<1>6. Contents(q) # <<>>
  BY <1>5, EmptySeq, <1>1
<1>7. Contents(q)' = Tail(Contents(q))
  BY <1>2, <1>4, ContentsRing
<1>8. \A r \in Queue \ {q} : Contents(r)' = Contents(r)
  BY <1>3, ContentsRing
<1>9. QED
  BY <1>5, <1>6, <1>7, <1>8

-----------------------------------------------------------------------------
(* The refinement of FifoClasses.                                          *)

(* The queues of the abstract specification. *)
Queues == [q \in Queue |-> Contents(q)]

(* The empty rings are empty queues. *)
LEMMA RefinesInit == ASSUME Init PROVE Fifo!Init
<1>1. \A q \in Queue : Contents(q) = <<>>
  <2>1. TAKE q \in Queue
  <2>2. f[q] = 0
    BY DEF Init
  <2>3. QED
    BY <2>2 DEF Contents
<1>2. d \in Packet
  BY AccountingInit, ConstantsOK DEF Init, Blank, Packet, Kinds
<1>3. QED
  BY <1>1, <1>2 DEF Fifo!Init

(* Where a packet is put in a ring, the abstract queue accepts it. *)
LEMMA RefinesInsert ==
  ASSUME Accounting, NEW t \in Threads, SendDataInsert(t)
  PROVE  [Fifo!Next]_Fifo!vars
<1>a. RingsTypeOK /\ d' = d
  BY DEF Accounting, TypeOK, SendDataInsert, senderVars
<1>b. PICK q \in Queue, p \in Packet : q = QueueOf(arg[t]) /\ p = arg[t]
  BY DEF Accounting, TypeOK, ThreadsTypeOK, QueueOf, Queue
<1>1. CASE f[q] < N
  <2>1. /\ buf' = [buf EXCEPT ![q][c[q]] = p]
        /\ c' = [c EXCEPT ![q] = (c[q] + 1) % N]
        /\ f' = [f EXCEPT ![q] = f[q] + 1]
    BY <1>1, <1>b DEF SendDataInsert
  <2>2. /\ Contents(q) \in Seq(Packet) /\ Len(Contents(q)) = f[q]
        /\ Contents(q)' = Append(Contents(q), p)
        /\ \A r \in Queue \ {q} : Contents(r)' = Contents(r)
    BY <1>a, <1>1, <2>1, InsertAppends
  <2>3. /\ Contents(q)' # <<>>
        /\ Contents(q)'[Len(Contents(q)')] = p
    BY <1>a, <2>2
  <2>4. Queues' = [Queues EXCEPT ![q] = Append(Queues[q], p)]
    BY <1>a, <2>2 DEF Queues
  <2>5. Queues[q] = Contents(q) /\ Queues'[q] = Contents(q)'
    BY <1>a DEF Queues
  <2>6. Fifo!Accept(q)
    BY <1>a, <1>1, <2>2, <2>3, <2>4, <2>5 DEF Fifo!Accept, Queues
  <2>7. QED
    BY <1>a, <2>6 DEF Fifo!Next
<1>2. CASE ~(f[q] < N)
  <2>1. UNCHANGED <<buf, c, f>>
    BY <1>2, <1>b DEF SendDataInsert, queueVars
  <2>2. QED
    BY <1>a, <2>1 DEF Fifo!vars, Contents
<1>3. QED
  BY <1>1, <1>2

(* Where packet_send takes a packet, the abstract queue hands it out. *)
LEMMA RefinesTake ==
  ASSUME Accounting, NEW q \in Queue, NEW n, Take(q, n), f[q] >= 1, UNCHANGED <<buf, c>>
  PROVE  [Fifo!Next]_Fifo!vars
<1>1. RingsTypeOK /\ f' = [f EXCEPT ![q] = f[q] - 1] /\ d' = Oldest(q)
  BY DEF Accounting, TypeOK, Take
<1>2. /\ Contents(q) # <<>> /\ Oldest(q) = Head(Contents(q))
      /\ Contents(q)' = Tail(Contents(q))
      /\ \A r \in Queue \ {q} : Contents(r)' = Contents(r)
  BY <1>1, TakeRemoves
<1>3. Queues' = [Queues EXCEPT ![q] = Tail(Queues[q])] /\ Queues[q] = Contents(q)
  BY <1>2 DEF Queues
<1>4. Fifo!HandOut(q)
  BY <1>1, <1>2, <1>3 DEF Fifo!HandOut, Queues
<1>5. QED
  BY <1>4 DEF Fifo!Next

(* Every step of the sender and of its callers is a step of the abstract   *)
(* queues or leaves them alone.                                            *)
LEMMA RefinesStep == ASSUME Accounting, [Next]_vars PROVE [Fifo!Next]_Fifo!vars
<1>a. TakeFindsPacket /\ \A q \in Queue : f[q] \in Nat
  BY Numbers DEF Accounting
<1>u. ASSUME UNCHANGED <<buf, c, f, d>> PROVE [Fifo!Next]_Fifo!vars
  BY <1>u DEF Fifo!vars, Contents
<1>1. CASE SenderTop \/ SenderWait \/ SenderXmit \/ SenderPost
  BY <1>u, <1>1 DEF SenderTop, SenderWait, SenderXmit, SenderPost, queueVars
<1>2. CASE SenderCookie
  <2>1. CASE ckFull > 0
    <3>1. d' \in CookiePacket /\ UNCHANGED <<buf, c, f>>
      BY <1>2, <2>1 DEF SenderCookie, queueVars
    <3>2. Fifo!HandOutCookie
      BY <3>1 DEF Fifo!HandOutCookie, Contents
    <3>3. QED
      BY <3>2 DEF Fifo!Next
  <2>2. CASE ~(ckFull > 0)
    BY <1>u, <1>2, <2>2 DEF SenderCookie, queueVars
  <2>3. QED
    BY <2>1, <2>2
<1>3. CASE SenderPrio
  <2>1. CASE f["prio"] # 0
    <3>1. "prio" \in Queue /\ f["prio"] >= 1
      BY <1>a, <2>1 DEF Queue
    <3>2. QED
      BY <1>3, <2>1, <3>1, RefinesTake DEF SenderPrio
  <2>2. CASE f["prio"] = 0
    BY <1>u, <1>3, <2>2 DEF SenderPrio
  <2>3. QED
    BY <2>1, <2>2
<1>4. CASE SenderRetr
  <2>1. CASE f["retr"] # 0
    <3>1. "retr" \in Queue /\ f["retr"] >= 1
      BY <1>a, <2>1 DEF Queue
    <3>2. QED
      BY <1>4, <2>1, <3>1, RefinesTake DEF SenderRetr
  <2>2. CASE f["retr"] = 0
    BY <1>u, <1>4, <2>2 DEF SenderRetr
  <2>3. QED
    BY <2>1, <2>2
<1>5. CASE SenderData
  <2>1. "send" \in Queue /\ f["send"] >= 1
    BY <1>a, <1>5 DEF SenderData, TakeFindsPacket, Queue
  <2>2. QED
    BY <1>5, <2>1, RefinesTake DEF SenderData
<1>6. CASE SendCookie
  BY <1>u, <1>6 DEF SendCookie, queueVars, senderVars
<1>7. ASSUME NEW t \in Threads, SendData(t) PROVE [Fifo!Next]_Fifo!vars
  <2>1. CASE SendDataCall(t) \/ SendDataPost(t)
    BY <1>u, <2>1 DEF SendDataCall, SendDataPost, queueVars, senderVars
  <2>2. QED
    BY <1>7, <2>1, RefinesInsert DEF SendData
<1>8. CASE UNCHANGED vars
  BY <1>u, <1>8 DEF vars, queueVars, senderVars
<1>9. QED
  BY <1>1, <1>2, <1>3, <1>4, <1>5, <1>6, <1>7, <1>8 DEF Next, Sender

(* The rings, counters and semaphores implement one bounded first-in       *)
(* first-out queue per traffic class.                                      *)
THEOREM FifoImplemented == Spec => ImplementsFifo
<1>1. Init => Fifo!Init
  BY RefinesInit
<1>2. Accounting /\ [Next]_vars => [Fifo!Next]_Fifo!vars
  BY RefinesStep
<1>3. QED
  BY <1>1, <1>2, AccountingHolds, PTL DEF Spec, ImplementsFifo, Fifo!Spec
-----------------------------------------------------------------------------
(* Pairs and acks.                                                         *)

(* lasthost survives only from a block packet that reached the socket to   *)
(* the next look at send_buf, and z from that look to the packet it saw:   *)
(* nothing is taken from send_buf in between.                              *)
Pairing ==
  /\ z => spc \in {"wait", "data", "xmit", "post"}
  /\ spc \in {"cookie", "prio", "retr"} \/ (~z /\ spc \in {"data", "xmit"}) => lasthost = NoHost
  /\ \/ z /\ spc \in {"wait", "data", "xmit"}
     \/ lasthost # NoHost /\ (spc = "top" \/ (spc = "post" /\ ~z))
     => /\ wire.ok /\ ~wire.cons
        /\ wire.pkt.kind = "block" /\ wire.pkt.to = lasthost
  /\ z /\ spc \in {"wait", "data"} => Oldest("send").to = lasthost
  /\ z /\ spc = "xmit" => d.to = lasthost

(* When an ack may have been overtaken it is still in prio_buf; once more  *)
(* is allowed to the second packet of a pair, and after that packet_send   *)
(* looks at prio_buf before anything else.                                 *)
Overtaking ==
  /\ bypass <= 2
  /\ bypass > 0 => f["prio"] > 0
  /\ spc = "retr" \/ (spc = "data" /\ ~z) => bypass = 0
  /\ z /\ spc \in {"wait", "data"} => bypass <= 1
  /\ spc = "top" /\ lasthost # NoHost => bypass <= 1
  /\ spc = "xmit" /\ ~z => bypass <= 1 \/ d.kind # "block"
  /\ spc = "post" /\ ~z => bypass <= 1 \/ lasthost = NoHost

PairInv == Accounting /\ Pairing /\ Overtaking

(* send_data changes neither the head of send_buf while the sender has     *)
(* announced it, nor anything else the sender relies on.                   *)
LEMMA PairSendData ==
  ASSUME PairInv, NEW t \in Threads, SendData(t)
  PROVE  Pairing' /\ Overtaking'
<1>a. RingsTypeOK /\ ThreadsTypeOK /\ SemaphoresTypeOK /\ SenderTypeOK /\ Pairing /\ Overtaking
      /\ TakeFindsPacket
  BY DEF PairInv, Accounting, TypeOK
<1>b. UNCHANGED <<spc, z, d, lasthost, wire, bypass>>
  BY DEF SendData, SendDataCall, SendDataInsert, SendDataPost, senderVars, histVars
<1>c. \A q \in Queue : f[q] \in Nat
  BY Numbers DEF PairInv, Accounting
<1>1. /\ f'["prio"] \in Nat /\ f'["prio"] >= f["prio"]
      /\ f["send"] >= 1 => Oldest("send")' = Oldest("send")
  <2>1. CASE UNCHANGED <<buf, c, f>>
    BY <1>c, <2>1 DEF Oldest, Queue
  <2>2. CASE ~UNCHANGED <<buf, c, f>>
    <3>1. SendDataInsert(t)
      BY <2>2 DEF SendData, SendDataCall, SendDataPost, queueVars
    <3>2. PICK q \in Queue, p \in Packet : q = QueueOf(arg[t]) /\ p = arg[t]
      BY <1>a DEF ThreadsTypeOK, QueueOf, Queue
    <3>3. /\ f[q] < N
          /\ buf' = [buf EXCEPT ![q][c[q]] = p]
          /\ c' = [c EXCEPT ![q] = (c[q] + 1) % N]
          /\ f' = [f EXCEPT ![q] = f[q] + 1]
      BY <2>2, <3>1, <3>2 DEF SendDataInsert, queueVars
    <3>4. /\ \A r \in Queue \ {q} : Oldest(r)' = Oldest(r)
          /\ f[q] >= 1 => Oldest(q)' = Oldest(q)
      BY <1>a, <3>3, InsertAppends
    <3>5. f["send"] >= 1 => Oldest("send")' = Oldest("send")
      BY <3>4 DEF Queue
    <3>6. f'["prio"] \in Nat /\ f'["prio"] >= f["prio"]
      BY <1>a, <1>c, <3>3 DEF RingsTypeOK, Queue
    <3>7. QED
      BY <3>5, <3>6
  <2>3. QED
    BY <2>1, <2>2
<1>2. Overtaking'
  BY <1>a, <1>b, <1>c, <1>1 DEF Overtaking, Queue, SemaphoresTypeOK
<1>3. Pairing'
  BY <1>a, <1>b, <1>1 DEF Pairing, TakeFindsPacket
<1>4. QED
  BY <1>2, <1>3

(* Taking a packet when prio_buf was seen empty, or for the second half of *)
(* a pair, or from prio_buf itself.                                        *)
LEMMA PairTake ==
  ASSUME PairInv, NEW q \in Queue, NEW n, Take(q, n), f[q] >= 1,
         \/ q = "prio" /\ spc = "prio"
         \/ q = "retr" /\ spc = "retr"
         \/ q = "send" /\ spc = "data",
         UNCHANGED <<buf, c, z, lasthost, wire>>
  PROVE  Pairing' /\ Overtaking'
<1>a. RingsTypeOK /\ SemaphoresTypeOK /\ SenderTypeOK /\ Pairing /\ Overtaking
  BY DEF PairInv, Accounting, TypeOK
<1>b. \A r \in Queue : f[r] \in Nat
  BY Numbers DEF PairInv, Accounting
<1>1. /\ d' = Oldest(q) /\ spc' = "xmit" /\ f' = [f EXCEPT ![q] = f[q] - 1]
      /\ bypass' = IF q = "prio" \/ f["prio"] <= 0 THEN 0 ELSE bypass + 1
  BY DEF Take
<1>2. Pairing'
  BY <1>a, <1>1 DEF Pairing, SenderTypeOK
<1>3. bypass' > 0 => q # "prio" /\ f'["prio"] = f["prio"] /\ f["prio"] > 0
  BY <1>a, <1>b, <1>1 DEF RingsTypeOK, Queue
<1>4. bypass' <= 2 /\ (~z => bypass' <= 1)
  BY <1>a, <1>1 DEF Overtaking, SemaphoresTypeOK, SenderTypeOK
<1>5. QED
  BY <1>1, <1>2, <1>3, <1>4 DEF Overtaking

(* Every step of the sender keeps the pairs and the acks. *)
LEMMA PairSender == ASSUME PairInv, Sender PROVE Pairing' /\ Overtaking'
<1>a. RingsTypeOK /\ SemaphoresTypeOK /\ SenderTypeOK /\ Pairing /\ Overtaking /\ TakeFindsPacket
  BY DEF PairInv, Accounting, TypeOK
<1>b. \A q \in Queue : f[q] \in Nat
  BY Numbers DEF PairInv, Accounting
<1>1. CASE SenderTop
  <2>1. /\ spc = "top" /\ spc' = "wait" /\ UNCHANGED <<buf, c, f, d, wire, bypass>>
        /\ (z' <=> lasthost # NoHost /\ f["send"] > 0 /\ Oldest("send").to = lasthost)
        /\ (z' => lasthost' = lasthost)
    BY <1>1 DEF SenderTop, queueVars, histVars
  <2>2. Oldest("send")' = Oldest("send")
    BY <2>1 DEF Oldest
  <2>3. Pairing'
    BY <1>a, <2>1, <2>2 DEF Pairing
  <2>4. Overtaking'
    BY <1>a, <2>1 DEF Overtaking
  <2>5. QED
    BY <2>3, <2>4
<1>2. CASE SenderWait
  <2>1. /\ spc = "wait" /\ spc' = (IF z THEN "data" ELSE "cookie")
        /\ lasthost' = (IF z THEN lasthost ELSE NoHost)
        /\ UNCHANGED <<buf, c, f, z, d, wire, bypass>>
    BY <1>2 DEF SenderWait, queueVars, histVars
  <2>2. Oldest("send")' = Oldest("send")
    BY <2>1 DEF Oldest
  <2>3. Pairing'
    BY <1>a, <2>1, <2>2 DEF Pairing
  <2>4. Overtaking'
    BY <1>a, <2>1 DEF Overtaking
  <2>5. QED
    BY <2>3, <2>4
<1>3. CASE SenderCookie
  <2>1. /\ spc = "cookie" /\ UNCHANGED <<f, z, lasthost, wire, bypass>>
        /\ \/ spc' = "xmit" /\ d' \in CookiePacket
           \/ spc' = "prio"
    BY <1>3 DEF SenderCookie, queueVars
  <2>2. ~z /\ lasthost = NoHost
    BY <1>a, <2>1 DEF Pairing
  <2>3. Pairing'
    BY <2>1, <2>2 DEF Pairing
  <2>4. Overtaking'
    BY <1>a, <2>1, <2>2 DEF Overtaking, CookiePacket
  <2>5. QED
    BY <2>3, <2>4
<1>4. CASE SenderPrio
  <2>1. CASE f["prio"] # 0
    <3>1. "prio" \in Queue /\ f["prio"] >= 1
      BY <1>b, <2>1 DEF Queue
    <3>2. QED
      BY <1>4, <2>1, <3>1, PairTake DEF SenderPrio
  <2>2. CASE f["prio"] = 0
    <3>1. spc = "prio" /\ spc' = "retr" /\ UNCHANGED <<f, z, lasthost, wire, bypass>>
      BY <1>4, <2>2 DEF SenderPrio
    <3>2. ~z /\ lasthost = NoHost /\ bypass = 0
      BY <1>a, <2>2, <3>1 DEF Pairing, Overtaking, SemaphoresTypeOK
    <3>3. QED
      BY <3>1, <3>2 DEF Pairing, Overtaking
  <2>3. QED
    BY <2>1, <2>2
<1>5. CASE SenderRetr
  <2>1. CASE f["retr"] # 0
    <3>1. "retr" \in Queue /\ f["retr"] >= 1
      BY <1>b, <2>1 DEF Queue
    <3>2. QED
      BY <1>5, <2>1, <3>1, PairTake DEF SenderRetr
  <2>2. CASE f["retr"] = 0
    <3>1. spc = "retr" /\ spc' = "data" /\ UNCHANGED <<f, z, lasthost, wire, bypass>>
      BY <1>5, <2>2 DEF SenderRetr
    <3>2. ~z /\ lasthost = NoHost /\ bypass = 0
      BY <1>a, <3>1 DEF Pairing, Overtaking
    <3>3. QED
      BY <3>1, <3>2 DEF Pairing, Overtaking
  <2>3. QED
    BY <2>1, <2>2
<1>6. CASE SenderData
  <2>1. "send" \in Queue /\ f["send"] >= 1
    BY <1>a, <1>6 DEF SenderData, TakeFindsPacket, Queue
  <2>2. QED
    BY <1>6, <2>1, PairTake DEF SenderData
<1>7. CASE SenderXmit
  <2>1. spc = "xmit" /\ spc' = "post" /\ UNCHANGED <<f, z, d, bypass>>
    BY <1>7 DEF SenderXmit, queueVars, histVars
  <2>2. PICK ok \in BOOLEAN :
          /\ wire' = [pkt |-> d, cons |-> z, ok |-> ok]
          /\ lasthost' = CASE ok /\ src = 0 /\ z                      -> NoHost
                           [] ok /\ src = 0 /\ ~z /\ d.kind = "block" -> d.to
                           [] OTHER                                   -> lasthost
    BY <1>7 DEF SenderXmit
  <2>3. CASE z
    BY <2>1, <2>3, <1>a DEF Pairing, Overtaking
  <2>4. CASE ~z
    <3>1. lasthost = NoHost
      BY <1>a, <2>1, <2>4 DEF Pairing
    <3>2. lasthost' # NoHost => ok /\ d.kind = "block" /\ lasthost' = d.to
      BY <2>2, <2>4, <3>1
    <3>3. wire'.pkt = d /\ (wire'.cons <=> z) /\ (wire'.ok <=> ok)
      BY <2>2
    <3>4. Pairing'
      BY <2>1, <2>4, <3>2, <3>3 DEF Pairing
    <3>5. Overtaking'
      BY <1>a, <2>1, <2>4, <3>2 DEF Overtaking
    <3>6. QED
      BY <3>4, <3>5
  <2>5. QED
    BY <2>3, <2>4
<1>8. CASE SenderPost
  <2>1. /\ spc = "post" /\ spc' = (IF z THEN "wait" ELSE "top") /\ ~z'
        /\ UNCHANGED <<f, lasthost, wire, bypass>>
    BY <1>8 DEF SenderPost, queueVars, histVars
  <2>2. Pairing'
    BY <1>a, <2>1 DEF Pairing
  <2>3. Overtaking'
    BY <1>a, <2>1 DEF Overtaking
  <2>4. QED
    BY <2>2, <2>3
<1>9. QED
  BY <1>1, <1>2, <1>3, <1>4, <1>5, <1>6, <1>7, <1>8 DEF Sender

(* Pairs and acks are kept in every reachable state. *)
THEOREM PairsHold == Spec => []PairInv
<1>1. Init => PairInv
  <2>1. SUFFICES ASSUME Init PROVE Pairing /\ Overtaking
    BY AccountingInit DEF PairInv
  <2>2. ~z /\ spc = "top" /\ lasthost = NoHost /\ bypass = 0
    BY <2>1 DEF Init
  <2>3. QED
    BY <2>2 DEF Pairing, Overtaking
<1>2. PairInv /\ [Next]_vars => PairInv'
  <2>1. SUFFICES ASSUME PairInv, [Next]_vars PROVE Pairing' /\ Overtaking'
    BY AccountingStep DEF PairInv
  <2>2. CASE SendCookie \/ UNCHANGED vars
    <3>1. UNCHANGED <<buf, c, f, spc, z, d, lasthost, wire, bypass>>
      BY <2>2 DEF SendCookie, vars, queueVars, senderVars, histVars
    <3>2. QED
      BY <2>1, <3>1 DEF PairInv, Pairing, Overtaking, Oldest
  <2>3. QED
    BY <2>1, <2>2, PairSendData, PairSender DEF Next
<1>3. QED
  BY <1>1, <1>2, PTL DEF Spec

(* An ack in prio_buf leaves after at most two packets of other queues. *)
THEOREM AckOvertakenTwiceCorrect == Spec => []AckOvertakenTwice
<1>1. PairInv => AckOvertakenTwice
  BY DEF PairInv, Overtaking, AckOvertakenTwice
<1>2. QED
  BY <1>1, PairsHold, PTL

(* BLOCK_CONSECUTIVE goes out only directly after an unflagged block       *)
(* packet for the same host that reached the socket, whatever send_data    *)
(* queues in between and whichever sendto fails.                           *)
THEOREM ConsecutiveCorrect == Spec => ConsecutiveIsAPair
<1>1. ASSUME PairInv, [Next]_vars
      PROVE  [wire'.cons => /\ wire.ok /\ ~wire.cons
                            /\ wire.pkt.kind = "block"
                            /\ wire.pkt.to = wire'.pkt.to]_wire
  <2>1. CASE SenderXmit
    <3>1. spc = "xmit" /\ Pairing
      BY <1>1, <2>1 DEF PairInv, SenderXmit
    <3>2. wire'.pkt = d /\ (wire'.cons <=> z)
      BY <2>1 DEF SenderXmit
    <3>3. QED
      BY <3>1, <3>2 DEF Pairing
  <2>2. CASE ~SenderXmit
    <3>1. wire' = wire
      BY <1>1, <2>2 DEF Next, Sender, SenderTop, SenderWait, SenderCookie, SenderPrio, SenderRetr,
                        SenderData, SenderPost, SendCookie, SendData, SendDataCall,
                        SendDataInsert, SendDataPost, vars
    <3>2. QED
      BY <3>1
  <2>3. QED
    BY <2>1, <2>2
<1>2. QED
  BY <1>1, PairsHold, PTL DEF Spec, ConsecutiveIsAPair
-----------------------------------------------------------------------------
(* The rings while die() stops the sender.                                 *)

(* The unit of sFull that stands for no packet. *)
Extra == IF dpc \in {"posted", "joined"} THEN 1 ELSE 0

ShutType ==
  /\ f \in [Queue -> Int]
  /\ f["prio"] \in 0..N /\ f["retr"] \in 0..N /\ f["send"] \in -1..N
  /\ sFull \in Nat /\ ckFull = 0
  /\ tpc \in [Threads -> {"idle", "insert", "post"}]
  /\ spc \in SenderPC \cup {"exit"}
  /\ z \in BOOLEAN /\ kill \in BOOLEAN
  /\ dpc \in {"run", "killed", "posted", "joined"}
  /\ kill <=> dpc # "run"

(* The units match the packets but for the extra one. *)
ShutTokens == Queued + Extra = sFull + Held + In("post")

(* Before the extra unit there is a packet wherever one is taken without a *)
(* test.  After it the send queue may be found empty, but not by the       *)
(* second packet of a pair, and when it was the sender is on its way to    *)
(* the flag.                                                               *)
ShutTakes ==
  /\ Extra = 0 => TakeFindsPacket
  /\ (z /\ spc \in {"wait", "data"}) => f["send"] >= 1
  /\ spc \in {"cookie", "prio", "retr"} => ~z
  /\ f["send"] = -1 => spc \in {"xmit", "post", "top", "exit"} /\ ~z /\ Extra = 1

ShutInv == ShutType /\ ShutTokens /\ ShutTakes

(* The numbers that ShutTokens speaks of. *)
LEMMA ShutNumbers ==
  ASSUME ShutType
  PROVE  /\ f["prio"] \in Int /\ f["retr"] \in Int /\ f["send"] \in Int /\ sFull \in Nat
         /\ In("post") \in Nat /\ Held \in {0, 1} /\ Extra \in {0, 1} /\ N \in Nat \ {0}
  BY InType, ConstantsOK DEF ShutType, Held, Extra

(* The rings, the semaphores and the sender stay. *)
LEMMA ShutFrame ==
  ASSUME ShutInv, UNCHANGED <<f, sFull, ckFull, tpc, spc, z, kill, dpc>>
  PROVE  ShutInv'
<1>1. In("post")' = In("post")
  BY DEF In
<1>2. QED
  BY <1>1 DEF ShutInv, ShutType, ShutTokens, ShutTakes, TakeFindsPacket, Queued, Held, Extra

(* send_data while die() runs. *)
LEMMA ShutSendData ==
  ASSUME ShutInv, NEW t \in Threads, SendData(t), UNCHANGED dpc
  PROVE  ShutInv'
<1>1. ShutType /\ ShutTokens /\ ShutTakes
  BY DEF ShutInv
<1>2. UNCHANGED <<ckFull, spc, z, kill, dpc>> /\ Held' = Held /\ Extra' = Extra
  BY DEF SendData, SendDataCall, SendDataInsert, SendDataPost, senderVars, Held, Extra
<1>3. /\ f["prio"] \in Int /\ f["retr"] \in Int /\ f["send"] \in Int /\ sFull \in Nat
      /\ In("post") \in Nat /\ Held \in {0, 1} /\ Extra \in {0, 1} /\ N \in Nat \ {0}
  BY <1>1, ShutNumbers
<1>4. tpc \in [Threads -> {"idle", "insert", "post"}]
  BY <1>1 DEF ShutType
<1>5. CASE SendDataCall(t)
  <2>1. UNCHANGED <<f, sFull>>
    BY <1>5 DEF SendDataCall, queueVars
  <2>2. CASE tpc' = tpc
    BY <1>2, <2>1, <2>2, ShutFrame
  <2>3. CASE tpc' = [tpc EXCEPT ![t] = "insert"] /\ tpc[t] = "idle"
    <3>1. In("post")' = In("post")
      BY <1>4, <2>3, InMove
    <3>2. tpc' \in [Threads -> {"idle", "insert", "post"}]
      BY <1>4, <2>3
    <3>3. QED
      BY <1>1, <1>2, <2>1, <3>1, <3>2
      DEF ShutInv, ShutType, ShutTokens, ShutTakes, TakeFindsPacket, Queued
  <2>4. QED
    BY <1>5, <2>2, <2>3 DEF SendDataCall
<1>6. CASE SendDataInsert(t)
  <2> DEFINE q == QueueOf(arg[t])
  <2>1. tpc[t] = "insert" /\ sFull' = sFull /\ q \in Queue
    BY <1>6 DEF SendDataInsert, QueueOf, Queue
  <2>2. CASE ~(f[q] < N)
    <3>1. tpc' = [tpc EXCEPT ![t] = "idle"] /\ f' = f
      BY <1>6, <2>2 DEF SendDataInsert, queueVars
    <3>2. In("post")' = In("post")
      BY <1>4, <2>1, <3>1, InMove
    <3>3. tpc' \in [Threads -> {"idle", "insert", "post"}]
      BY <1>4, <3>1
    <3>4. QED
      BY <1>1, <1>2, <2>1, <3>1, <3>2, <3>3
      DEF ShutInv, ShutType, ShutTokens, ShutTakes, TakeFindsPacket, Queued
  <2>3. CASE f[q] < N
    <3>1. tpc' = [tpc EXCEPT ![t] = "post"] /\ f' = [f EXCEPT ![q] = @ + 1]
      BY <1>6, <2>3 DEF SendDataInsert
    <3>2. In("post")' = In("post") + 1
      BY <1>4, <2>1, <3>1, InMove
    <3>3. tpc' \in [Threads -> {"idle", "insert", "post"}]
      BY <1>4, <3>1
    <3> HIDE DEF q
    <3>4. f \in [Queue -> Int] /\ f[q] \in Int
      BY <1>1, <2>1 DEF ShutType
    <3>5. /\ f' \in [Queue -> Int] /\ f'[q] = f[q] + 1 /\ \A r \in Queue : r # q => f'[r] = f[r]
      BY <2>1, <3>1, <3>4
    <3>6. \A r \in Queue : f'[r] \in Int /\ f'[r] >= f[r] /\ f[r] \in Int
      BY <3>4, <3>5
    <3>7. f'["prio"] \in 0..N /\ f'["retr"] \in 0..N /\ f'["send"] \in -1..N
      BY <1>1, <1>3, <2>1, <2>3, <3>5 DEF ShutType, Queue
    <3>8. Queued' = Queued + 1
      BY <1>3, <2>1, <3>5 DEF Queued, Queue
    <3>9. Queued \in Int
      BY <1>3 DEF Queued
    <3>10. ShutTokens'
      BY <1>1, <1>2, <1>3, <2>1, <3>2, <3>8, <3>9 DEF ShutTokens
    <3>11. ShutTakes'
      <4>1. /\ f'["prio"] >= f["prio"] /\ f'["retr"] >= f["retr"] /\ f'["send"] >= f["send"]
            /\ f'["prio"] \in Int /\ f'["retr"] \in Int /\ f'["send"] \in Int
        BY <3>6 DEF Queue
      <4>2. TakeFindsPacket => TakeFindsPacket'
        BY <1>2, <1>3, <4>1 DEF TakeFindsPacket, Queued
      <4>3. f'["send"] = -1 => f["send"] = -1
        BY <1>1, <1>3, <3>7, <4>1 DEF ShutType
      <4>4. QED
        BY <1>1, <1>2, <1>3, <4>1, <4>2, <4>3 DEF ShutTakes
    <3>12. ShutType'
      BY <1>1, <1>2, <2>1, <3>3, <3>5, <3>7 DEF ShutType
    <3>13. QED
      BY <3>10, <3>11, <3>12 DEF ShutInv
  <2>4. QED
    BY <2>2, <2>3
<1>7. CASE SendDataPost(t)
  <2>1. /\ tpc[t] = "post" /\ sFull' = sFull + 1 /\ tpc' = [tpc EXCEPT ![t] = "idle"]
        /\ f' = f
    BY <1>7 DEF SendDataPost, queueVars
  <2>2. In("post")' = In("post") - 1
    BY <1>4, <2>1, InMove
  <2>3. tpc' \in [Threads -> {"idle", "insert", "post"}] /\ sFull' \in Nat
    BY <1>3, <1>4, <2>1
  <2>4. ShutTokens'
    BY <1>1, <1>2, <1>3, <2>1, <2>2 DEF ShutTokens, Queued
  <2>5. QED
    BY <1>1, <1>2, <2>1, <2>3, <2>4
    DEF ShutInv, ShutType, ShutTakes, TakeFindsPacket, Queued
<1>8. QED
  BY <1>5, <1>6, <1>7 DEF SendData
(* The sender takes a packet of ring q, or finds the send queue empty. *)
LEMMA ShutTake ==
  ASSUME ShutInv, UNCHANGED <<sFull, ckFull, tpc, z, kill, dpc>>,
         NEW q \in Queue, NEW i, Take(q, i), spc \in {"prio", "retr", "data"},
         f[q] >= 1 \/ (q = "send" /\ f[q] = 0 /\ ~z /\ Extra = 1)
  PROVE  ShutInv'
<1>1. ShutType /\ ShutTokens /\ ShutTakes
  BY DEF ShutInv
<1>2. /\ f["prio"] \in Int /\ f["retr"] \in Int /\ f["send"] \in Int /\ sFull \in Nat
      /\ In("post") \in Nat /\ Held \in {0, 1} /\ Extra \in {0, 1} /\ N \in Nat \ {0}
  BY <1>1, ShutNumbers
<1>3. f' = [f EXCEPT ![q] = @ - 1] /\ spc' = "xmit"
  BY DEF Take
<1>4. Held = 1 /\ Held' = 0 /\ Extra' = Extra /\ In("post")' = In("post")
  BY <1>3 DEF Held, Extra, In
<1>5. f \in [Queue -> Int] /\ f[q] \in Int
  BY <1>1 DEF ShutType
<1>6. f' \in [Queue -> Int] /\ f'[q] = f[q] - 1 /\ \A r \in Queue : r # q => f'[r] = f[r]
  BY <1>3, <1>5
<1>7. f'["prio"] \in 0..N /\ f'["retr"] \in 0..N /\ f'["send"] \in -1..N
  BY <1>1, <1>2, <1>5, <1>6 DEF ShutType, Queue
<1>8. Queued' = Queued - 1 /\ Queued \in Int
  BY <1>2, <1>6 DEF Queued, Queue
<1>9. ShutTokens'
  BY <1>1, <1>2, <1>4, <1>8 DEF ShutTokens
<1>10. ShutTakes'
  <2>1. TakeFindsPacket'
    BY <1>3 DEF TakeFindsPacket
  <2>2. ASSUME f'["send"] = -1 PROVE ~z /\ Extra = 1
    <3>1. f["send"] # -1
      BY <1>1, <1>2, <1>4, <1>3 DEF ShutTakes
    <3>2. q = "send" /\ f[q] = 0
      BY <1>2, <1>5, <1>6, <2>2, <3>1 DEF Queue
    <3>3. QED
      BY <3>2
  <2>3. QED
    BY <1>3, <1>4, <2>1, <2>2 DEF ShutTakes
<1>11. ShutType'
  BY <1>1, <1>3, <1>6, <1>7 DEF ShutType, SenderPC
<1>12. QED
  BY <1>9, <1>10, <1>11 DEF ShutInv

(* The sender while die() runs. *)
LEMMA ShutSender ==
  ASSUME ShutInv, Sender, UNCHANGED dpc
  PROVE  ShutInv'
<1>1. ShutType /\ ShutTokens /\ ShutTakes
  BY DEF ShutInv
<1>2. /\ f["prio"] \in Int /\ f["retr"] \in Int /\ f["send"] \in Int /\ sFull \in Nat
      /\ In("post") \in Nat /\ Held \in {0, 1} /\ Extra \in {0, 1} /\ N \in Nat \ {0}
  BY <1>1, ShutNumbers
<1>3. /\ f["prio"] \in 0..N /\ f["retr"] \in 0..N /\ f["send"] \in -1..N /\ ckFull = 0
      /\ z \in BOOLEAN
  BY <1>1 DEF ShutType
<1>4. UNCHANGED <<tpc, kill, dpc>> /\ In("post")' = In("post") /\ Extra' = Extra
  BY DEF Sender, SenderTop, SenderWait, SenderCookie, SenderPrio, SenderRetr, SenderData,
         SenderXmit, SenderPost, threadVars, In, Extra
<1>5. CASE SenderTop
  <2>1. /\ spc = "top" /\ ~kill /\ spc' = "wait" /\ UNCHANGED <<f, sFull, ckFull>>
        /\ z' = (lasthost # NoHost /\ f["send"] > 0 /\ Oldest("send").to = lasthost)
    BY <1>5 DEF SenderTop, queueVars
  <2>2. Held' = Held /\ z' \in BOOLEAN /\ (z' => f["send"] > 0)
    BY <2>1 DEF Held
  <2>3. Extra = 0
    BY <1>1, <2>1 DEF ShutType, Extra
  <2>4. f["send"] # -1
    BY <1>1, <2>3 DEF ShutTakes
  <2>5. ShutTakes'
    BY <1>2, <1>4, <2>1, <2>2, <2>3, <2>4 DEF ShutTakes, TakeFindsPacket
  <2>6. QED
    BY <1>1, <1>4, <2>1, <2>2, <2>5 DEF ShutInv, ShutType, ShutTokens, Queued, SenderPC
<1>6. CASE SenderWait
  <2>1. /\ spc = "wait" /\ sFull > 0 /\ sFull' = sFull - 1 /\ UNCHANGED <<f, ckFull, z>>
        /\ spc' = IF z THEN "data" ELSE "cookie"
    BY <1>6 DEF SenderWait, queueVars
  <2>2. Held = 0 /\ Held' = 1
    BY <2>1 DEF Held
  <2>3. ShutTokens'
    BY <1>1, <1>2, <1>4, <2>1, <2>2 DEF ShutTokens, Queued
  <2>4. f["send"] # -1 /\ (z => f["send"] >= 1)
    BY <1>1, <2>1 DEF ShutTakes
  <2>5. ShutTakes'
    BY <1>2, <1>4, <2>1, <2>4 DEF ShutTakes, TakeFindsPacket
  <2>6. QED
    BY <1>1, <1>2, <1>4, <2>1, <2>3, <2>5 DEF ShutInv, ShutType, SenderPC
<1>7. CASE SenderCookie
  <2>1. spc = "cookie" /\ spc' = "prio" /\ UNCHANGED <<f, sFull, ckFull, z>>
    BY <1>3, <1>7 DEF SenderCookie, queueVars
  <2>2. Held = 1 /\ Held' = 1
    BY <2>1 DEF Held
  <2>3. Extra = 0 => Queued >= 1
    BY <1>1, <1>2, <2>2 DEF ShutTokens, Queued
  <2>4. f["send"] # -1
    BY <1>1, <2>1 DEF ShutTakes
  <2>5. ShutTakes'
    BY <1>1, <1>4, <2>1, <2>3, <2>4 DEF ShutTakes, TakeFindsPacket, Queued
  <2>6. QED
    BY <1>1, <1>4, <2>1, <2>2, <2>5 DEF ShutInv, ShutType, ShutTokens, Queued, SenderPC
<1>8. CASE SenderPrio
  <2>1. spc = "prio" /\ UNCHANGED <<sFull, ckFull, z>>
    BY <1>8 DEF SenderPrio
  <2>2. CASE f["prio"] # 0
    <3>1. Take("prio", 1) /\ f["prio"] >= 1 /\ "prio" \in Queue
      BY <1>2, <1>3, <1>8, <2>2 DEF SenderPrio, Queue
    <3>2. QED
      BY <1>4, <2>1, <3>1, ShutTake
  <2>3. CASE f["prio"] = 0
    <3>1. spc' = "retr" /\ f' = f
      BY <1>8, <2>3 DEF SenderPrio
    <3>2. Held = 1 /\ Held' = 1
      BY <2>1, <3>1 DEF Held
    <3>3. Extra = 0 => f["retr"] + f["send"] >= 1
      BY <1>1, <1>2, <2>1, <2>3 DEF ShutTakes, TakeFindsPacket, Queued
    <3>4. f["send"] # -1
      BY <1>1, <2>1 DEF ShutTakes
    <3>5. ShutTakes'
      BY <1>1, <1>4, <2>1, <3>1, <3>3, <3>4 DEF ShutTakes, TakeFindsPacket
    <3>6. QED
      BY <1>1, <1>4, <2>1, <3>1, <3>2, <3>5 DEF ShutInv, ShutType, ShutTokens, Queued, SenderPC
  <2>4. QED
    BY <2>2, <2>3
<1>9. CASE SenderRetr
  <2>1. spc = "retr" /\ UNCHANGED <<sFull, ckFull, z>>
    BY <1>9 DEF SenderRetr
  <2>2. CASE f["retr"] # 0
    <3>1. Take("retr", 2) /\ f["retr"] >= 1 /\ "retr" \in Queue
      BY <1>2, <1>3, <1>9, <2>2 DEF SenderRetr, Queue
    <3>2. QED
      BY <1>4, <2>1, <3>1, ShutTake
  <2>3. CASE f["retr"] = 0
    <3>1. spc' = "data" /\ f' = f
      BY <1>9, <2>3 DEF SenderRetr
    <3>2. Held = 1 /\ Held' = 1
      BY <2>1, <3>1 DEF Held
    <3>3. Extra = 0 => f["send"] >= 1
      BY <1>1, <1>2, <2>1, <2>3 DEF ShutTakes, TakeFindsPacket
    <3>4. f["send"] # -1
      BY <1>1, <2>1 DEF ShutTakes
    <3>5. ShutTakes'
      BY <1>1, <1>4, <2>1, <3>1, <3>3, <3>4 DEF ShutTakes, TakeFindsPacket
    <3>6. QED
      BY <1>1, <1>4, <2>1, <3>1, <3>2, <3>5 DEF ShutInv, ShutType, ShutTokens, Queued, SenderPC
  <2>4. QED
    BY <2>2, <2>3
<1>10. CASE SenderData
  <2>1. spc = "data" /\ UNCHANGED <<sFull, ckFull, z>> /\ Take("send", 0) /\ "send" \in Queue
    BY <1>10 DEF SenderData, Queue
  <2>2. f["send"] # -1 /\ (z => f["send"] >= 1) /\ (Extra = 0 => f["send"] >= 1)
    BY <1>1, <2>1 DEF ShutTakes, TakeFindsPacket
  <2>3. f["send"] >= 1 \/ ("send" = "send" /\ f["send"] = 0 /\ ~z /\ Extra = 1)
    BY <1>2, <1>3, <2>2
  <2>4. QED
    BY <1>4, <2>1, <2>3, ShutTake
<1>11. CASE SenderXmit
  <2>1. spc = "xmit" /\ spc' = "post" /\ UNCHANGED <<f, sFull, ckFull, z>>
    BY <1>11 DEF SenderXmit, queueVars
  <2>2. Held' = Held
    BY <2>1 DEF Held
  <2>3. ShutTakes'
    BY <1>1, <1>4, <2>1 DEF ShutTakes, TakeFindsPacket
  <2>4. QED
    BY <1>1, <1>4, <2>1, <2>2, <2>3 DEF ShutInv, ShutType, ShutTokens, Queued, SenderPC
<1>12. CASE SenderPost
  <2>1. /\ spc = "post" /\ z' = FALSE /\ UNCHANGED <<f, sFull, ckFull>>
        /\ spc' = IF z THEN "wait" ELSE "top"
    BY <1>12 DEF SenderPost, queueVars
  <2>2. Held' = Held
    BY <2>1 DEF Held
  <2>3. ShutTakes'
    BY <1>1, <1>4, <2>1 DEF ShutTakes, TakeFindsPacket
  <2>4. QED
    BY <1>1, <1>4, <2>1, <2>2, <2>3 DEF ShutInv, ShutType, ShutTokens, Queued, SenderPC
<1>13. QED
  BY <1>5, <1>6, <1>7, <1>8, <1>9, <1>10, <1>11, <1>12 DEF Sender

(* The steps of die() and the exit of the sender. *)
LEMMA ShutDie ==
  ASSUME ShutInv, DieKill \/ SenderEndThreads \/ SenderExit \/ SenderJoined
  PROVE  ShutInv'
<1>1. ShutType /\ ShutTokens /\ ShutTakes
  BY DEF ShutInv
<1>2. /\ f["prio"] \in Int /\ f["retr"] \in Int /\ f["send"] \in Int /\ sFull \in Nat
      /\ In("post") \in Nat /\ Held \in {0, 1} /\ Extra \in {0, 1}
  BY <1>1, ShutNumbers
<1>3. UNCHANGED <<f, ckFull, tpc, z>> /\ In("post")' = In("post") /\ Queued' = Queued
  BY DEF DieKill, SenderEndThreads, SenderExit, SenderJoined, queueVars, threadVars, senderVars,
         vars, In, Queued
<1>4. CASE DieKill
  <2>1. dpc = "run" /\ dpc' = "killed" /\ kill' = TRUE /\ UNCHANGED <<sFull, spc>>
    BY <1>4 DEF DieKill, senderVars
  <2>2. Held' = Held /\ Extra' = 0 /\ Extra = 0
    BY <2>1 DEF Held, Extra
  <2>3. ShutTakes'
    BY <1>1, <1>3, <2>1, <2>2 DEF ShutTakes, TakeFindsPacket
  <2>4. QED
    BY <1>1, <1>3, <2>1, <2>2, <2>3 DEF ShutInv, ShutType, ShutTokens
<1>5. CASE SenderEndThreads
  <2>1. dpc = "killed" /\ dpc' = "posted" /\ sFull' = sFull + 1 /\ UNCHANGED <<kill, spc>>
    BY <1>5 DEF SenderEndThreads, senderVars
  <2>2. Held' = Held /\ Extra' = 1 /\ Extra = 0
    BY <2>1 DEF Held, Extra
  <2>3. ShutTokens'
    BY <1>1, <1>2, <1>3, <2>1, <2>2 DEF ShutTokens, Queued
  <2>4. ShutTakes'
    BY <1>1, <1>3, <2>1, <2>2 DEF ShutTakes
  <2>5. QED
    BY <1>1, <1>2, <1>3, <2>1, <2>3, <2>4 DEF ShutInv, ShutType
<1>6. CASE SenderExit
  <2>1. spc = "top" /\ spc' = "exit" /\ UNCHANGED <<sFull, kill, dpc>>
    BY <1>6 DEF SenderExit
  <2>2. Held' = Held /\ Extra' = Extra
    BY <2>1 DEF Held, Extra
  <2>3. ShutTakes'
    BY <1>1, <1>3, <2>1, <2>2 DEF ShutTakes, TakeFindsPacket
  <2>4. QED
    BY <1>1, <1>3, <2>1, <2>2, <2>3 DEF ShutInv, ShutType, ShutTokens
<1>7. CASE SenderJoined
  <2>1. dpc = "posted" /\ dpc' = "joined" /\ UNCHANGED <<sFull, kill, spc>>
    BY <1>7 DEF SenderJoined, vars, senderVars
  <2>2. Held' = Held /\ Extra' = 1 /\ Extra = 1
    BY <2>1 DEF Held, Extra
  <2>3. ShutTakes'
    BY <1>1, <1>3, <2>1, <2>2 DEF ShutTakes
  <2>4. QED
    BY <1>1, <1>3, <2>1, <2>2, <2>3 DEF ShutInv, ShutType, ShutTokens
<1>8. QED
  BY <1>4, <1>5, <1>6, <1>7

(* The accounting with the extra unit holds in every reachable state.      *)
THEOREM ShutdownHolds == ShutSpec => []ShutInv
<1>1. ShutInit => ShutInv
  <2> SUFFICES ASSUME ShutInit PROVE ShutInv
    OBVIOUS
  <2> USE DEF ShutInit, Init
  <2>1. In("post") = 0
    <3>1. {t \in Threads : tpc[t] = "post"} = {}
      OBVIOUS
    <3>2. QED
      BY <3>1, FS_EmptySet DEF In
  <2>2. f["prio"] = 0 /\ f["retr"] = 0 /\ f["send"] = 0 /\ sFull = 0
    BY DEF Queue
  <2>3. Extra = 0 /\ Held = 0
    BY DEF Extra, Held
  <2>4. ShutType
    <3>1. N \in Nat
      BY ConstantsOK
    <3>2. f["prio"] \in 0..N /\ f["retr"] \in 0..N /\ f["send"] \in -1..N
      BY <2>2, <3>1
    <3>3. f \in [Queue -> Int] /\ tpc \in [Threads -> {"idle", "insert", "post"}]
      OBVIOUS
    <3>4. z \in BOOLEAN /\ kill \in BOOLEAN /\ ~kill
      OBVIOUS
    <3>5. spc \in SenderPC
      BY DEF SenderPC
    <3>6. QED
      BY <2>2, <3>2, <3>3, <3>4, <3>5 DEF ShutType
  <2>5. ShutTokens
    BY <2>1, <2>2, <2>3 DEF ShutTokens, Queued
  <2>6. ShutTakes
    BY <2>2 DEF ShutTakes, TakeFindsPacket
  <2>7. QED
    BY <2>4, <2>5, <2>6 DEF ShutInv
<1>2. ShutInv /\ [ShutNext]_shutVars => ShutInv'
  <2> SUFFICES ASSUME ShutInv, [ShutNext]_shutVars PROVE ShutInv'
    OBVIOUS
  <2>1. CASE UNCHANGED shutVars
    <3>1. UNCHANGED <<f, sFull, ckFull, tpc, spc, z, kill, dpc>>
      BY <2>1 DEF shutVars, vars, queueVars, threadVars, senderVars
    <3>2. QED
      BY <3>1, ShutFrame
  <2>2. QED
    BY <2>1, ShutSendData, ShutSender, ShutDie DEF ShutNext
<1>3. QED
  BY <1>1, <1>2, PTL DEF ShutSpec

(* While die() stops the sender, packet_send finds the send queue empty at *)
(* most once, only after the unit that sender_end_threads posts, and never *)
(* underflows the other rings: for every ring size, any callers and any    *)
(* moment of the call.                                                     *)
THEOREM AtMostOneStaleCorrect == ShutSpec => []AtMostOneStale
<1>1. ShutInv => AtMostOneStale
  BY DEF ShutInv, ShutType, ShutTakes, Extra, AtMostOneStale
<1>2. QED
  BY <1>1, ShutdownHolds, PTL
=============================================================================
