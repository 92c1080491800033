--------------------------- MODULE BwSamplesProofs ---------------------------
(***************************************************************************)
(* Proof that the bandwidth samples are of packets that left back to back, *)
(* for any sources, blocks, numbers of fragments, calls and                *)
(* retransmissions, and whatever the network loses and reorders.           *)
(***************************************************************************)
EXTENDS BwSamples, SequenceTheorems, TLAPS

(* A packet of source s among those it has sent, as the node sees it. *)
Seen(s, m) == m.s = s /\ m.n \in 1..Len(log[s]) /\ m.x = log[s][m.n]

(* s was not told twice to send block b. *)
Once(s, b) == calls[<<s, b>>] <= 1

(* The values of the variables. *)
Types ==
  /\ sendQ \in [Sources -> Seq(Frag)] /\ retrQ \in [Sources -> Seq(Frag)]
  /\ log \in [Sources -> Seq(Frag)]
  /\ lasthost \in [Sources -> BOOLEAN]
  /\ calls \in [Sources \X Blocks -> Nat]

Datagram == [s : Sources, n : Nat, x : Frag, flag : BOOLEAN]

NodeTypes ==
  /\ net \subseteq Datagram /\ have \subseteq Frag
  /\ last \in [Sources -> Seq(Datagram)]
  /\ samples \in [Sources -> SUBSET (Nat \X Nat)]

(* A block that s was never told to send is neither sent nor queued, and   *)
(* what is queued to be sent again was sent.                               *)
Told(s) ==
  /\ \A i \in 1..Len(sendQ[s]) : calls[<<s, sendQ[s][i].b>>] > 0
  /\ \A i \in 1..Len(log[s]) : calls[<<s, log[s][i].b>>] > 0
  /\ \A i \in 1..Len(retrQ[s]) : retrQ[s][i] \in Range(log[s])

(* In the queue the fragments of a block sent once follow each other       *)
(* without another in between, in order.                                   *)
Queued(s) ==
  \A i, j \in 1..Len(sendQ[s]) :
    i < j /\ sendQ[s][i].b = sendQ[s][j].b /\ Once(s, sendQ[s][j].b) =>
      sendQ[s][i].f < sendQ[s][j].f /\ \A k \in i..j : sendQ[s][k].b = sendQ[s][j].b

(* When part of such a block was sent, the rest is first in the queue, and *)
(* what was sent of it is before what is queued.                           *)
Started(s) ==
  \A i \in 1..Len(log[s]), j \in 1..Len(sendQ[s]) :
    log[s][i].b = sendQ[s][j].b /\ Once(s, sendQ[s][j].b) =>
      log[s][i].f < sendQ[s][j].f /\ \A k \in 1..j : sendQ[s][k].b = sendQ[s][j].b

(* If a fragment of y's block is among the first n packets of s, then the  *)
(* n-th is one, comes before y and after all the others among them.        *)
Follows(s, y, n) ==
  Once(s, y.b) =>
    \A i \in 1..n : log[s][i].b = y.b =>
      /\ log[s][n].b = y.b /\ log[s][n].f < y.f
      /\ i < n => log[s][i].f < log[s][n].f

(* The first packet of a pair is the last one s has sent. *)
Paired(s) ==
  lasthost[s] /\ sendQ[s] # <<>> => Follows(s, Head(sendQ[s]), Len(log[s]))

(* The order of a source's packets. *)
Ordered(s) == Told(s) /\ Queued(s) /\ Started(s) /\ Paired(s)

(* What the network and the node have of s. *)
Travelling ==
  \A m \in net : m.s \in Sources /\ Seen(m.s, m) /\ (m.flag => Follows(m.s, m.x, m.n - 1))

Recorded(s) == last[s] # <<>> => Seen(s, last[s][1])

Sampled(s) ==
  \A p \in samples[s] :
    /\ p[1] \in 1..Len(log[s]) /\ p[2] \in 1..Len(log[s])
    /\ log[s][p[1]].b = log[s][p[2]].b /\ log[s][p[1]].f + 1 = log[s][p[2]].f
    /\ p[2] = p[1] + 1 \/ p[1] > p[2] \/ calls[<<s, log[s][p[1]].b>>] > 1

IInv ==
  /\ Types /\ NodeTypes /\ Travelling
  /\ \A s \in Sources : Ordered(s) /\ Recorded(s) /\ Sampled(s)

-----------------------------------------------------------------------------
(* Queues and logs.                                                        *)

(* The rest of a queue. *)
LEMMA TailIs ==
  ASSUME NEW S, NEW q \in Seq(S), q # <<>>
  PROVE  /\ Tail(q) \in Seq(S) /\ Len(q) \in Nat \ {0} /\ Len(Tail(q)) = Len(q) - 1
         /\ Head(q) = q[1] /\ Head(q) \in S
         /\ \A j \in 1..Len(Tail(q)) : Tail(q)[j] = q[j + 1] /\ j + 1 \in 1..Len(q)
BY HeadTailProperties

(* A log with one more entry. *)
LEMMA AppendIs ==
  ASSUME NEW S, NEW q \in Seq(S), NEW x \in S
  PROVE  /\ Append(q, x) \in Seq(S) /\ Len(q) \in Nat /\ Len(Append(q, x)) = Len(q) + 1
         /\ Append(q, x)[Len(q) + 1] = x
         /\ \A j \in 1..Len(q) : Append(q, x)[j] = q[j]
         /\ \A j \in 1..(Len(q) + 1) : j = Len(q) + 1 \/ j \in 1..Len(q)
BY AppendProperties

(* The elements of a sequence. *)
LEMMA RangeIs ==
  ASSUME NEW S, NEW q \in Seq(S)
  PROVE  Range(q) = {q[i] : i \in 1..Len(q)} /\ Range(q) \subseteq S
<1>1. DOMAIN q = 1..Len(q) /\ \A i \in 1..Len(q) : q[i] \in S
  BY ElementOfSeq
<1>2. QED
  BY <1>1 DEF Range

(* The sources only add to their logs, and the application to its calls. *)
Extends ==
  \A s \in Sources :
    /\ Len(log'[s]) >= Len(log[s])
    /\ \A i \in 1..Len(log[s]) : log'[s][i] = log[s][i]
    /\ \A b \in Blocks : calls'[<<s, b>>] >= calls[<<s, b>>]

(* What was sent stays at its place in the log. *)
LEMMA SeenKeeps ==
  ASSUME Types, Types', Extends, NEW s \in Sources, NEW m, Seen(s, m)
  PROVE  Seen(s, m)'
<1>1. Len(log[s]) \in Nat /\ Len(log'[s]) \in Nat
  BY DEF Types
<1>2. QED
  BY <1>1 DEF Seen, Extends

(* What was sent once after a packet stays so. *)
LEMMA FollowsKeeps ==
  ASSUME Types, Types', Extends, NEW s \in Sources, NEW y \in Frag, NEW n \in 0..Len(log[s]),
         Follows(s, y, n)
  PROVE  Follows(s, y, n)'
<1>1. Len(log[s]) \in Nat /\ Len(log'[s]) \in Nat
  BY DEF Types
<1>2. \A i \in 1..n : i \in 1..Len(log[s]) /\ log'[s][i] = log[s][i] /\ n \in 1..Len(log[s])
  BY <1>1 DEF Extends
<1>3. y.b \in Blocks
  BY DEF Frag
<1>4. calls'[<<s, y.b>>] >= calls[<<s, y.b>>] /\ calls'[<<s, y.b>>] \in Nat /\ calls[<<s, y.b>>] \in Nat
  BY <1>3 DEF Extends, Types
<1>5. Once(s, y.b)' => Once(s, y.b)
  BY <1>4 DEF Once
<1>6. \A i \in 1..n : log'[s][i] = log[s][i] /\ log'[s][n] = log[s][n]
  BY <1>2
<1>7. QED
  BY <1>5, <1>6 DEF Follows

(* Samples stay what they are. *)
LEMMA SampledKeeps ==
  ASSUME Types, Types', Extends, NEW s \in Sources, Sampled(s), samples'[s] = samples[s]
  PROVE  Sampled(s)'
<1> SUFFICES ASSUME NEW p \in samples[s]
             PROVE  /\ p[1] \in 1..Len(log'[s]) /\ p[2] \in 1..Len(log'[s])
                    /\ log'[s][p[1]].b = log'[s][p[2]].b /\ log'[s][p[1]].f + 1 = log'[s][p[2]].f
                    /\ p[2] = p[1] + 1 \/ p[1] > p[2] \/ calls'[<<s, log'[s][p[1]].b>>] > 1
  BY DEF Sampled
<1>1. Len(log[s]) \in Nat /\ Len(log'[s]) \in Nat /\ log[s] \in Seq(Frag)
  BY DEF Types
<1>2. /\ p[1] \in 1..Len(log[s]) /\ p[2] \in 1..Len(log[s])
      /\ log[s][p[1]].b = log[s][p[2]].b /\ log[s][p[1]].f + 1 = log[s][p[2]].f
      /\ p[2] = p[1] + 1 \/ p[1] > p[2] \/ calls[<<s, log[s][p[1]].b>>] > 1
  BY DEF Sampled
<1>3. log'[s][p[1]] = log[s][p[1]] /\ log'[s][p[2]] = log[s][p[2]]
  BY <1>2 DEF Extends
<1>4. p[1] \in 1..Len(log'[s]) /\ p[2] \in 1..Len(log'[s])
  BY <1>1, <1>2 DEF Extends
<1>5. log[s][p[1]].b \in Blocks
  <2>1. log[s][p[1]] \in Frag
    BY <1>1, <1>2, ElementOfSeq
  <2>2. QED
    BY <2>1 DEF Frag
<1>6. calls[<<s, log[s][p[1]].b>>] > 1 => calls'[<<s, log[s][p[1]].b>>] > 1
  BY <1>5 DEF Extends, Types
<1>7. QED
  BY <1>2, <1>3, <1>4, <1>6

-----------------------------------------------------------------------------
(* A packet leaves.                                                        *)

(* What leaves is the next entry of the log. *)
LEMMA LeavesIs ==
  ASSUME Types, NEW s \in Sources, NEW x \in Frag, NEW flag \in BOOLEAN, Leaves(s, x, flag),
         calls' = calls
  PROVE  /\ log' \in [Sources -> Seq(Frag)] /\ Extends
         /\ Len(log[s]) \in Nat /\ Len(log'[s]) = Len(log[s]) + 1
         /\ log'[s][Len(log[s]) + 1] = x
         /\ \A i \in 1..Len(log[s]) : log'[s][i] = log[s][i]
         /\ \A i \in 1..Len(log'[s]) : i = Len(log[s]) + 1 \/ i \in 1..Len(log[s])
         /\ \A t \in Sources : t # s => log'[t] = log[t]
         /\ Range(log'[s]) = Range(log[s]) \cup {x}
<1>1. log \in [Sources -> Seq(Frag)] /\ log' = [log EXCEPT ![s] = Append(log[s], x)]
  BY DEF Types, Leaves
<1>2. log[s] \in Seq(Frag)
  BY <1>1
<1>3. /\ Append(log[s], x) \in Seq(Frag) /\ Len(log[s]) \in Nat
      /\ Len(Append(log[s], x)) = Len(log[s]) + 1 /\ Append(log[s], x)[Len(log[s]) + 1] = x
      /\ \A j \in 1..Len(log[s]) : Append(log[s], x)[j] = log[s][j]
      /\ \A j \in 1..(Len(log[s]) + 1) : j = Len(log[s]) + 1 \/ j \in 1..Len(log[s])
  BY <1>2, AppendIs
<1>4. log'[s] = Append(log[s], x) /\ \A t \in Sources : t # s => log'[t] = log[t]
  BY <1>1
<1>5. log' \in [Sources -> Seq(Frag)]
  BY <1>1, <1>3
<1>6. Extends
  <2>1. \A t \in Sources, b \in Blocks : calls[<<t, b>>] \in Nat
    BY DEF Types
  <2>2. \A t \in Sources : Len(log[t]) \in Nat
    BY <1>1
  <2>3. \A t \in Sources : /\ Len(log'[t]) >= Len(log[t])
                           /\ \A i \in 1..Len(log[t]) : log'[t][i] = log[t][i]
    <3>1. Len(log'[s]) >= Len(log[s]) /\ \A i \in 1..Len(log[s]) : log'[s][i] = log[s][i]
      BY <1>3, <1>4
    <3>2. ASSUME NEW t \in Sources, t # s
          PROVE  Len(log'[t]) >= Len(log[t]) /\ \A i \in 1..Len(log[t]) : log'[t][i] = log[t][i]
      BY <1>4, <2>2, <3>2
    <3>3. QED
      BY <3>1, <3>2
  <2>4. QED
    BY <2>1, <2>3 DEF Extends
<1>7. Range(log'[s]) = Range(log[s]) \cup {x}
  <2>a. log'[s] \in Seq(Frag)
    BY <1>3, <1>4
  <2>b. \A q \in Seq(Frag) : Range(q) = {q[i] : i \in 1..Len(q)}
    BY RangeIs
  <2>1. Range(log'[s]) = {log'[s][i] : i \in 1..Len(log'[s])}
        /\ Range(log[s]) = {log[s][i] : i \in 1..Len(log[s])}
    BY <1>2, <2>a, <2>b
  <2>2. Len(log[s]) + 1 \in 1..Len(log'[s]) /\ 1..Len(log[s]) \subseteq 1..Len(log'[s])
    BY <1>3, <1>4
  <2>3. ASSUME NEW y \in Range(log'[s]) PROVE y \in Range(log[s]) \cup {x}
    <3>1. PICK i \in 1..Len(log'[s]) : y = log'[s][i]
      BY <2>1
    <3>2. QED
      BY <1>3, <1>4, <2>1, <3>1
  <2>4. ASSUME NEW y \in Range(log[s]) PROVE y \in Range(log'[s])
    <3>1. PICK i \in 1..Len(log[s]) : y = log[s][i]
      BY <2>1
    <3>2. i \in 1..Len(log'[s]) /\ y = log'[s][i]
      BY <1>3, <1>4, <2>2, <3>1
    <3>3. QED
      BY <2>1, <3>2
  <2>5. x \in Range(log'[s])
    BY <1>3, <1>4, <2>1, <2>2
  <2>6. QED
    BY <2>3, <2>4, <2>5
<1>8. QED
  BY <1>3, <1>4, <1>5, <1>6, <1>7

(* What is on the network stays what it is while logs grow. *)
LEMMA TravellingKeeps ==
  ASSUME Types, Types', Extends, NEW m, m.s \in Sources, Seen(m.s, m),
         m.flag => Follows(m.s, m.x, m.n - 1)
  PROVE  (Seen(m.s, m) /\ (m.flag => Follows(m.s, m.x, m.n - 1)))'
<1>1. Seen(m.s, m)'
  BY SeenKeeps
<1>2. Len(log[m.s]) \in Nat /\ log[m.s] \in Seq(Frag)
  BY DEF Types
<1>3. m.x \in Frag /\ m.n - 1 \in 0..Len(log[m.s])
  <2>1. m.n \in 1..Len(log[m.s]) /\ m.x = log[m.s][m.n]
    BY DEF Seen
  <2>2. QED
    BY <1>2, <2>1, ElementOfSeq
<1>4. ASSUME m.flag PROVE Follows(m.s, m.x, m.n - 1)'
  BY <1>3, <1>4, FollowsKeeps
<1>5. QED
  BY <1>1, <1>4

(* A packet joins the network. *)
LEMMA LeavesTravels ==
  ASSUME Types, Types', Travelling, NEW s \in Sources, NEW x \in Frag, NEW flag \in BOOLEAN,
         Leaves(s, x, flag), calls' = calls, flag => Follows(s, x, Len(log[s]))
  PROVE  Travelling'
<1>1. /\ Extends /\ Len(log[s]) \in Nat /\ Len(log'[s]) = Len(log[s]) + 1
      /\ log'[s][Len(log[s]) + 1] = x
  BY LeavesIs
<1>n. PICK n \in Nat : n = Len(log[s])
  BY <1>1
<1> DEFINE r == [s |-> s, n |-> n + 1, x |-> x, flag |-> flag]
<1>2. net' = net \cup {r}
  BY <1>n DEF Leaves
<1>3. r.s = s /\ r.n = n + 1 /\ r.x = x /\ r.flag = flag /\ r.n - 1 = n
  BY <1>n
<1> HIDE DEF r
<1>4. Seen(s, r)'
  BY <1>1, <1>n, <1>3 DEF Seen
<1>5. r.flag => Follows(s, x, n)'
  BY <1>1, <1>n, <1>3, FollowsKeeps
<1>6. ASSUME NEW m \in net
      PROVE  m.s \in Sources /\ (Seen(m.s, m) /\ (m.flag => Follows(m.s, m.x, m.n - 1)))'
  BY <1>1, TravellingKeeps DEF Travelling
<1>7. r.s \in Sources /\ (Seen(r.s, r) /\ (r.flag => Follows(r.s, r.x, r.n - 1)))'
  BY <1>3, <1>4, <1>5
<1>8. QED
  BY <1>2, <1>6, <1>7 DEF Travelling

(* The oldest packet of the send queue leaves: the rest of its block is    *)
(* still in order, and the new head may follow it as the second of a pair. *)
LEMMA QueueAdvances ==
  ASSUME Types, NEW s \in Sources, Told(s), Queued(s), Started(s), sendQ[s] # <<>>,
         NEW h \in Frag, h = Head(sendQ[s]), NEW flag \in BOOLEAN, Leaves(s, h, flag),
         sendQ' = [sendQ EXCEPT ![s] = Tail(@)], retrQ' = retrQ, calls' = calls
  PROVE  /\ sendQ' \in [Sources -> Seq(Frag)]
         /\ (Told(s) /\ Queued(s) /\ Started(s))'
         /\ sendQ'[s] # <<>> => Follows(s, Head(sendQ[s]), Len(log[s]))'
<1>1. /\ Len(log[s]) \in Nat /\ Len(log'[s]) = Len(log[s]) + 1
      /\ log'[s][Len(log[s]) + 1] = h
      /\ \A i \in 1..Len(log[s]) : log'[s][i] = log[s][i]
      /\ \A i \in 1..Len(log'[s]) : i = Len(log[s]) + 1 \/ i \in 1..Len(log[s])
      /\ Range(log'[s]) = Range(log[s]) \cup {h}
  <2>1. Leaves(s, h, flag) /\ calls' = calls
    OBVIOUS
  <2>2. QED
    BY ONLY Types, <2>1, s \in Sources, h \in Frag, flag \in BOOLEAN, LeavesIs
<1>2. sendQ \in [Sources -> Seq(Frag)] /\ sendQ[s] \in Seq(Frag) /\ sendQ'[s] = Tail(sendQ[s])
  BY DEF Types
<1>3. /\ sendQ'[s] \in Seq(Frag) /\ Len(sendQ[s]) \in Nat \ {0} /\ Len(sendQ'[s]) = Len(sendQ[s]) - 1
      /\ h = sendQ[s][1]
      /\ \A j \in 1..Len(sendQ'[s]) : sendQ'[s][j] = sendQ[s][j + 1] /\ j + 1 \in 1..Len(sendQ[s])
  BY <1>2, TailIs
<1>4. sendQ' \in [Sources -> Seq(Frag)]
  BY <1>2, <1>3
<1>5. 1 \in 1..Len(sendQ[s])
  BY <1>3
<1>6. Told(s)'
  <2>1. \A i \in 1..Len(sendQ'[s]) : calls'[<<s, sendQ'[s][i].b>>] > 0
    BY <1>3 DEF Told
  <2>2. \A i \in 1..Len(log'[s]) : calls'[<<s, log'[s][i].b>>] > 0
    BY <1>1, <1>3, <1>5 DEF Told
  <2>3. \A i \in 1..Len(retrQ'[s]) : retrQ'[s][i] \in Range(log'[s])
    BY <1>1 DEF Told
  <2>4. QED
    BY <2>1, <2>2, <2>3 DEF Told
<1>7. Queued(s)'
  <2> SUFFICES ASSUME NEW i \in 1..Len(sendQ'[s]), NEW j \in 1..Len(sendQ'[s]), i < j,
                      sendQ'[s][i].b = sendQ'[s][j].b, Once(s, sendQ'[s][j].b)
               PROVE  /\ sendQ'[s][i].f < sendQ'[s][j].f
                      /\ \A k \in i..j : sendQ'[s][k].b = sendQ'[s][j].b
    BY DEF Queued, Once
  <2>1. /\ i + 1 \in 1..Len(sendQ[s]) /\ j + 1 \in 1..Len(sendQ[s]) /\ i + 1 < j + 1
        /\ sendQ'[s][i] = sendQ[s][i + 1] /\ sendQ'[s][j] = sendQ[s][j + 1]
    BY <1>3
  <2>2. /\ sendQ[s][i + 1].f < sendQ[s][j + 1].f
        /\ \A k \in (i + 1)..(j + 1) : sendQ[s][k].b = sendQ[s][j + 1].b
    BY <2>1 DEF Queued
  <2>3. \A k \in i..j : k + 1 \in (i + 1)..(j + 1) /\ sendQ'[s][k] = sendQ[s][k + 1]
    BY <1>3
  <2>4. QED
    BY <2>1, <2>2, <2>3
<1>8. ASSUME NEW i \in 1..Len(log'[s]), NEW j \in 1..Len(sendQ'[s]),
             log'[s][i].b = sendQ'[s][j].b, Once(s, sendQ'[s][j].b)
      PROVE  /\ log'[s][i].f < sendQ'[s][j].f /\ h.b = sendQ'[s][j].b /\ h.f < sendQ'[s][j].f
             /\ i \in 1..Len(log[s]) => log'[s][i].f < h.f
             /\ \A k \in 1..j : sendQ'[s][k].b = sendQ'[s][j].b
  <2>1. sendQ'[s][j] = sendQ[s][j + 1] /\ j + 1 \in 1..Len(sendQ[s]) /\ 1 < j + 1
    BY <1>3
  <2>2. \A k \in 1..j : k + 1 \in 1..(j + 1) /\ sendQ'[s][k] = sendQ[s][k + 1]
    BY <1>3
  <2>3. h.b = sendQ'[s][j].b /\ \A k \in 1..(j + 1) : sendQ[s][k].b = sendQ[s][j + 1].b
    <3>1. CASE i = Len(log[s]) + 1
      <4>1. log'[s][i] = h /\ sendQ[s][1].b = sendQ[s][j + 1].b /\ Once(s, sendQ[s][j + 1].b)
        BY <1>1, <1>3, <1>8, <2>1, <3>1
      <4>2. \A k \in 1..(j + 1) : sendQ[s][k].b = sendQ[s][j + 1].b
        BY <1>5, <2>1, <4>1 DEF Queued
      <4>3. QED
        BY <1>3, <2>1, <4>1, <4>2
    <3>2. CASE i \in 1..Len(log[s])
      <4>1. \A k \in 1..(j + 1) : sendQ[s][k].b = sendQ[s][j + 1].b
        BY <1>1, <1>8, <2>1, <3>2 DEF Started
      <4>2. 1 \in 1..(j + 1)
        OBVIOUS
      <4>3. QED
        BY <1>3, <2>1, <4>1, <4>2
    <3>3. QED
      BY <1>1, <3>1, <3>2
  <2>4. h.f < sendQ'[s][j].f
    <3>1. h = sendQ[s][1] /\ h.b = sendQ[s][j + 1].b /\ Once(s, sendQ[s][j + 1].b)
      BY <1>3, <1>8, <2>1, <2>3
    <3>2. sendQ[s][1].f < sendQ[s][j + 1].f
      BY <1>5, <2>1, <3>1 DEF Queued
    <3>3. QED
      BY <2>1, <3>1, <3>2
  <2>5. ASSUME i \in 1..Len(log[s]) PROVE log'[s][i].f < h.f /\ log'[s][i].f < sendQ'[s][j].f
    <3>1. log'[s][i] = log[s][i] /\ log[s][i].b = h.b /\ Once(s, h.b)
      BY <1>1, <1>8, <2>3, <2>5
    <3>2. h = sendQ[s][1] /\ log[s][i].b = sendQ[s][j + 1].b /\ Once(s, sendQ[s][j + 1].b)
      BY <1>3, <1>8, <2>1, <3>1
    <3>3. log[s][i].f < sendQ[s][1].f
      BY <1>5, <2>5, <3>1, <3>2 DEF Started
    <3>4. log[s][i].f < sendQ[s][j + 1].f
      BY <2>1, <2>5, <3>2 DEF Started
    <3>5. QED
      BY <2>1, <3>1, <3>2, <3>3, <3>4
  <2>6. log'[s][i].f < sendQ'[s][j].f
    BY <1>1, <2>4, <2>5
  <2>7. QED
    BY <2>1, <2>2, <2>3, <2>4, <2>5, <2>6
<1>9. Started(s)'
  BY <1>8 DEF Started, Once
<1>10. sendQ'[s] # <<>> => Follows(s, Head(sendQ[s]), Len(log[s]))'
  <2> SUFFICES ASSUME sendQ'[s] # <<>>, Once(s, Head(sendQ[s]).b)', NEW i \in 1..Len(log'[s]),
                      log'[s][i].b = Head(sendQ'[s]).b
               PROVE  LET n == Len(log'[s])
                          y == Head(sendQ'[s])
                      IN  /\ log'[s][n].b = y.b /\ log'[s][n].f < y.f
                          /\ i < n => log'[s][i].f < log'[s][n].f
    BY DEF Follows
  <2>1. Head(sendQ'[s]) = sendQ'[s][1] /\ 1 \in 1..Len(sendQ'[s])
    BY <1>3, TailIs
  <2>2. log'[s][Len(log'[s])] = h
    BY <1>1
  <2>3. /\ h.b = sendQ'[s][1].b /\ h.f < sendQ'[s][1].f
        /\ i \in 1..Len(log[s]) => log'[s][i].f < h.f
    BY <1>8, <2>1 DEF Once
  <2>4. i < Len(log'[s]) => i \in 1..Len(log[s])
    BY <1>1
  <2>5. QED
    BY <2>1, <2>2, <2>3, <2>4
<1>11. QED
  BY <1>4, <1>6, <1>7, <1>9, <1>10

(* A packet leaves that was sent before: all of its block that is queued   *)
(* comes after it still.                                                   *)
LEMMA RetrAdvances ==
  ASSUME Types, NEW s \in Sources, Told(s), Queued(s), Started(s), retrQ[s] # <<>>,
         NEW h \in Frag, h = Head(retrQ[s]), Leaves(s, h, FALSE),
         retrQ' = [retrQ EXCEPT ![s] = Tail(@)], sendQ' = sendQ, calls' = calls
  PROVE  retrQ' \in [Sources -> Seq(Frag)] /\ (Told(s) /\ Queued(s) /\ Started(s))'
<1>1. /\ Len(log[s]) \in Nat /\ Len(log'[s]) = Len(log[s]) + 1
      /\ log'[s][Len(log[s]) + 1] = h
      /\ \A i \in 1..Len(log[s]) : log'[s][i] = log[s][i]
      /\ \A i \in 1..Len(log'[s]) : i = Len(log[s]) + 1 \/ i \in 1..Len(log[s])
      /\ Range(log'[s]) = Range(log[s]) \cup {h}
  BY LeavesIs
<1>2. /\ retrQ \in [Sources -> Seq(Frag)] /\ retrQ[s] \in Seq(Frag) /\ retrQ'[s] = Tail(retrQ[s])
      /\ log[s] \in Seq(Frag)
  BY DEF Types
<1>3. /\ retrQ'[s] \in Seq(Frag) /\ Len(retrQ[s]) \in Nat \ {0} /\ h = retrQ[s][1]
      /\ \A j \in 1..Len(retrQ'[s]) : retrQ'[s][j] = retrQ[s][j + 1] /\ j + 1 \in 1..Len(retrQ[s])
  BY <1>2, TailIs
<1>4. retrQ' \in [Sources -> Seq(Frag)]
  BY <1>2, <1>3
<1>5. PICK o \in 1..Len(log[s]) : log[s][o] = h
  <2>1. 1 \in 1..Len(retrQ[s])
    BY <1>3
  <2>2. h \in Range(log[s])
    BY <1>3, <2>1 DEF Told
  <2>3. QED
    BY <1>2, <2>2, RangeIs
<1>6. \A i \in 1..Len(log'[s]) : \E k \in 1..Len(log[s]) : log'[s][i] = log[s][k]
  BY <1>1, <1>5
<1>7. Told(s)'
  <2>1. \A i \in 1..Len(log'[s]) : calls'[<<s, log'[s][i].b>>] > 0
    BY <1>6 DEF Told
  <2>2. \A i \in 1..Len(retrQ'[s]) : retrQ'[s][i] \in Range(log'[s])
    BY <1>1, <1>3 DEF Told
  <2>3. QED
    BY <2>1, <2>2 DEF Told
<1>8. Queued(s)'
  BY DEF Queued, Once
<1>9. Started(s)'
  <2> SUFFICES ASSUME NEW i \in 1..Len(log'[s]), NEW j \in 1..Len(sendQ[s]),
                      log'[s][i].b = sendQ[s][j].b, Once(s, sendQ[s][j].b)
               PROVE  /\ log'[s][i].f < sendQ[s][j].f
                      /\ \A k \in 1..j : sendQ[s][k].b = sendQ[s][j].b
    BY DEF Started, Once
  <2>1. PICK k \in 1..Len(log[s]) : log'[s][i] = log[s][k]
    BY <1>6
  <2>2. QED
    BY <2>1 DEF Started
<1>10. QED
  BY <1>4, <1>7, <1>8, <1>9

(* What holds of a source holds as long as nothing of it changes. *)
LEMMA OthersKeep ==
  ASSUME NEW t \in Sources, sendQ'[t] = sendQ[t], retrQ'[t] = retrQ[t], log'[t] = log[t],
         lasthost'[t] = lasthost[t], \A b : calls'[<<t, b>>] = calls[<<t, b>>], Ordered(t)
  PROVE  Ordered(t)'
<1>1. Told(t)'
  BY DEF Ordered, Told
<1>2. Queued(t)'
  BY DEF Ordered, Queued, Once
<1>3. Started(t)'
  BY DEF Ordered, Started, Once
<1>4. Paired(t)'
  BY DEF Ordered, Paired, Follows, Once
<1>5. QED
  BY <1>1, <1>2, <1>3, <1>4 DEF Ordered

-----------------------------------------------------------------------------
(* A block is queued.                                                      *)

(* Two sequences one after the other. *)
LEMMA ConcatIs ==
  ASSUME NEW S, NEW p \in Seq(S), NEW q \in Seq(S)
  PROVE  /\ p \o q \in Seq(S) /\ Len(p) \in Nat /\ Len(q) \in Nat
         /\ Len(p \o q) = Len(p) + Len(q)
         /\ \A i \in 1..Len(p) : (p \o q)[i] = p[i] /\ i \in 1..Len(p \o q)
         /\ \A i \in 1..Len(p \o q) :
              i \in 1..Len(p) \/ (i > Len(p) /\ i - Len(p) \in 1..Len(q) /\ (p \o q)[i] = q[i - Len(p)])
<1>1. Len(p) \in Nat /\ Len(q) \in Nat
  OBVIOUS
<1>2. /\ p \o q \in Seq(S) /\ Len(p \o q) = Len(p) + Len(q)
      /\ \A i \in 1..(Len(p) + Len(q)) : (p \o q)[i] = IF i <= Len(p) THEN p[i] ELSE q[i - Len(p)]
  BY ConcatProperties
<1>3. QED
  BY <1>1, <1>2

(* What sendblock puts into the queue. *)
LEMMA AcceptedIs ==
  ASSUME NEW b \in Blocks, NEW q \in Accepted(b)
  PROVE  /\ q \in Seq(Frag) /\ Len(q) \in Nat
         /\ \A i \in 1..Len(q) : q[i].b = b
         /\ \A i, j \in 1..Len(q) : i < j => q[i].f < q[j].f
<1>1. PICK n \in 0..FN : q \in [1..n -> [b : {b}, f : 0..(FN - 1)]]
  BY DEF Accepted
<1>2. n \in Nat /\ FN \in Nat
  BY SamplesConstants
<1>3. [b : {b}, f : 0..(FN - 1)] \subseteq Frag
  BY DEF Frag
<1>4. q \in Seq(Frag) /\ Len(q) = n /\ DOMAIN q = 1..n
  BY <1>1, <1>2, <1>3
<1>5. \A i, j \in DOMAIN q : i < j => q[i].f < q[j].f
  BY DEF Accepted
<1>6. \A i \in 1..n : q[i].b = b
  BY <1>1
<1>7. QED
  BY <1>2, <1>4, <1>5, <1>6

(* sendblock: a block that is new to the source has nothing in the log or  *)
(* the queue that it could be mixed with.                                  *)
LEMMA SendBlockStep ==
  ASSUME Types, NEW s \in Sources, Ordered(s), SendBlock(s)
  PROVE  Types' /\ Extends /\ Ordered(s)' /\ \A t \in Sources : Ordered(t) => Ordered(t)'
<1>0. PICK b \in Blocks : \E q \in Accepted(b) :
        /\ sendQ' = [sendQ EXCEPT ![s] = @ \o q]
        /\ calls' = [calls EXCEPT ![<<s, b>>] = @ + 1]
  BY DEF SendBlock
<1>1. PICK q \in Accepted(b) : /\ sendQ' = [sendQ EXCEPT ![s] = @ \o q]
                               /\ calls' = [calls EXCEPT ![<<s, b>>] = @ + 1]
  BY <1>0
<1>2. retrQ' = retrQ /\ lasthost' = lasthost /\ log' = log
  BY DEF SendBlock
<1>3. /\ q \in Seq(Frag) /\ Len(q) \in Nat /\ \A i \in 1..Len(q) : q[i].b = b
      /\ \A i, j \in 1..Len(q) : i < j => q[i].f < q[j].f
  BY AcceptedIs
<1>4. /\ sendQ \in [Sources -> Seq(Frag)] /\ sendQ[s] \in Seq(Frag) /\ log[s] \in Seq(Frag)
      /\ calls \in [Sources \X Blocks -> Nat] /\ Len(log[s]) \in Nat
  BY DEF Types
<1>5. sendQ'[s] = sendQ[s] \o q /\ \A t \in Sources : t # s => sendQ'[t] = sendQ[t]
  BY <1>1, <1>4
<1> DEFINE p == sendQ[s]
<1>6. /\ sendQ'[s] \in Seq(Frag) /\ Len(p) \in Nat /\ Len(sendQ'[s]) = Len(p) + Len(q)
      /\ \A i \in 1..Len(p) : sendQ'[s][i] = p[i] /\ i \in 1..Len(sendQ'[s])
      /\ \A i \in 1..Len(sendQ'[s]) :
           \/ i \in 1..Len(p)
           \/ i > Len(p) /\ i - Len(p) \in 1..Len(q) /\ sendQ'[s][i] = q[i - Len(p)]
  BY <1>3, <1>4, <1>5, ConcatIs
<1>7. /\ calls' \in [Sources \X Blocks -> Nat] /\ calls'[<<s, b>>] = calls[<<s, b>>] + 1
      /\ calls[<<s, b>>] \in Nat
      /\ \A t \in Sources, c \in Blocks : t # s \/ c # b => calls'[<<t, c>>] = calls[<<t, c>>]
  BY <1>1, <1>4
<1>c. ASSUME NEW t \in Sources, NEW c \in Blocks
      PROVE  /\ calls[<<t, c>>] \in Nat /\ calls'[<<t, c>>] \in Nat
             /\ calls'[<<t, c>>] = IF t = s /\ c = b THEN calls[<<t, c>>] + 1 ELSE calls[<<t, c>>]
  <2>1. <<t, c>> \in Sources \X Blocks
    OBVIOUS
  <2>2. calls[<<t, c>>] \in Nat /\ calls'[<<t, c>>] \in Nat
    BY <1>4, <1>7, <2>1
  <2>3. CASE t = s /\ c = b
    BY <1>7, <2>2, <2>3
  <2>4. CASE t # s \/ c # b
    BY <1>7, <2>2, <2>4
  <2>5. QED
    BY <2>2, <2>3, <2>4
<1>8. Types'
  <2>1. sendQ' \in [Sources -> Seq(Frag)]
    BY <1>1, <1>4, <1>5, <1>6
  <2>2. QED
    BY <1>2, <1>7, <2>1 DEF Types
<1>9. Extends
  <2>1. ASSUME NEW t \in Sources, NEW c \in Blocks PROVE calls'[<<t, c>>] >= calls[<<t, c>>]
    <3>1. CASE t = s /\ c = b
      BY <1>c, <3>1
    <3>2. CASE ~(t = s /\ c = b)
      BY <1>c, <3>2
    <3>3. QED
      BY <3>1, <3>2
  <2>2. \A t \in Sources : Len(log[t]) \in Nat
    BY DEF Types
  <2>3. QED
    BY <1>2, <2>1, <2>2 DEF Extends
<1>10. \A i \in 1..Len(p) : p[i].b \in Blocks
  <2>1. \A i \in 1..Len(p) : p[i] \in Frag
    BY <1>4, ElementOfSeq
  <2>2. QED
    BY <2>1 DEF Frag
<1>11. \A i \in 1..Len(log[s]) : log[s][i].b \in Blocks
  <2>1. \A i \in 1..Len(log[s]) : log[s][i] \in Frag
    BY <1>4, ElementOfSeq
  <2>2. QED
    BY <2>1 DEF Frag
<1>12. \A c \in Blocks : Once(s, c)' => Once(s, c) /\ (c = b => calls[<<s, c>>] = 0)
  <2> SUFFICES ASSUME NEW c \in Blocks, Once(s, c)'
               PROVE  Once(s, c) /\ (c = b => calls[<<s, c>>] = 0)
    OBVIOUS
  <2>1. /\ calls[<<s, c>>] \in Nat /\ calls'[<<s, c>>] <= 1
        /\ calls'[<<s, c>>] = IF c = b THEN calls[<<s, c>>] + 1 ELSE calls[<<s, c>>]
    BY <1>c DEF Once
  <2>2. QED
    BY <2>1 DEF Once
<1>13. Once(s, b)' => (\A i \in 1..Len(p) : p[i].b # b) /\ (\A i \in 1..Len(log[s]) : log[s][i].b # b)
  <2> SUFFICES ASSUME Once(s, b)'
               PROVE  /\ \A i \in 1..Len(p) : p[i].b # b
                      /\ \A i \in 1..Len(log[s]) : log[s][i].b # b
    OBVIOUS
  <2>1. calls[<<s, b>>] = 0 /\ ~(0 > 0)
    BY <1>12
  <2>2. QED
    BY <2>1 DEF Ordered, Told
<1>14. Told(s)'
  <2>1. \A c \in Blocks : calls[<<s, c>>] > 0 \/ c = b => calls'[<<s, c>>] > 0
    BY <1>c
  <2>2. \A i \in 1..Len(sendQ'[s]) : calls'[<<s, sendQ'[s][i].b>>] > 0
    <3> SUFFICES ASSUME NEW i \in 1..Len(sendQ'[s]) PROVE calls'[<<s, sendQ'[s][i].b>>] > 0
      OBVIOUS
    <3>1. CASE i \in 1..Len(p)
      BY <1>6, <1>10, <2>1, <3>1 DEF Ordered, Told
    <3>2. CASE i - Len(p) \in 1..Len(q) /\ sendQ'[s][i] = q[i - Len(p)]
      BY <1>3, <2>1, <3>2
    <3>3. QED
      BY <1>6, <3>1, <3>2
  <2>3. \A i \in 1..Len(log[s]) : calls'[<<s, log[s][i].b>>] > 0
    BY <1>11, <2>1 DEF Ordered, Told
  <2>4. QED
    BY <1>2, <2>2, <2>3 DEF Ordered, Told
<1>15. ASSUME NEW j \in 1..Len(sendQ'[s]), Once(s, sendQ[s][j].b)'
       PROVE  \/ j \in 1..Len(p) /\ Once(s, p[j].b) /\ sendQ'[s][j] = p[j] /\ p[j].b # b
              \/ /\ j > Len(p) /\ j - Len(p) \in 1..Len(q) /\ sendQ'[s][j] = q[j - Len(p)]
                 /\ sendQ'[s][j].b = b /\ Once(s, b)'
  <2>1. CASE j \in 1..Len(p)
    <3>1. sendQ'[s][j] = p[j] /\ p[j].b \in Blocks
      BY <1>6, <1>10, <2>1
    <3>2. Once(s, p[j].b)'
      BY <1>15, <3>1 DEF Once
    <3>3. QED
      BY <1>12, <1>13, <2>1, <3>1, <3>2
  <2>2. CASE j > Len(p) /\ j - Len(p) \in 1..Len(q) /\ sendQ'[s][j] = q[j - Len(p)]
    <3>1. sendQ'[s][j].b = b
      BY <1>3, <2>2
    <3>2. QED
      BY <1>15, <2>2, <3>1 DEF Once
  <2>3. QED
    BY <1>6, <2>1, <2>2
<1>16. Queued(s)'
  <2> SUFFICES ASSUME NEW i \in 1..Len(sendQ'[s]), NEW j \in 1..Len(sendQ'[s]), i < j,
                      sendQ'[s][i].b = sendQ'[s][j].b, Once(s, sendQ[s][j].b)'
               PROVE  /\ sendQ'[s][i].f < sendQ'[s][j].f
                      /\ \A k \in i..j : sendQ'[s][k].b = sendQ'[s][j].b
    BY DEF Queued
  <2>1. CASE j \in 1..Len(p) /\ Once(s, p[j].b) /\ sendQ'[s][j] = p[j]
    <3>1. i \in 1..Len(p) /\ \A k \in i..j : k \in 1..Len(p)
      BY <1>6, <2>1
    <3>2. sendQ'[s][i] = p[i] /\ \A k \in i..j : sendQ'[s][k] = p[k]
      BY <1>6, <3>1
    <3>3. p[i].f < p[j].f /\ \A k \in i..j : p[k].b = p[j].b
      BY <2>1, <3>1, <3>2 DEF Ordered, Queued, p
    <3>4. QED
      BY <2>1, <3>2, <3>3
  <2>2. CASE /\ j > Len(p) /\ j - Len(p) \in 1..Len(q) /\ sendQ'[s][j] = q[j - Len(p)]
             /\ sendQ'[s][j].b = b /\ Once(s, b)'
    <3>1. \A k \in 1..Len(p) : sendQ'[s][k].b # b
      BY <1>6, <1>13, <2>2
    <3>2. i \notin 1..Len(p)
      BY <2>2, <3>1
    <3>3. i > Len(p) /\ i - Len(p) \in 1..Len(q) /\ sendQ'[s][i] = q[i - Len(p)]
      BY <1>6, <3>2
    <3>4. i - Len(p) < j - Len(p)
      BY <1>6
    <3>5. sendQ'[s][i].f < sendQ'[s][j].f
      BY <1>3, <2>2, <3>3, <3>4
    <3>6. \A k \in i..j : k \in 1..Len(sendQ'[s]) /\ k \notin 1..Len(p)
      BY <1>6, <3>3
    <3>7. \A k \in i..j : sendQ'[s][k].b = b
      BY <1>3, <1>6, <3>6
    <3>8. QED
      BY <2>2, <3>5, <3>7
  <2>3. QED
    BY <1>15, <2>1, <2>2
<1>17. Started(s)'
  <2> SUFFICES ASSUME NEW i \in 1..Len(log[s]), NEW j \in 1..Len(sendQ'[s]),
                      log[s][i].b = sendQ'[s][j].b, Once(s, sendQ[s][j].b)'
               PROVE  /\ log[s][i].f < sendQ'[s][j].f
                      /\ \A k \in 1..j : sendQ'[s][k].b = sendQ'[s][j].b
    BY <1>2 DEF Started
  <2>1. j \in 1..Len(p) /\ Once(s, p[j].b) /\ sendQ'[s][j] = p[j]
    BY <1>13, <1>15
  <2>2. \A k \in 1..j : k \in 1..Len(p) /\ sendQ'[s][k] = p[k]
    BY <1>6, <2>1
  <2>3. log[s][i].f < p[j].f /\ \A k \in 1..j : p[k].b = p[j].b
    BY <2>1 DEF Ordered, Started, p
  <2>4. QED
    BY <2>1, <2>2, <2>3
<1>18. Paired(s)'
  <2> SUFFICES ASSUME lasthost[s], sendQ'[s] # <<>>
               PROVE  Follows(s, Head(sendQ[s]), Len(log[s]))'
    BY <1>2 DEF Paired
  <2>1. Head(sendQ'[s]) = sendQ'[s][1] /\ 1 \in 1..Len(sendQ'[s])
    BY <1>6, TailIs
  <2>2. SUFFICES ASSUME Once(s, sendQ[s][1].b)', NEW i \in 1..Len(log[s]),
                        log[s][i].b = sendQ'[s][1].b
                 PROVE  LET n == Len(log[s])
                            y == sendQ'[s][1]
                        IN  /\ log[s][n].b = y.b /\ log[s][n].f < y.f
                            /\ i < n => log[s][i].f < log[s][n].f
    BY <1>2, <2>1 DEF Follows, Once
  <2>3. 1 \in 1..Len(p) /\ Once(s, p[1].b) /\ sendQ'[s][1] = p[1]
    BY <1>13, <1>15, <2>1, <2>2
  <2>4. p # <<>> /\ Head(p) = p[1]
    BY <1>4, <2>3, TailIs DEF p
  <2>5. Follows(s, p[1], Len(log[s]))
    BY <2>4 DEF Ordered, Paired, p
  <2>6. QED
    BY <2>2, <2>3, <2>5 DEF Follows
<1>19. Ordered(s)'
  BY <1>14, <1>16, <1>17, <1>18 DEF Ordered
<1>20. ASSUME NEW t \in Sources, t # s, Ordered(t) PROVE Ordered(t)'
  <2>1. \A c : calls'[<<t, c>>] = calls[<<t, c>>]
    BY <1>1, <1>4, <1>20
  <2>2. QED
    BY <1>2, <1>5, <1>20, <2>1, OthersKeep
<1>21. QED
  BY <1>8, <1>9, <1>19, <1>20

-----------------------------------------------------------------------------
(* The steps.                                                              *)

(* What the node has recorded is not disturbed by the sources. *)
LEMMA NodeKeeps ==
  ASSUME IInv, Types', Extends, last' = last, samples' = samples, NEW t \in Sources
  PROVE  Recorded(t)' /\ Sampled(t)'
<1>1. Types /\ Recorded(t) /\ Sampled(t)
  BY DEF IInv
<1>2. Sampled(t)'
  BY <1>1, SampledKeeps
<1>3. ASSUME last[t] # <<>> PROVE Seen(t, last[t][1])'
  <2>1. PICK m : m = last[t][1]
    OBVIOUS
  <2>2. Seen(t, m)
    BY <1>1, <1>3, <2>1 DEF Recorded
  <2>3. Seen(t, m)'
    BY <1>1, <2>2, SeenKeeps
  <2>4. QED
    BY <2>1, <2>3
<1>4. QED
  BY <1>2, <1>3 DEF Recorded

(* Datagrams stay what they are. *)
LEMMA NetKeeps ==
  ASSUME IInv, Types', Extends, net' \subseteq net
  PROVE  Travelling'
<1>1. Types /\ Travelling
  BY DEF IInv
<1>2. ASSUME NEW m \in net
      PROVE  m.s \in Sources /\ (Seen(m.s, m) /\ (m.flag => Follows(m.s, m.x, m.n - 1)))'
  BY <1>1, TravellingKeeps DEF Travelling
<1>3. QED
  BY <1>2 DEF Travelling

(* A step that leaves the logs and the calls alone extends them. *)
LEMMA SameExtends == ASSUME Types, log' = log, calls' = calls PROVE Extends
<1>1. \A t \in Sources : Len(log[t]) \in Nat /\ \A c \in Blocks : calls[<<t, c>>] \in Nat
  BY DEF Types
<1>2. QED
  BY <1>1 DEF Extends

(* The datagram that leaves. *)
LEMMA LeavesType ==
  ASSUME Types, NodeTypes, NEW s \in Sources, NEW x \in Frag, NEW flag \in BOOLEAN,
         Leaves(s, x, flag), UNCHANGED nodeVars
  PROVE  NodeTypes'
<1>1. PICK n \in Nat : n = Len(log[s])
  BY DEF Types
<1>2. net' = net \cup {[s |-> s, n |-> n + 1, x |-> x, flag |-> flag]}
  BY <1>1 DEF Leaves
<1>3. [s |-> s, n |-> n + 1, x |-> x, flag |-> flag] \in Datagram
  BY DEF Datagram
<1>4. QED
  BY <1>2, <1>3 DEF NodeTypes, nodeVars

(* sendblock. *)
LEMMA StepSendBlock ==
  ASSUME IInv, NEW s \in Sources, SendBlock(s)
  PROVE  IInv'
<1>1. Types /\ NodeTypes /\ \A t \in Sources : Ordered(t)
  BY DEF IInv
<1>2. Types' /\ Extends /\ \A t \in Sources : Ordered(t)'
  BY <1>1, SendBlockStep
<1>3. net' = net /\ have' = have /\ last' = last /\ samples' = samples
  BY DEF SendBlock, nodeVars
<1>4. NodeTypes'
  BY <1>1, <1>3 DEF NodeTypes
<1>5. Travelling' /\ \A t \in Sources : Recorded(t)' /\ Sampled(t)'
  BY <1>2, <1>3, NodeKeeps, NetKeeps
<1>6. QED
  BY <1>2, <1>4, <1>5 DEF IInv

(* A packet is queued to be sent again. *)
LEMMA StepRetransmit ==
  ASSUME IInv, NEW s \in Sources, Retransmit(s)
  PROVE  IInv'
<1>1. Types /\ NodeTypes /\ \A t \in Sources : Ordered(t)
  BY DEF IInv
<1>2. /\ sendQ' = sendQ /\ lasthost' = lasthost /\ log' = log /\ calls' = calls
      /\ net' = net /\ have' = have /\ last' = last /\ samples' = samples
  BY DEF Retransmit, nodeVars
<1>3. PICK x \in Range(log[s]) : retrQ' = [retrQ EXCEPT ![s] = Append(@, x)]
  BY DEF Retransmit
<1>4. retrQ \in [Sources -> Seq(Frag)] /\ retrQ[s] \in Seq(Frag) /\ log[s] \in Seq(Frag)
  BY <1>1 DEF Types
<1>5. x \in Frag
  BY <1>4, RangeIs
<1>6. /\ retrQ'[s] = Append(retrQ[s], x) /\ \A t \in Sources : t # s => retrQ'[t] = retrQ[t]
  BY <1>3, <1>4
<1>7. /\ retrQ'[s] \in Seq(Frag) /\ Len(retrQ'[s]) = Len(retrQ[s]) + 1
      /\ retrQ'[s][Len(retrQ[s]) + 1] = x
      /\ \A j \in 1..Len(retrQ[s]) : retrQ'[s][j] = retrQ[s][j]
      /\ \A j \in 1..(Len(retrQ[s]) + 1) : j = Len(retrQ[s]) + 1 \/ j \in 1..Len(retrQ[s])
  BY <1>4, <1>5, <1>6, AppendIs
<1>8. Types' /\ Extends
  <2>1. retrQ' \in [Sources -> Seq(Frag)]
    BY <1>3, <1>4, <1>6, <1>7
  <2>2. QED
    BY <1>1, <1>2, <2>1, SameExtends DEF Types
<1>9. Ordered(s)'
  <2>1. Told(s)'
    <3>1. \A i \in 1..Len(retrQ'[s]) : retrQ'[s][i] \in Range(log[s])
      BY <1>1, <1>7 DEF Ordered, Told
    <3>2. QED
      BY <1>1, <1>2, <3>1 DEF Ordered, Told
  <2>2. Queued(s)' /\ Started(s)'
    BY <1>1, <1>2 DEF Ordered, Queued, Started, Once
  <2>3. Paired(s)'
    BY <1>1, <1>2 DEF Ordered, Paired, Follows, Once
  <2>4. QED
    BY <2>1, <2>2, <2>3 DEF Ordered
<1>10. ASSUME NEW t \in Sources, t # s PROVE Ordered(t)'
  BY <1>1, <1>2, <1>6, <1>10, OthersKeep
<1>11. NodeTypes'
  BY <1>1, <1>2 DEF NodeTypes
<1>12. Travelling' /\ \A t \in Sources : Recorded(t)' /\ Sampled(t)'
  BY <1>2, <1>8, NodeKeeps, NetKeeps
<1>13. QED
  BY <1>8, <1>9, <1>10, <1>11, <1>12 DEF IInv

(* A packet leaves and the source stays in order. *)
LEMMA LeavesInv ==
  ASSUME IInv, NEW s \in Sources, NEW x \in Frag, NEW flag \in BOOLEAN, Leaves(s, x, flag),
         UNCHANGED <<nodeVars, boundVars>>, flag => Follows(s, x, Len(log[s])),
         sendQ' \in [Sources -> Seq(Frag)], retrQ' \in [Sources -> Seq(Frag)],
         lasthost' \in [Sources -> BOOLEAN], Ordered(s)',
         \A t \in Sources : t # s => /\ sendQ'[t] = sendQ[t] /\ retrQ'[t] = retrQ[t]
                                     /\ lasthost'[t] = lasthost[t]
  PROVE  IInv'
<1>1. Types /\ NodeTypes /\ Travelling /\ \A t \in Sources : Ordered(t)
  BY DEF IInv
<1>2. calls' = calls /\ last' = last /\ samples' = samples /\ UNCHANGED nodeVars
  BY DEF nodeVars, boundVars
<1>3. /\ log' \in [Sources -> Seq(Frag)] /\ Extends
      /\ \A t \in Sources : t # s => log'[t] = log[t]
  BY <1>1, <1>2, LeavesIs
<1>4. Types'
  BY <1>1, <1>2, <1>3 DEF Types
<1>5. NodeTypes'
  BY <1>1, <1>2, LeavesType
<1>6. Travelling'
  BY <1>1, <1>2, <1>4, LeavesTravels
<1>7. ASSUME NEW t \in Sources, t # s PROVE Ordered(t)'
  BY <1>1, <1>2, <1>3, <1>7, OthersKeep
<1>8. \A t \in Sources : Recorded(t)' /\ Sampled(t)'
  BY <1>2, <1>3, <1>4, NodeKeeps
<1>9. QED
  BY <1>4, <1>5, <1>6, <1>7, <1>8 DEF IInv

(* The first packet of a turn. *)
LEMMA StepPacketSend ==
  ASSUME IInv, NEW s \in Sources, PacketSend(s)
  PROVE  IInv'
<1>1. Types /\ Told(s) /\ Queued(s) /\ Started(s)
  BY DEF IInv, Ordered
<1>2. /\ sendQ \in [Sources -> Seq(Frag)] /\ sendQ[s] \in Seq(Frag)
      /\ retrQ \in [Sources -> Seq(Frag)] /\ retrQ[s] \in Seq(Frag)
      /\ lasthost \in [Sources -> BOOLEAN] /\ ~lasthost[s]
  BY <1>1 DEF Types, PacketSend
<1>3. calls' = calls /\ UNCHANGED <<nodeVars, boundVars>>
  BY DEF PacketSend, boundVars
<1>4. CASE /\ retrQ[s] # <<>> /\ Leaves(s, Head(retrQ[s]), FALSE)
           /\ retrQ' = [retrQ EXCEPT ![s] = Tail(@)] /\ UNCHANGED <<sendQ, lasthost>>
  <2>1. PICK h \in Frag : h = Head(retrQ[s])
    BY <1>2, <1>4, TailIs
  <2>2. Leaves(s, h, FALSE)
    BY <1>4, <2>1
  <2>3. retrQ' \in [Sources -> Seq(Frag)] /\ (Told(s) /\ Queued(s) /\ Started(s))'
    BY <1>1, <1>3, <1>4, <2>1, <2>2, RetrAdvances
  <2>4. Paired(s)'
    BY <1>2, <1>4 DEF Paired
  <2>5. \A t \in Sources : t # s => retrQ'[t] = retrQ[t]
    BY <1>2, <1>4
  <2>6. Ordered(s)'
    BY <2>3, <2>4 DEF Ordered
  <2>7. QED
    BY <1>2, <1>3, <1>4, <2>2, <2>3, <2>5, <2>6, LeavesInv
<1>5. CASE /\ sendQ[s] # <<>> /\ Leaves(s, Head(sendQ[s]), FALSE)
           /\ sendQ' = [sendQ EXCEPT ![s] = Tail(@)] /\ lasthost' = [lasthost EXCEPT ![s] = TRUE]
           /\ retrQ' = retrQ
  <2>1. PICK h \in Frag : h = Head(sendQ[s])
    BY <1>2, <1>5, TailIs
  <2>2. Leaves(s, h, FALSE)
    BY <1>5, <2>1
  <2>3. /\ sendQ' \in [Sources -> Seq(Frag)] /\ (Told(s) /\ Queued(s) /\ Started(s))'
        /\ sendQ'[s] # <<>> => Follows(s, Head(sendQ[s]), Len(log[s]))'
    BY <1>1, <1>3, <1>5, <2>1, <2>2, QueueAdvances
  <2>4. Paired(s)'
    BY <2>3 DEF Paired
  <2>5. \A t \in Sources : t # s => sendQ'[t] = sendQ[t] /\ lasthost'[t] = lasthost[t]
    BY <1>2, <1>5
  <2>6. Ordered(s)'
    BY <2>3, <2>4 DEF Ordered
  <2>7. lasthost' \in [Sources -> BOOLEAN]
    BY <1>2, <1>5
  <2>8. QED
    BY <1>2, <1>3, <1>5, <2>2, <2>3, <2>5, <2>6, <2>7, LeavesInv
<1>6. QED
  BY <1>4, <1>5 DEF PacketSend

(* The second packet of a pair, which follows the first. *)
LEMMA StepPacketSendSecond ==
  ASSUME IInv, NEW s \in Sources, PacketSendSecond(s)
  PROVE  IInv'
<1>1. Types /\ NodeTypes /\ \A t \in Sources : Ordered(t)
  BY DEF IInv
<1>2. /\ sendQ \in [Sources -> Seq(Frag)] /\ sendQ[s] \in Seq(Frag)
      /\ lasthost \in [Sources -> BOOLEAN] /\ lasthost[s] /\ retrQ \in [Sources -> Seq(Frag)]
  BY <1>1 DEF Types, PacketSendSecond
<1>3. /\ calls' = calls /\ UNCHANGED <<nodeVars, boundVars>> /\ retrQ' = retrQ
      /\ lasthost' = [lasthost EXCEPT ![s] = FALSE]
  BY DEF PacketSendSecond, boundVars
<1>4. /\ lasthost' \in [Sources -> BOOLEAN] /\ ~lasthost'[s]
      /\ \A t \in Sources : t # s => lasthost'[t] = lasthost[t]
  BY <1>2, <1>3
<1>5. Paired(s)'
  BY <1>4 DEF Paired
<1>6. CASE sendQ[s] = <<>>
  <2>1. sendQ' = sendQ /\ log' = log /\ net' = net
    BY <1>6 DEF PacketSendSecond
  <2>2. last' = last /\ samples' = samples /\ have' = have
    BY <1>3 DEF nodeVars
  <2>3. Types' /\ NodeTypes' /\ Extends
    BY <1>1, <1>3, <1>4, <2>1, <2>2, SameExtends DEF Types, NodeTypes
  <2>4. Ordered(s)'
    <3>1. Told(s)'
      BY <1>1, <1>3, <2>1 DEF Ordered, Told
    <3>2. Queued(s)'
      BY <1>1, <1>3, <2>1 DEF Ordered, Queued, Once
    <3>3. Started(s)'
      BY <1>1, <1>3, <2>1 DEF Ordered, Started, Once
    <3>4. QED
      BY <1>5, <3>1, <3>2, <3>3 DEF Ordered
  <2>5. ASSUME NEW t \in Sources, t # s PROVE Ordered(t)'
    BY <1>1, <1>3, <1>4, <2>1, <2>5, OthersKeep
  <2>6. Travelling' /\ \A t \in Sources : Recorded(t)' /\ Sampled(t)'
    BY <2>1, <2>2, <2>3, NodeKeeps, NetKeeps
  <2>7. QED
    BY <2>3, <2>4, <2>5, <2>6 DEF IInv
<1>7. CASE sendQ[s] # <<>>
  <2>1. Leaves(s, Head(sendQ[s]), TRUE) /\ sendQ' = [sendQ EXCEPT ![s] = Tail(@)]
    BY <1>7 DEF PacketSendSecond
  <2>2. PICK h \in Frag : h = Head(sendQ[s])
    BY <1>2, <1>7, TailIs
  <2>3. Leaves(s, h, TRUE) /\ Follows(s, h, Len(log[s]))
    BY <1>1, <1>2, <1>7, <2>1, <2>2 DEF Ordered, Paired
  <2>4. sendQ' \in [Sources -> Seq(Frag)] /\ (Told(s) /\ Queued(s) /\ Started(s))'
    BY <1>1, <1>3, <1>7, <2>1, <2>2, <2>3, QueueAdvances DEF Ordered
  <2>5. \A t \in Sources : t # s => sendQ'[t] = sendQ[t]
    BY <1>2, <2>1
  <2>6. Ordered(s)'
    BY <1>5, <2>4 DEF Ordered
  <2>7. QED
    BY <1>2, <1>3, <1>4, <2>3, <2>4, <2>5, <2>6, LeavesInv
<1>8. QED
  BY <1>6, <1>7

(* The node: a sample of a flagged packet and the one recorded before it.  *)
LEMMA SampleIs ==
  ASSUME Types, NEW s \in Sources, NEW l, NEW m, Seen(s, l), Seen(s, m), IsPair(l, m),
         Follows(s, m.x, m.n - 1)
  PROVE  /\ l.n \in 1..Len(log[s]) /\ m.n \in 1..Len(log[s])
         /\ log[s][l.n].b = log[s][m.n].b /\ log[s][l.n].f + 1 = log[s][m.n].f
         /\ m.n = l.n + 1 \/ l.n > m.n \/ calls[<<s, log[s][l.n].b>>] > 1
<1>1. /\ l.n \in 1..Len(log[s]) /\ l.x = log[s][l.n] /\ m.n \in 1..Len(log[s]) /\ m.x = log[s][m.n]
      /\ l.x.b = m.x.b /\ l.x.f + 1 = m.x.f
  BY DEF Seen, IsPair
<1>2. Len(log[s]) \in Nat /\ log[s] \in Seq(Frag) /\ calls \in [Sources \X Blocks -> Nat]
  BY DEF Types
<1>3. \A i \in 1..Len(log[s]) : log[s][i].f \in Int /\ log[s][i].b \in Blocks
  <2>1. \A i \in 1..Len(log[s]) : log[s][i] \in Frag
    BY <1>2, ElementOfSeq
  <2>2. QED
    BY <2>1, SamplesConstants DEF Frag
<1>4. ASSUME l.n < m.n, m.n # l.n + 1, Once(s, m.x.b) PROVE FALSE
  <2>1. l.n \in 1..(m.n - 1) /\ l.n < m.n - 1 /\ m.n - 1 \in 1..Len(log[s])
    BY <1>1, <1>2, <1>4
  <2>2. log[s][m.n - 1].f < m.x.f /\ log[s][l.n].f < log[s][m.n - 1].f
    BY <1>1, <1>4, <2>1 DEF Follows
  <2>3. log[s][l.n].f \in Int /\ log[s][m.n - 1].f \in Int /\ log[s][m.n].f \in Int
    BY <1>1, <1>3, <2>1
  <2>4. log[s][l.n].f + 1 = log[s][m.n].f /\ log[s][m.n - 1].f < log[s][m.n].f
    BY <1>1, <2>2
  <2>5. ASSUME NEW i \in Int, NEW j \in Int, NEW k \in Int, i < j, j < k, i + 1 = k
        PROVE  FALSE
    BY <2>5
  <2>6. QED
    BY <2>2, <2>3, <2>4, <2>5
<1>5. l.n # m.n
  BY <1>1, <1>3
<1>6. calls[<<s, l.x.b>>] \in Nat
  BY <1>1, <1>2, <1>3
<1>7. QED
  BY <1>1, <1>2, <1>4, <1>5, <1>6 DEF Once

(* The processor handles a datagram. *)
LEMMA StepReceive ==
  ASSUME IInv, Receive
  PROVE  IInv'
<1>1. /\ Types /\ NodeTypes /\ Travelling
      /\ \A t \in Sources : Ordered(t) /\ Recorded(t) /\ Sampled(t)
  BY DEF IInv
<1>2. sendQ' = sendQ /\ retrQ' = retrQ /\ lasthost' = lasthost /\ log' = log /\ calls' = calls
  BY DEF Receive, senderVars, boundVars
<1>3. Types' /\ Extends
  BY <1>1, <1>2, SameExtends DEF Types
<1>4. ASSUME NEW t \in Sources PROVE Ordered(t)'
  BY <1>1, <1>2, OthersKeep
<1>5. PICK m \in net : /\ net' = net \ {m}
                       /\ IF m.x \in have THEN UNCHANGED nodeVars
                          ELSE have' = have \cup {m.x} /\ FragmentReceived(m)
  BY DEF Receive
<1>6. Travelling'
  BY <1>3, <1>5, NetKeeps
<1>7. CASE UNCHANGED nodeVars
  <2>1. NodeTypes'
    BY <1>1, <1>5, <1>7 DEF NodeTypes, nodeVars
  <2>2. \A t \in Sources : Recorded(t)' /\ Sampled(t)'
    BY <1>3, <1>7, NodeKeeps DEF nodeVars
  <2>3. QED
    BY <1>3, <1>4, <1>6, <2>1, <2>2 DEF IInv
<1>8. CASE have' = have \cup {m.x} /\ FragmentReceived(m)
  <2>1. /\ m \in Datagram /\ m.s \in Sources /\ m.n \in Nat /\ m.x \in Frag
        /\ Seen(m.s, m) /\ (m.flag => Follows(m.s, m.x, m.n - 1))
    BY <1>1, <1>5 DEF NodeTypes, Travelling, Datagram
  <2>2. PICK s \in Sources : s = m.s
    BY <2>1
  <2>3. last \in [Sources -> Seq(Datagram)] /\ samples \in [Sources -> SUBSET (Nat \X Nat)]
    BY <1>1 DEF NodeTypes
  <2>4. PICK new \in SUBSET (Nat \X Nat) :
          /\ samples' = [samples EXCEPT ![s] = new]
          /\ \A p \in new : \/ p \in samples[s]
                            \/ /\ last[s] # <<>> /\ IsPair(last[s][1], m)
                               /\ p = <<last[s][1].n, m.n>>
    <3>1. CASE last[s] # <<>> /\ IsPair(last[s][1], m)
      <4>1. last[s][1] \in Datagram
        <5>1. last[s] \in Seq(Datagram) /\ 1 \in 1..Len(last[s])
          BY <2>3, <3>1, TailIs
        <5>2. QED
          BY <5>1, ElementOfSeq
      <4>2. last[s][1].n \in Nat
        BY <4>1 DEF Datagram
      <4>3. samples[s] \cup {<<last[s][1].n, m.n>>} \in SUBSET (Nat \X Nat)
        BY <2>1, <2>3, <4>2
      <4>4. samples' = [samples EXCEPT ![s] = samples[s] \cup {<<last[s][1].n, m.n>>}]
        BY <1>8, <2>2, <3>1 DEF FragmentReceived
      <4>5. QED
        BY <3>1, <4>3, <4>4
    <3>2. CASE ~(last[s] # <<>> /\ IsPair(last[s][1], m))
      <4>1. samples' = [samples EXCEPT ![s] = samples[s]]
        BY <1>8, <2>2, <3>2 DEF FragmentReceived
      <4>2. QED
        BY <2>3, <4>1
    <3>3. QED
      BY <3>1, <3>2
  <2>5. last' = [last EXCEPT ![s] = <<m>>]
    BY <1>8, <2>2 DEF FragmentReceived
  <2>6. /\ samples'[s] = new /\ last'[s] = <<m>>
        /\ \A t \in Sources : t # s => samples'[t] = samples[t] /\ last'[t] = last[t]
    BY <2>3, <2>4, <2>5
  <2>7. NodeTypes'
    <3>1. last' \in [Sources -> Seq(Datagram)]
      BY <2>1, <2>3, <2>5
    <3>2. samples' \in [Sources -> SUBSET (Nat \X Nat)]
      BY <2>3, <2>4
    <3>3. QED
      BY <1>1, <1>5, <1>8, <2>1, <3>1, <3>2 DEF NodeTypes
  <2>8. Recorded(s)'
    BY <1>2, <2>1, <2>2, <2>6 DEF Recorded, Seen
  <2>9. Sampled(s)'
    <3> SUFFICES ASSUME NEW p \in new
                 PROVE  /\ p[1] \in 1..Len(log[s]) /\ p[2] \in 1..Len(log[s])
                        /\ log[s][p[1]].b = log[s][p[2]].b /\ log[s][p[1]].f + 1 = log[s][p[2]].f
                        /\ p[2] = p[1] + 1 \/ p[1] > p[2] \/ calls[<<s, log[s][p[1]].b>>] > 1
      BY <1>2, <2>6 DEF Sampled
    <3>1. CASE p \in samples[s]
      BY <1>1, <3>1 DEF Sampled
    <3>2. CASE last[s] # <<>> /\ IsPair(last[s][1], m) /\ p = <<last[s][1].n, m.n>>
      <4>1. Seen(s, last[s][1]) /\ Seen(s, m) /\ Follows(s, m.x, m.n - 1)
        BY <1>1, <2>1, <2>2, <3>2 DEF Recorded, IsPair
      <4>2. p[1] = last[s][1].n /\ p[2] = m.n
        BY <3>2
      <4>3. PICK l : l = last[s][1]
        OBVIOUS
      <4>4. Seen(s, l) /\ IsPair(l, m) /\ p[1] = l.n
        BY <3>2, <4>1, <4>2, <4>3
      <4>5. QED
        BY <1>1, <4>1, <4>2, <4>4, SampleIs
    <3>3. QED
      BY <2>4, <3>1, <3>2
  <2>10. ASSUME NEW t \in Sources, t # s PROVE Recorded(t)' /\ Sampled(t)'
    <3>1. samples'[t] = samples[t] /\ last'[t] = last[t]
      BY <2>6, <2>10
    <3>2. Sampled(t)'
      BY <1>1, <1>3, <3>1, SampledKeeps
    <3>3. Recorded(t)'
      BY <1>1, <1>2, <3>1 DEF Recorded, Seen
    <3>4. QED
      BY <3>2, <3>3
  <2>11. QED
    BY <1>3, <1>4, <1>6, <2>7, <2>8, <2>9, <2>10 DEF IInv
<1>9. QED
  BY <1>5, <1>7, <1>8

(* get_bw_stats takes everything recorded. *)
LEMMA StepFetch ==
  ASSUME IInv, FetchBwEstimations
  PROVE  IInv'
<1>1. Types /\ NodeTypes /\ \A t \in Sources : Ordered(t)
  BY DEF IInv
<1>2. /\ sendQ' = sendQ /\ retrQ' = retrQ /\ lasthost' = lasthost /\ log' = log /\ calls' = calls
      /\ net' = net /\ have' = have
      /\ last' = [s \in Sources |-> <<>>] /\ samples' = [s \in Sources |-> {}]
  BY DEF FetchBwEstimations, senderVars, boundVars
<1>3. Types' /\ Extends
  BY <1>1, <1>2, SameExtends DEF Types
<1>4. NodeTypes'
  BY <1>1, <1>2 DEF NodeTypes
<1>5. ASSUME NEW t \in Sources PROVE Ordered(t)'
  BY <1>1, <1>2, OthersKeep
<1>6. Travelling'
  BY <1>2, <1>3, NetKeeps
<1>7. \A t \in Sources : Recorded(t)' /\ Sampled(t)'
  BY <1>2 DEF Recorded, Sampled
<1>8. QED
  BY <1>3, <1>4, <1>5, <1>6, <1>7 DEF IInv

-----------------------------------------------------------------------------
(* The theorems.                                                           *)

(* Nothing is queued, sent or recorded at first. *)
LEMMA InitInv == Init => IInv
<1> SUFFICES ASSUME Init PROVE IInv
  OBVIOUS
<1>1. /\ sendQ = [s \in Sources |-> <<>>] /\ retrQ = [s \in Sources |-> <<>>]
      /\ lasthost = [s \in Sources |-> FALSE] /\ log = [s \in Sources |-> <<>>]
      /\ net = {} /\ have = {} /\ last = [s \in Sources |-> <<>>]
      /\ samples = [s \in Sources |-> {}] /\ calls = [c \in Sources \X Blocks |-> 0]
  BY DEF Init
<1>2. Types
  BY <1>1 DEF Types
<1>3. NodeTypes
  BY <1>1 DEF NodeTypes
<1>4. Travelling
  BY <1>1 DEF Travelling
<1>5. ASSUME NEW s \in Sources PROVE Ordered(s) /\ Recorded(s) /\ Sampled(s)
  <2>1. /\ sendQ[s] = <<>> /\ retrQ[s] = <<>> /\ log[s] = <<>> /\ last[s] = <<>>
        /\ samples[s] = {} /\ Len(sendQ[s]) = 0 /\ Len(retrQ[s]) = 0 /\ Len(log[s]) = 0
    BY <1>1
  <2>2. 1..Len(sendQ[s]) = {} /\ 1..Len(retrQ[s]) = {} /\ 1..Len(log[s]) = {}
    BY <2>1
  <2>3. QED
    BY <2>1, <2>2 DEF Ordered, Told, Queued, Started, Paired, Recorded, Sampled
<1>6. QED
  BY <1>2, <1>3, <1>4, <1>5 DEF IInv

(* Every step of a source or of the node keeps the invariant. *)
LEMMA StepInv == IInv /\ [Next]_vars => IInv'
<1> SUFFICES ASSUME IInv, [Next]_vars PROVE IInv'
  OBVIOUS
<1>1. CASE \E s \in Sources : Source(s)
  BY <1>1, StepSendBlock, StepRetransmit, StepPacketSend, StepPacketSendSecond DEF Source
<1>2. CASE Receive
  BY <1>2, StepReceive
<1>3. CASE FetchBwEstimations
  BY <1>3, StepFetch
<1>4. CASE vars' = vars
  <2>1. Types' /\ NodeTypes'
    BY <1>4 DEF IInv, Types, NodeTypes, vars, senderVars, nodeVars, boundVars
  <2>2. Extends /\ net' = net /\ last' = last /\ samples' = samples
    BY <1>4, SameExtends DEF IInv, vars, senderVars, nodeVars, boundVars
  <2>3. Travelling' /\ \A t \in Sources : Recorded(t)' /\ Sampled(t)'
    BY <2>1, <2>2, NodeKeeps, NetKeeps
  <2>4. ASSUME NEW t \in Sources PROVE Ordered(t)'
    <3>1. Ordered(t)
      BY DEF IInv
    <3>2. /\ sendQ'[t] = sendQ[t] /\ retrQ'[t] = retrQ[t] /\ log'[t] = log[t]
          /\ lasthost'[t] = lasthost[t] /\ \A b : calls'[<<t, b>>] = calls[<<t, b>>]
      BY <1>4 DEF vars, senderVars, boundVars
    <3>3. QED
      BY <3>1, <3>2, OthersKeep
  <2>5. QED
    BY <2>1, <2>3, <2>4 DEF IInv
<1>5. QED
  BY <1>1, <1>2, <1>3, <1>4 DEF Next

(* The order in which the sources send and what the node makes of it, for  *)
(* any sources, blocks and fragments.                                      *)
THEOREM SamplesHold == Spec => []IInv
BY InitInv, StepInv, PTL DEF Spec

(* A sample is of two neighbouring fragments of a block that left back to  *)
(* back, unless the first was sent again and overtook the second or the    *)
(* source was told twice to send the block, however many sources,          *)
(* fragments and retransmissions there are and whatever the network loses  *)
(* or reorders.                                                            *)
THEOREM BackToBackCorrect == Spec => []SamplesAreBackToBack
<1>1. IInv => SamplesAreBackToBack
  BY DEF IInv, Sampled, SamplesAreBackToBack
<1>2. QED
  BY <1>1, SamplesHold, PTL
=============================================================================
