-------------------------- MODULE BlockCacheProofs --------------------------

(***************************************************************************)
(* Proofs about the block cache: the locks never make a cycle, and what    *)
(* was acknowledged, announced and stored agree, for any blocks, contents, *)
(* calls and fragments.                                                    *)
(***************************************************************************)
EXTENDS BlockCache, SequenceTheorems, WellFoundedInduction, TLAPS

(* The places of the application and those of the processor. *)
ProcPlaces == {"idle", "find", "walk", "found"}

AppPlaces == ProcPlaces \cup {"delete", "free", "list", "listing"}

(* The values of the variables that say who is where. *)
Places ==
  /\ used \in 0..MaxNodes
  /\ list \in Seq(1..used)
  /\ owner \in [Addr -> Users \cup {"none"}]
  /\ readers \subseteq Users
  /\ pc \in [Users -> AppPlaces] /\ pc["proc"] \in ProcPlaces
  /\ cur \in [Users -> (1..used) \cup {Null}]
  /\ ub \in BOOLEAN

(* rwlock is held for reading while walking the list, the lock of a block  *)
(* only by who has found it.                                               *)
Locks ==
  /\ \A u \in Users : u \in readers <=> pc[u] \in {"walk", "listing"}
  /\ \A a \in Addr : \A u \in Users : owner[a] = u => pc[u] = "found" /\ cur[u] = a

Block == [id : Ids \cup {"none"}, fn : Nat, have : SUBSET Nat, lastlen : {Unset} \cup 0..MTU,
          length : Nat, by : {"app", "proc", "none"}, first : Nat]

(* The blocks, and that no address is twice in the list. *)
Blocks ==
  /\ node \in [Addr -> Block]
  /\ \A a \in Addr : node[a].have \subseteq 0..(node[a].fn - 1)
  /\ \A a \in 1..used : node[a].by = "app" => Complete(node[a])
  /\ \A i, j \in 1..Len(list) : list[i] = list[j] => i = j

(* A fragment as the processor works on it. *)
Task == [kind : {"cons", "frag", "complete"}, id : Ids, fid : Nat, fn : Nat, len : 0..MTU]

Fits(o) == o.fid < o.fn /\ (o.fid # o.fn - 1 => o.len = MTU)

(* A walk through the list of blocks. *)
Listing == [kind : {"list"}, complete : BOOLEAN, at : Nat]

(* What the two users are doing. *)
Ops ==
  /\ op = [u \in Users |-> op[u]]
  /\ pc["app"] \in {"find", "walk", "found"} /\ op["app"].kind = "add" =>
       op["app"].id \in Ids /\ op["app"].len \in AddLengths
  /\ pc["app"] \in {"list", "listing"} => op["app"] \in Listing
  /\ pc["proc"] # "idle" => op["proc"] \in Task /\ Fits(op["proc"])

(* Two blocks in the list have one identifier only after a race. *)
Alone ==
  \A a, b \in InList : a # b /\ node[a].id = node[b].id => node[a].id \in raced

(* The block the processor has found or has just stored a fragment in, is  *)
(* the one it works on; it is gone from the list only after a race.        *)
Same(a) ==
  /\ node[a].id = op["proc"].id
  /\ a \in InList \/ op["proc"].id \in raced

Stored1 == pc["proc"] \in {"find", "walk"} /\ op["proc"].kind = "complete"

AtHand ==
  /\ pc["proc"] = "found" /\ cur["proc"] # Null => Same(cur["proc"])
  /\ Stored1 => cur["proc"] # Null /\ Same(cur["proc"])
  /\ pc["proc"] = "found" /\ op["proc"].kind = "complete" /\ cur["proc"] = Null
       => op["proc"].id \in raced

(* Block a has the fragments that ack k stands for, up to m. *)
Covers(a, k, m) == node[a].fn # k.fn \/ (k.fid - k.cons)..m \subseteq node[a].have

(* The cache has the fragments that k acknowledges. *)
Covered(k) == k.id \in raced \/ \E a \in Holders(k.id) : Covers(a, k, k.fid)

(* The fragment that k acknowledges is being stored. *)
Storing(k) ==
  /\ pc["proc"] # "idle" /\ op["proc"].kind = "frag"
  /\ op["proc"].id = k.id /\ op["proc"].fid = k.fid /\ op["proc"].fn = k.fn
  /\ IF pc["proc"] = "found"
     THEN IF cur["proc"] = Null THEN k.cons = 0 ELSE Covers(cur["proc"], k, k.fid - 1)
     ELSE k.cons = 0 \/ \E a \in Holders(k.id) : Covers(a, k, k.fid - 1)

Kept ==
  /\ acks \subseteq [id : Ids, fid : Nat, fn : Nat, cons : Nat]
  /\ \A k \in acks : Covered(k) \/ Storing(k)

(* Block b is before block a in the list. *)
Before(b, a) == \E i, j \in 1..Len(list) : i < j /\ list[i] = b /\ list[j] = a

(* Whatever a search would find in place of block a is complete. *)
Front(a) == \A b \in InList : Before(b, a) /\ node[b].id = node[a].id => Complete(node[b])

(* The announcement of block a is still to come. *)
Due(a) ==
  /\ pc["proc"] # "idle" /\ op["proc"].kind = "complete" /\ node[a].id = op["proc"].id
  /\ IF pc["proc"] = "found" THEN cur["proc"] # Null /\ Complete(node[cur["proc"]])
                             ELSE cur["proc"] = a

(* The announcement of block a was made or is due. *)
Announced(a) ==
  node[a].by = "proc" /\ Complete(node[a]) => (\E t \in told : t.id = node[a].id) \/ Due(a)

Told ==
  /\ \A t \in told : t.id \in raced \/ (t.at \in 1..used /\ Complete(node[t.at]))
  /\ \A a \in InList : Announced(a)
  /\ Stored1 \/ (pc["proc"] = "found" /\ op["proc"].kind = "frag" /\ cur["proc"] # Null)
       => Front(cur["proc"])

IInv == Places /\ Locks /\ Blocks /\ Ops /\ Alone /\ AtHand /\ Kept /\ Told

-----------------------------------------------------------------------------
(* The list.                                                               *)

(* A set of natural numbers has a least one. *)
LEMMA Least ==
  ASSUME NEW T, T \subseteq Nat, T # {}
  PROVE  \E x \in T : \A y \in T : x <= y
<1>1. PICK x \in T : \A y \in T : <<y, x>> \notin OpToRel(<, Nat)
  <2>1. IsWellFoundedOn(OpToRel(<, Nat), Nat)
    BY NatLessThanWellFounded
  <2> HIDE DEF OpToRel
  <2>2. QED
    BY <2>1, WFMin
<1>2. \A y \in T : ~(y < x)
  BY <1>1 DEF OpToRel
<1>3. QED
  BY <1>2

(* What deleteblock leaves of the list. *)
LEMMA RemoveOne ==
  ASSUME NEW S, NEW s \in Seq(S), NEW i \in 1..Len(s)
  PROVE  LET r == SubSeq(s, 1, i - 1) \o SubSeq(s, i + 1, Len(s))
         IN  /\ r \in Seq(S) /\ Len(r) = Len(s) - 1
             /\ \A j \in 1..Len(r) : r[j] = IF j < i THEN s[j] ELSE s[j + 1]
<1>1. /\ SubSeq(s, 1, i - 1) \in Seq(S) /\ Len(SubSeq(s, 1, i - 1)) = i - 1
      /\ \A j \in 1..i-1 : SubSeq(s, 1, i - 1)[j] = s[j]
  OBVIOUS
<1>2. /\ SubSeq(s, i + 1, Len(s)) \in Seq(S) /\ Len(SubSeq(s, i + 1, Len(s))) = Len(s) - i
      /\ \A j \in 1..Len(s)-i : SubSeq(s, i + 1, Len(s))[j] = s[i + j]
  OBVIOUS
<1> DEFINE a == SubSeq(s, 1, i - 1)
           b == SubSeq(s, i + 1, Len(s))
<1> HIDE DEF a, b
<1>a. a \in Seq(S) /\ b \in Seq(S) /\ Len(a) = i - 1 /\ Len(b) = Len(s) - i
  BY <1>1, <1>2 DEF a, b
<1>3. a \o b \in Seq(S) /\ Len(a \o b) = Len(a) + Len(b)
      /\ \A j \in 1..Len(a)+Len(b) : (a \o b)[j] = IF j <= Len(a) THEN a[j] ELSE b[j - Len(a)]
  BY <1>a, ConcatProperties
<1>4. Len(a \o b) = Len(s) - 1
  BY <1>a, <1>3
<1>5. ASSUME NEW j \in 1..Len(a \o b)
      PROVE  (a \o b)[j] = IF j < i THEN s[j] ELSE s[j + 1]
  <2>1. CASE j < i
    <3>1. (a \o b)[j] = a[j]
      BY <1>1, <1>2, <1>3, <1>4, <2>1 DEF a
    <3>2. QED
      BY <1>1, <2>1, <3>1 DEF a
  <2>2. CASE ~(j < i)
    <3>1. (a \o b)[j] = b[j - (i - 1)]
      BY <1>1, <1>2, <1>3, <1>4, <2>2 DEF a
    <3>2. j - (i - 1) \in 1..Len(s)-i /\ i + (j - (i - 1)) = j + 1
      BY <1>4, <2>2
    <3>3. b[j - (i - 1)] = s[i + (j - (i - 1))]
      BY <1>2, <3>2 DEF b
    <3>4. QED
      BY <2>2, <3>1, <3>2, <3>3
  <2>3. QED
    BY <2>1, <2>2
<1>6. QED
  BY <1>3, <1>4, <1>5 DEF a, b

(* findblock finds a block with the identifier and no such block is before *)
(* it.                                                                     *)
LEMMA FindFirst ==
  ASSUME Places, Blocks, NEW id, Holders(id) # {}
  PROVE  /\ FindBlock(id) \in Holders(id) /\ FindBlock(id) \in 1..used
         /\ \A b : Before(b, FindBlock(id)) => node[b].id # id
<1> DEFINE T == {i \in 1..Len(list) : node[list[i]].id = id}
<1>0. list \in Seq(1..used) /\ Len(list) \in Nat
  BY DEF Places
<1>1. T # {} /\ T \subseteq Nat
  BY <1>0 DEF Holders, InList
<1>2. PICK x \in T : \A y \in T : x <= y
  BY <1>1, Least
<1>3. /\ x \in 1..Len(list) /\ node[list[x]].id = id
      /\ \A j \in 1..(x-1) : node[list[j]].id # id
  BY <1>0, <1>2
<1> DEFINE first == CHOOSE i \in 1..Len(list) : /\ node[list[i]].id = id
                                                /\ \A j \in 1..(i-1) : node[list[j]].id # id
<1>4. /\ first \in 1..Len(list) /\ node[list[first]].id = id
      /\ \A j \in 1..(first-1) : node[list[j]].id # id
  BY <1>3
<1>5. FindBlock(id) = list[first]
  BY DEF FindBlock
<1> HIDE DEF first
<1>6. list[first] \in Holders(id) /\ list[first] \in 1..used
  <2>1. list[first] \in 1..used
    BY <1>0, <1>4, ElementOfSeq
  <2>2. list[first] \in InList
    BY <1>4 DEF InList
  <2>3. QED
    BY <1>4, <2>1, <2>2 DEF Holders
<1>7. ASSUME NEW b, Before(b, list[first]) PROVE node[b].id # id
  <2>1. PICK k, l \in 1..Len(list) : k < l /\ list[k] = b /\ list[l] = list[first]
    BY <1>7 DEF Before
  <2>2. l = first
    BY <1>4, <2>1 DEF Blocks
  <2>3. QED
    BY <1>0, <1>4, <2>1, <2>2
<1>8. QED
  BY <1>5, <1>6, <1>7

(* findblock always returns a block of the list or none. *)
LEMMA FindType ==
  ASSUME Places, Blocks, NEW id
  PROVE  FindBlock(id) \in (1..used) \cup {Null} /\ (FindBlock(id) = Null <=> Holders(id) = {})
<1>1. CASE Holders(id) = {}
  BY <1>1 DEF FindBlock
<1>2. CASE Holders(id) # {}
  <2>1. FindBlock(id) \in 1..used
    BY <1>2, FindFirst
  <2>2. FindBlock(id) # Null
    BY <2>1 DEF Null
  <2>3. QED
    BY <1>2, <2>1, <2>2
<1>3. QED
  BY <1>1, <1>2

-----------------------------------------------------------------------------
(* The locks.                                                              *)

(* User u goes to place x with the locks that belong to it there. *)
Move(u, x) ==
  /\ pc' = [pc EXCEPT ![u] = x]
  /\ cur' \in [Users -> (1..used') \cup {Null}]
  /\ \A v \in Users \ {u} : (v \in readers' <=> v \in readers) /\ cur'[v] = cur[v]
  /\ readers' \subseteq Users /\ (u \in readers' <=> x \in {"walk", "listing"})
  /\ owner' \in [Addr -> Users \cup {"none"}]
  /\ \A a \in Addr : /\ owner'[a] \in {owner[a], u, "none"}
                     /\ owner'[a] = u => x = "found" /\ cur'[u] = a

(* Such a step keeps the discipline of the locks. *)
LEMMA MoveLocks ==
  ASSUME Places, Locks, NEW u \in Users, NEW x \in AppPlaces, Move(u, x), u = "proc" => x \in ProcPlaces
  PROVE  Locks' /\ pc' \in [Users -> AppPlaces] /\ pc'["proc"] \in ProcPlaces
<1>1. pc' \in [Users -> AppPlaces] /\ \A v \in Users : pc'[v] = IF v = u THEN x ELSE pc[v]
  BY DEF Places, Move
<1>2. pc'["proc"] \in ProcPlaces
  BY <1>1 DEF Places, Users
<1>3. \A v \in Users : v \in readers' <=> pc'[v] \in {"walk", "listing"}
  BY <1>1 DEF Locks, Move
<1>4. ASSUME NEW a \in Addr, NEW v \in Users, owner'[a] = v PROVE pc'[v] = "found" /\ cur'[v] = a
  <2>1. CASE v = u
    BY <1>1, <1>4, <2>1 DEF Move
  <2>2. CASE v # u
    <3>1. owner[a] = v
      BY <1>4, <2>2 DEF Move, Users
    <3>2. QED
      BY <1>1, <2>2, <3>1 DEF Move, Locks
  <2>3. QED
    BY <2>1, <2>2
<1>5. QED
  BY <1>1, <1>2, <1>3, <1>4 DEF Locks

(* Whoever has not found a block has no lock of one. *)
LEMMA NotFound ==
  ASSUME Places, Locks, NEW u \in Users, pc[u] # "found"
  PROVE  \A a \in Addr : owner[a] # u
BY DEF Locks

(* A step without locks of blocks. *)
LEMMA MoveFree ==
  ASSUME Places, Locks, NEW u \in Users, NEW x \in AppPlaces, pc[u] # "found",
         pc' = [pc EXCEPT ![u] = x], owner' = owner,
         cur' \in [Users -> (1..used') \cup {Null}], \A v \in Users \ {u} : cur'[v] = cur[v],
         \A v \in Users \ {u} : v \in readers' <=> v \in readers,
         readers' \subseteq Users, u \in readers' <=> x \in {"walk", "listing"}
  PROVE  Move(u, x)
<1>1. \A a \in Addr : owner[a] # u
  BY NotFound
<1>2. owner \in [Addr -> Users \cup {"none"}]
  BY DEF Places
<1>3. QED
  BY <1>1, <1>2 DEF Move

(* The lock of the block at hand is released. *)
LEMMA MoveRelease ==
  ASSUME Places, Locks, NEW u \in Users, NEW x \in {"idle", "find"}, pc[u] = "found",
         Release(u, x), readers' = readers, used' \in Nat, used' >= used
  PROVE  Move(u, x)
<1>1. owner \in [Addr -> Users \cup {"none"}] /\ cur \in [Users -> (1..used) \cup {Null}]
      /\ readers \subseteq Users /\ u \notin readers /\ used \in Nat
  BY DEF Places, Locks
<1>2. \A a \in Addr : owner[a] = u => cur[u] = a
  BY DEF Locks
<1>3. /\ owner' \in [Addr -> Users \cup {"none"}]
      /\ \A a \in Addr : owner'[a] = IF a = cur[u] THEN "none" ELSE owner[a]
  <2>1. Null \notin Addr
    BY DEF Null, Addr
  <2>2. CASE cur[u] = Null
    BY <1>1, <2>1, <2>2 DEF Release
  <2>3. CASE cur[u] # Null
    BY <1>1, <2>3 DEF Release
  <2>4. QED
    BY <2>2, <2>3
<1>4. /\ cur' \in [Users -> (1..used) \cup {Null}]
      /\ \A v \in Users \ {u} : cur'[v] = cur[v]
  BY <1>1 DEF Release
<1>5. cur' \in [Users -> (1..used') \cup {Null}]
  BY <1>1, <1>4
<1>6. \A a \in Addr : owner'[a] \in {owner[a], u, "none"} /\ owner'[a] # u
  <2>1. "none" # u
    BY DEF Users
  <2>2. QED
    BY <1>2, <1>3, <2>1
<1>7. pc' = [pc EXCEPT ![u] = x]
  BY DEF Release
<1>8. QED
  BY <1>1, <1>3, <1>4, <1>5, <1>6, <1>7 DEF Move

(* A block goes into the list. *)
LEMMA InsertList ==
  ASSUME Places, NEW b, Insert(b)
  PROVE  /\ used' = used + 1 /\ used' \in 0..MaxNodes /\ list' \in Seq(1..used')
         /\ Len(list') = Len(list) + 1 /\ list'[1] = used + 1
         /\ \A i \in 1..Len(list) : list'[i + 1] = list[i]
         /\ \A i \in 2..Len(list') : list'[i] = list[i - 1]
<1>1. used \in Nat /\ MaxNodes \in Nat /\ used < MaxNodes /\ used' = used + 1
  BY CacheConstantsOK DEF Places, Insert
<1>2. list \in Seq(1..used') /\ <<used + 1>> \in Seq(1..used')
  <2>1. list \in Seq(1..used)
    BY DEF Places
  <2>2. 1..used \subseteq 1..used' /\ used + 1 \in 1..used'
    BY <1>1
  <2>3. list \in Seq(1..used')
    BY <2>1, <2>2, SeqMonotonic
  <2>4. QED
    BY <2>2, <2>3
<1>3. list' = <<used + 1>> \o list
  BY DEF Insert
<1> DEFINE S == 1..used'
<1>4. /\ list' \in Seq(S) /\ Len(list') = 1 + Len(list)
      /\ \A i \in 1..(1 + Len(list)) : list'[i] = IF i <= 1 THEN <<used + 1>>[i] ELSE list[i - 1]
  <2> HIDE DEF S
  <2>1. list \in Seq(S) /\ <<used + 1>> \in Seq(S) /\ Len(<<used + 1>>) = 1
    BY <1>2 DEF S
  <2>2. QED
    BY <1>3, <2>1, ConcatProperties
<1>5. Len(list) \in Nat
  BY <1>2
<1>6. QED
  BY <1>1, <1>4, <1>5

(* findblock takes the lock of the block it finds. *)
LEMMA FindLockMove ==
  ASSUME Places, Locks, Blocks, NEW u \in Users, FindLock(u)
  PROVE  Move(u, "found")
<1> DEFINE n == FindBlock(op[u].id)
<1>1. n \in (1..used) \cup {Null}
  BY FindType
<1>2. /\ pc[u] = "walk" /\ pc' = [pc EXCEPT ![u] = "found"] /\ readers' = readers \ {u}
      /\ cur' = [cur EXCEPT ![u] = n] /\ used' = used
      /\ owner' = IF n = Null THEN owner ELSE [owner EXCEPT ![n] = u]
  BY DEF FindLock, cacheVars
<1> HIDE DEF n
<1>3. owner \in [Addr -> Users \cup {"none"}] /\ cur \in [Users -> (1..used) \cup {Null}]
      /\ readers \subseteq Users
  BY DEF Places
<1>4. \A a \in Addr : owner[a] # u
  BY <1>2, NotFound
<1>5. /\ cur' \in [Users -> (1..used') \cup {Null}] /\ cur'[u] = n
      /\ \A v \in Users \ {u} : cur'[v] = cur[v]
  BY <1>1, <1>2, <1>3
<1>6. /\ owner' \in [Addr -> Users \cup {"none"}]
      /\ \A a \in Addr : owner'[a] = IF a = n THEN u ELSE owner[a]
  <2>1. Null \notin Addr
    BY DEF Null, Addr
  <2>2. CASE n = Null
    BY <1>2, <1>3, <2>1, <2>2
  <2>3. CASE n # Null
    BY <1>2, <1>3, <2>3
  <2>4. QED
    BY <2>2, <2>3
<1>7. QED
  BY <1>2, <1>3, <1>4, <1>5, <1>6 DEF Move

(* A block goes out of the list: the first with the identifier behind the  *)
(* head, at position i.                                                    *)
LEMMA DeleteList ==
  ASSUME Places, DeleteBlock
  PROVE  \/ list' = list /\ cur' = cur /\ raced' = raced /\ pc' = [pc EXCEPT !["app"] = "idle"]
         \/ \E i \in 1..Len(list) :
              /\ node[list[i]].id = op["app"].id /\ raced' = raced \cup {op["app"].id}
              /\ cur' = [cur EXCEPT !["app"] = list[i]] /\ list[i] \in 1..used
              /\ list' \in Seq(1..used) /\ Len(list') = Len(list) - 1
              /\ \A j \in 1..Len(list') : list'[j] = IF j < i THEN list[j] ELSE list[j + 1]
              /\ pc' = [pc EXCEPT !["app"] = "free"]
<1> DEFINE hits == {i \in 2..Len(list) : node[list[i]].id = op["app"].id}
<1>1. list \in Seq(1..used) /\ Len(list) \in Nat
  BY DEF Places
<1>2. CASE hits = {}
  BY <1>2 DEF DeleteBlock
<1>3. CASE hits # {}
  <2> DEFINE i == CHOOSE i \in hits : \A j \in hits : i <= j
  <2>1. hits \subseteq Nat
    BY <1>1
  <2>2. \E m \in hits : \A j \in hits : m <= j
    <3> HIDE DEF hits
    <3>1. QED
      BY <1>3, <2>1, Least
  <2>3. i \in hits
    BY <2>2
  <2>4. /\ list' = SubSeq(list, 1, i - 1) \o SubSeq(list, i + 1, Len(list))
        /\ cur' = [cur EXCEPT !["app"] = list[i]] /\ raced' = raced \cup {op["app"].id}
        /\ pc' = [pc EXCEPT !["app"] = "free"]
    BY <1>3 DEF DeleteBlock
  <2> HIDE DEF i
  <2>5. i \in 1..Len(list) /\ node[list[i]].id = op["app"].id
    BY <1>1, <2>3
  <2>6. list[i] \in 1..used
    BY <1>1, <2>5, ElementOfSeq
  <2>7. /\ list' \in Seq(1..used) /\ Len(list') = Len(list) - 1
        /\ \A j \in 1..Len(list') : list'[j] = IF j < i THEN list[j] ELSE list[j + 1]
    <3> DEFINE S == 1..used
    <3>1. list \in Seq(S)
      BY <1>1
    <3> HIDE DEF S
    <3>2. /\ list' \in Seq(S) /\ Len(list') = Len(list) - 1
          /\ \A j \in 1..Len(list') : list'[j] = IF j < i THEN list[j] ELSE list[j + 1]
      BY <2>4, <2>5, <3>1, RemoveOne
    <3>3. QED
      BY <3>2 DEF S
  <2>8. QED
    BY <2>4, <2>5, <2>6, <2>7
<1>4. QED
  BY <1>2, <1>3

(* Where the application goes, with which locks. *)
LEMMA AppMoves ==
  ASSUME IInv, App
  PROVE  \E x \in AppPlaces : Move("app", x)
<1>a. Places /\ Locks /\ Blocks /\ "app" \in Users
  BY DEF IInv, Users
<1>b. /\ pc \in [Users -> AppPlaces] /\ cur \in [Users -> (1..used) \cup {Null}]
      /\ readers \subseteq Users /\ used \in Nat
      /\ "app" \in readers <=> pc["app"] \in {"walk", "listing"}
  BY <1>a DEF Places, Locks
<1>1. CASE CallAdd \/ CallSend \/ CallContent \/ CallDelete \/ CallList
  <2>1. PICK x \in {"find", "delete", "list"} : \E r : AppCall(r, x)
    BY <1>1 DEF CallAdd, CallSend, CallContent, CallDelete, CallList
  <2>2. /\ pc["app"] = "idle" /\ pc' = [pc EXCEPT !["app"] = x] /\ owner' = owner /\ cur' = cur
        /\ readers' = readers /\ used' = used
    BY <2>1 DEF AppCall, cacheVars
  <2>3. x \in AppPlaces
    BY DEF AppPlaces, ProcPlaces
  <2>4. QED
    BY <1>a, <1>b, <2>2, <2>3, MoveFree
<1>2. CASE FindRdLock("app") \/ ListRdLock
  <2>1. PICK x \in {"walk", "listing"} : pc' = [pc EXCEPT !["app"] = x]
    BY <1>2 DEF FindRdLock, ListRdLock
  <2>2. /\ pc["app"] # "found" /\ owner' = owner /\ cur' = cur
        /\ readers' = readers \cup {"app"} /\ used' = used
    BY <1>2 DEF FindRdLock, ListRdLock, cacheVars
  <2>3. x \in AppPlaces
    BY DEF AppPlaces, ProcPlaces
  <2>4. QED
    BY <1>a, <1>b, <2>1, <2>2, <2>3, MoveFree
<1>3. CASE FindLock("app")
  BY <1>a, <1>3, FindLockMove DEF AppPlaces, ProcPlaces
<1>4. CASE AddBlock \/ SendBlock \/ GetBlockData
  <2>1. pc["app"] = "found" /\ Release("app", "idle") /\ readers' = readers
    BY <1>4 DEF AddBlock, SendBlock, GetBlockData, AppFound
  <2>2. used' \in Nat /\ used' >= used
    BY <1>b, <1>4 DEF AddBlock, SendBlock, GetBlockData, Insert, cacheVars
  <2>3. Move("app", "idle")
    BY <1>a, <2>1, <2>2, MoveRelease
  <2>4. QED
    BY <2>3 DEF AppPlaces, ProcPlaces
<1>5. CASE DeleteBlock
  <2>1. PICK x \in {"idle", "free"} : pc' = [pc EXCEPT !["app"] = x]
    BY <1>a, <1>5, DeleteList
  <2>2. /\ cur' \in [Users -> (1..used) \cup {Null}]
        /\ \A v \in Users \ {"app"} : cur'[v] = cur[v]
    BY <1>a, <1>b, <1>5, DeleteList
  <2>3. pc["app"] = "delete" /\ owner' = owner /\ readers' = readers /\ used' = used
    BY <1>5 DEF DeleteBlock
  <2>4. x \in AppPlaces
    BY DEF AppPlaces, ProcPlaces
  <2>5. QED
    BY <1>a, <1>b, <2>1, <2>2, <2>3, <2>4, MoveFree
<1>6. CASE FreeBlock
  <2>1. /\ pc["app"] = "free" /\ pc' = [pc EXCEPT !["app"] = "idle"] /\ owner' = owner
        /\ cur' = [cur EXCEPT !["app"] = Null] /\ readers' = readers /\ used' = used
    BY <1>6 DEF FreeBlock, cacheVars
  <2>2. "idle" \in AppPlaces
    BY DEF AppPlaces, ProcPlaces
  <2>3. /\ cur' \in [Users -> (1..used') \cup {Null}]
        /\ \A v \in Users \ {"app"} : cur'[v] = cur[v]
    BY <1>b, <2>1
  <2>4. QED
    BY <1>a, <1>b, <2>1, <2>2, <2>3, MoveFree
<1>7. CASE ListNext
  <2>1. pc["app"] = "listing" /\ owner' = owner /\ cur' = cur /\ used' = used
    BY <1>7 DEF ListNext, cacheVars
  <2>2. \/ readers' = readers \ {"app"} /\ pc' = [pc EXCEPT !["app"] = "idle"]
        \/ readers' = readers /\ pc' = pc
    BY <1>7 DEF ListNext
  <2>3. \/ readers' = readers \ {"app"} /\ pc' = [pc EXCEPT !["app"] = "idle"]
        \/ readers' = readers /\ pc' = [pc EXCEPT !["app"] = "listing"]
    BY <1>b, <2>1, <2>2
  <2>4. "idle" \in AppPlaces /\ "listing" \in AppPlaces
    BY DEF AppPlaces, ProcPlaces
  <2>5. CASE readers' = readers \ {"app"} /\ pc' = [pc EXCEPT !["app"] = "idle"]
    <3>1. Move("app", "idle")
      BY <1>a, <1>b, <2>1, <2>4, <2>5, MoveFree
    <3>2. QED
      BY <2>4, <3>1
  <2>6. CASE readers' = readers /\ pc' = [pc EXCEPT !["app"] = "listing"]
    <3>1. Move("app", "listing")
      BY <1>a, <1>b, <2>1, <2>4, <2>6, MoveFree
    <3>2. QED
      BY <2>4, <3>1
  <2>7. QED
    BY <2>3, <2>5, <2>6
<1>8. QED
  BY <1>1, <1>2, <1>3, <1>4, <1>5, <1>6, <1>7 DEF App

(* Where the processor goes. *)
LEMMA ProcMoves ==
  ASSUME IInv, Proc
  PROVE  \E x \in ProcPlaces : Move("proc", x)
<1>a. Places /\ Locks /\ Blocks /\ "proc" \in Users /\ ProcPlaces \subseteq AppPlaces
  BY DEF IInv, Users, AppPlaces
<1>b. /\ pc \in [Users -> AppPlaces] /\ cur \in [Users -> (1..used) \cup {Null}]
      /\ readers \subseteq Users /\ used \in Nat
      /\ "proc" \in readers <=> pc["proc"] \in {"walk", "listing"}
  BY <1>a DEF Places, Locks
<1>c. {"idle", "find", "walk", "found"} \subseteq ProcPlaces
  BY DEF ProcPlaces
<1>1. CASE Receive
  <2>1. /\ pc["proc"] = "idle" /\ pc' = [pc EXCEPT !["proc"] = "find"] /\ owner' = owner
        /\ cur' = cur /\ readers' = readers /\ used' = used
    BY <1>1 DEF Receive, cacheVars
  <2>2. QED
    BY <1>a, <1>b, <1>c, <2>1, MoveFree
<1>2. CASE FindRdLock("proc")
  <2>1. /\ pc["proc"] = "find" /\ pc' = [pc EXCEPT !["proc"] = "walk"] /\ owner' = owner
        /\ cur' = cur /\ readers' = readers \cup {"proc"} /\ used' = used
    BY <1>2 DEF FindRdLock, cacheVars
  <2>2. QED
    BY <1>a, <1>b, <1>c, <2>1, MoveFree
<1>3. CASE FindLock("proc")
  BY <1>a, <1>c, <1>3, FindLockMove
<1>4. CASE Acknowledge \/ Announce
  <2>1. PICK x \in {"idle", "find"} : Release("proc", x)
    BY <1>4 DEF Acknowledge, Announce
  <2>2. pc["proc"] = "found" /\ readers' = readers /\ used' = used
    BY <1>4 DEF Acknowledge, Announce, ProcFound, cacheVars
  <2>3. Move("proc", x)
    BY <1>a, <1>b, <2>1, <2>2, MoveRelease
  <2>4. QED
    BY <1>c, <2>3
<1>5. CASE AddFragmentNew
  <2>1. /\ pc["proc"] = "found" /\ cur["proc"] = Null /\ owner' = owner /\ readers' = readers
    BY <1>5 DEF AddFragmentNew, ProcFound
  <2>2. PICK x \in {"idle", "find"} :
          /\ pc' = [pc EXCEPT !["proc"] = x]
          /\ \/ used' = used /\ cur' = cur
             \/ used' = used + 1 /\ cur' = [cur EXCEPT !["proc"] = used + 1]
    BY <1>5 DEF AddFragmentNew, Insert, cacheVars
  <2>3. /\ cur' \in [Users -> (1..used') \cup {Null}]
        /\ \A v \in Users \ {"proc"} : cur'[v] = cur[v]
    BY <1>b, <2>2
  <2>4. \A a \in Addr : owner[a] # "proc"
    <3>1. Null \notin Addr
      BY DEF Null, Addr
    <3>2. QED
      BY <1>a, <2>1, <3>1 DEF Locks
  <2>5. owner \in [Addr -> Users \cup {"none"}]
    BY <1>a DEF Places
  <2>6. Move("proc", x)
    BY <1>b, <2>1, <2>2, <2>3, <2>4, <2>5 DEF Move
  <2>7. QED
    BY <1>c, <2>6
<1>6. CASE AddFragmentOld
  <2>1. /\ pc["proc"] = "found" /\ cur["proc"] # Null /\ readers' = readers /\ used' = used
    BY <1>6 DEF AddFragmentOld, ProcFound
  <2>2. \/ Release("proc", "idle")
        \/ /\ owner' = [owner EXCEPT ![cur["proc"]] = "none"]
           /\ pc' = [pc EXCEPT !["proc"] = "find"] /\ cur' = cur
    BY <1>6 DEF AddFragmentOld
  <2>3. CASE Release("proc", "idle")
    <3>1. Move("proc", "idle")
      BY <1>a, <1>b, <2>1, <2>3, MoveRelease
    <3>2. QED
      BY <1>c, <3>1
  <2>4. CASE /\ owner' = [owner EXCEPT ![cur["proc"]] = "none"]
             /\ pc' = [pc EXCEPT !["proc"] = "find"] /\ cur' = cur
    <3>1. owner \in [Addr -> Users \cup {"none"}] /\ "none" # "proc"
      BY <1>a DEF Places
    <3>2. \A a \in Addr : owner[a] = "proc" => cur["proc"] = a
      BY <1>a DEF Locks
    <3>3. /\ owner' \in [Addr -> Users \cup {"none"}]
          /\ \A a \in Addr : owner'[a] = IF a = cur["proc"] THEN "none" ELSE owner[a]
      BY <2>4, <3>1
    <3>4. \A a \in Addr : owner'[a] \in {owner[a], "none"} /\ owner'[a] # "proc"
      BY <3>1, <3>2, <3>3
    <3>5. Move("proc", "find")
      BY <1>b, <2>1, <2>4, <3>3, <3>4 DEF Move
    <3>6. QED
      BY <1>c, <3>5
  <2>5. QED
    BY <2>2, <2>3, <2>4
<1>7. QED
  BY <1>1, <1>2, <1>3, <1>4, <1>5, <1>6 DEF Proc

-----------------------------------------------------------------------------
(* The cache.                                                              *)

(* calcfragments keeps to the types of Fragments. *)
LEMMA CalcType ==
  ASSUME NEW l \in Nat
  PROVE  calcfragments(l).fn \in Nat /\ calcfragments(l).lastlen \in 0..MTU
<1>1. MTU \in Nat /\ MTU > 0 /\ FnMod \in Nat /\ FnMod > 0
  BY CacheConstantsOK
<1>2. l % MTU \in Nat /\ l % MTU < MTU /\ l \div MTU \in Nat
  BY <1>1
<1>3. \A q \in Nat : q % FnMod \in Nat
  BY <1>1
<1> DEFINE r == l % MTU
           q == (l \div MTU) % FnMod
<1>4. r \in Nat /\ r < MTU /\ q \in Nat /\ (q + 1) % FnMod \in Nat
  BY <1>2, <1>3
<1>5. calcfragments(l) = CASE l < 1 -> [fn |-> 0, lastlen |-> 0]
                           [] l >= 1 /\ r = 0 -> [fn |-> q, lastlen |-> MTU]
                           [] OTHER -> [fn |-> (q + 1) % FnMod, lastlen |-> r]
  BY DEF calcfragments
<1> HIDE DEF r, q
<1>6. CASE l < 1
  BY <1>1, <1>5, <1>6
<1>7. CASE l >= 1 /\ r = 0
  BY <1>1, <1>4, <1>5, <1>7
<1>8. CASE ~(l < 1) /\ ~(l >= 1 /\ r = 0)
  BY <1>1, <1>4, <1>5, <1>8
<1>9. QED
  BY <1>6, <1>7, <1>8

(* What peers send: a fragment of the number its header says, of full      *)
(* length unless it is the last.                                           *)
LEMMA FragmentFits ==
  ASSUME NEW fr \in Fragment
  PROVE  /\ fr.id \in Ids /\ fr.fid \in Nat /\ fr.fn \in Nat /\ fr.len \in 0..MTU
         /\ Fits(fr)
<1>0. PICK b \in Ids : \E l \in Versions[b] : fr \in FragmentsOf(b, l)
  BY DEF Fragment
<1>1. PICK l \in Versions[b] : fr \in FragmentsOf(b, l)
  BY <1>0
<1>2. l \in Nat /\ MTU \in Nat
  BY CacheConstantsOK
<1>3. calcfragments(l).fn \in Nat /\ calcfragments(l).lastlen \in 0..MTU
  BY <1>2, CalcType
<1>4. PICK i \in 0..(calcfragments(l).fn - 1) :
        fr = [id |-> b, fid |-> i, fn |-> calcfragments(l).fn, len |-> FragmentLength(l, i)]
  BY <1>1 DEF FragmentsOf
<1>5. /\ i \in Nat /\ i < calcfragments(l).fn
      /\ fr.id = b /\ fr.fid = i /\ fr.fn = calcfragments(l).fn /\ fr.len = FragmentLength(l, i)
  BY <1>3, <1>4
<1>6. FragmentLength(l, i) = IF i = calcfragments(l).fn - 1 THEN calcfragments(l).lastlen ELSE MTU
  BY DEF FragmentLength
<1>7. fr.len \in 0..MTU /\ (fr.fid # fr.fn - 1 => fr.len = MTU)
  BY <1>2, <1>3, <1>5, <1>6
<1>8. QED
  BY <1>3, <1>5, <1>7 DEF Fits

(* What a step makes of the cache: blocks keep their identity and their    *)
(* fragments; they leave the list, and another with the same identifier    *)
(* joins them, only in a race; and only a new block is put before another. *)
Evolves ==
  /\ used' \in {used, used + 1} /\ used' \in 0..MaxNodes /\ list' \in Seq(1..used')
  /\ \A a \in 1..used : /\ node'[a].id = node[a].id /\ node'[a].fn = node[a].fn
                        /\ node'[a].by = node[a].by /\ node[a].have \subseteq node'[a].have
  /\ raced \subseteq raced'
  /\ \A a \in InList : a \in InList' \/ node[a].id \in raced'
  /\ \A a \in InList' \ InList :
       /\ a = used + 1 /\ used' = used + 1
       /\ \A b \in InList : node[b].id = node'[a].id => node[b].id \in raced'
  /\ \A a, b \in InList' : Before(b, a)' =>
       \/ a \in InList /\ b \in InList /\ Before(b, a)
       \/ b = used + 1 /\ used' = used + 1

(* The addresses in the list are allocated. *)
LEMMA ListUsed == ASSUME Places PROVE InList \subseteq 1..used /\ Len(list) \in Nat
<1>1. list \in Seq(1..used)
  BY DEF Places
<1>2. \A i \in 1..Len(list) : list[i] \in 1..used
  BY <1>1, ElementOfSeq
<1>3. QED
  BY <1>1, <1>2 DEF InList

(* A new block at the head of the list. *)
LEMMA Inserted ==
  ASSUME Places, Blocks, NEW b \in Block, b.have \subseteq 0..(b.fn - 1),
         b.by = "app" => Complete(b), Insert(b),
         raced' = raced \cup {node[a].id : a \in Holders(b.id)}
  PROVE  /\ Evolves /\ Blocks' /\ InList' = InList \cup {used + 1} /\ node'[used + 1] = b
         /\ used + 1 \notin InList
         /\ \A a \in 1..used : node'[a] = node[a]
<1>1. /\ used' = used + 1 /\ used' \in 0..MaxNodes /\ list' \in Seq(1..used')
      /\ Len(list') = Len(list) + 1 /\ list'[1] = used + 1
      /\ \A i \in 1..Len(list) : list'[i + 1] = list[i]
      /\ \A i \in 2..Len(list') : list'[i] = list[i - 1]
  BY InsertList
<1>2. InList \subseteq 1..used /\ Len(list) \in Nat /\ used \in Nat /\ MaxNodes \in Nat
  BY ListUsed, CacheConstantsOK DEF Places
<1>3. used + 1 \in Addr /\ 1..used \subseteq Addr /\ used + 1 \notin 1..used
  BY <1>1, <1>2 DEF Addr
<1>4. node \in [Addr -> Block] /\ node' = [node EXCEPT ![used + 1] = b]
  BY DEF Blocks, Insert
<1>5. /\ node' \in [Addr -> Block] /\ node'[used + 1] = b
      /\ \A a \in Addr : a # used + 1 => node'[a] = node[a]
  BY <1>3, <1>4
<1>6. InList' = InList \cup {used + 1}
  <2>1. ASSUME NEW x \in InList' PROVE x \in InList \cup {used + 1}
    <3>1. PICK i \in 1..Len(list') : list'[i] = x
      BY <2>1 DEF InList
    <3>2. CASE i = 1
      BY <1>1, <3>1, <3>2
    <3>3. CASE i # 1
      <4>1. i - 1 \in 1..Len(list) /\ x = list[i - 1]
        BY <1>1, <1>2, <3>1, <3>3
      <4>2. QED
        BY <4>1 DEF InList
    <3>4. QED
      BY <3>2, <3>3
  <2>2. ASSUME NEW x \in InList PROVE x \in InList'
    <3>1. PICK i \in 1..Len(list) : list[i] = x
      BY <2>2 DEF InList
    <3>2. i + 1 \in 1..Len(list') /\ list'[i + 1] = x
      BY <1>1, <1>2, <3>1
    <3>3. QED
      BY <3>2 DEF InList
  <2>3. used + 1 \in InList'
    <3>1. 1 \in 1..Len(list')
      BY <1>1, <1>2
    <3>2. QED
      BY <1>1, <3>1 DEF InList
  <2>4. QED
    BY <2>1, <2>2, <2>3
<1>7. \A a \in 1..used : node'[a] = node[a]
  BY <1>3, <1>5
<1>8. Blocks'
  <2>1. \A a \in Addr : node'[a].have \subseteq 0..(node'[a].fn - 1)
    BY <1>5 DEF Blocks
  <2>2. \A a \in 1..used' : node'[a].by = "app" => Complete(node'[a])
    <3>1. \A a \in 1..used' : a = used + 1 \/ a \in 1..used
      BY <1>1, <1>2
    <3>2. QED
      BY <1>5, <1>7, <3>1 DEF Blocks
  <2>3. ASSUME NEW i \in 1..Len(list'), NEW j \in 1..Len(list'), list'[i] = list'[j] PROVE i = j
    <3>1. \A k \in 1..Len(list') : k # 1 => k - 1 \in 1..Len(list) /\ list'[k] = list[k - 1]
      BY <1>1, <1>2
    <3>2. \A k \in 1..Len(list) : list[k] # used + 1
      BY <1>2, <1>3 DEF InList
    <3>3. CASE i = 1 \/ j = 1
      BY <1>1, <2>3, <3>1, <3>2, <3>3
    <3>4. CASE i # 1 /\ j # 1
      <4>1. list[i - 1] = list[j - 1]
        BY <2>3, <3>1, <3>4
      <4>2. i - 1 = j - 1
        BY <3>1, <3>4, <4>1 DEF Blocks
      <4>3. QED
        BY <4>2
    <3>5. QED
      BY <3>3, <3>4
  <2>4. QED
    BY <1>5, <2>1, <2>2, <2>3 DEF Blocks
<1>9. ASSUME NEW x \in InList', NEW y \in InList', Before(y, x)'
      PROVE  (x \in InList /\ y \in InList /\ Before(y, x)) \/ y = used + 1
  <2>1. PICK i, j \in 1..Len(list') : i < j /\ list'[i] = y /\ list'[j] = x
    BY <1>9 DEF Before
  <2>2. CASE i = 1
    BY <1>1, <2>1, <2>2
  <2>3. CASE i # 1
    <3>1. /\ i - 1 \in 1..Len(list) /\ j - 1 \in 1..Len(list) /\ i - 1 < j - 1
          /\ list[i - 1] = y /\ list[j - 1] = x
      BY <1>1, <1>2, <2>1, <2>3
    <3>2. QED
      BY <3>1 DEF Before, InList
  <2>4. QED
    BY <2>2, <2>3
<1>10. \A x \in InList : node[x].id = b.id => node[x].id \in raced'
  BY DEF Holders
<1>11. Evolves
  BY <1>1, <1>2, <1>3, <1>5, <1>6, <1>7, <1>9, <1>10 DEF Evolves
<1>12. QED
  BY <1>2, <1>3, <1>5, <1>6, <1>7, <1>8, <1>11

(* A step that leaves the list as it is and at most adds fragments to      *)
(* blocks.                                                                 *)
LEMMA StoredIn ==
  ASSUME Places, Blocks, list' = list, used' = used, raced' = raced, node' \in [Addr -> Block],
         \A a \in Addr : /\ node'[a].id = node[a].id /\ node'[a].fn = node[a].fn
                         /\ node'[a].by = node[a].by /\ node[a].have \subseteq node'[a].have
                         /\ node'[a].have \subseteq 0..(node'[a].fn - 1)
  PROVE  Evolves /\ Blocks' /\ InList' = InList
<1>1. InList' = InList /\ \A a, b : Before(b, a)' <=> Before(b, a)
  BY DEF InList, Before
<1>2. 1..used \subseteq Addr
  BY CacheConstantsOK DEF Places, Addr
<1>3. \A a \in 1..used : node'[a].by = "app" => Complete(node'[a])
  BY <1>2 DEF Blocks, Complete
<1>4. Blocks'
  BY <1>3 DEF Blocks
<1>5. Evolves
  BY <1>1, <1>2 DEF Evolves, Places
<1>6. QED
  BY <1>1, <1>4, <1>5

(* A block leaves the list. *)
LEMMA Removed ==
  ASSUME Places, Blocks, NEW i \in 1..Len(list), node' = node, used' = used,
         node[list[i]].id \in raced', raced \subseteq raced',
         list' \in Seq(1..used), Len(list') = Len(list) - 1,
         \A j \in 1..Len(list') : list'[j] = IF j < i THEN list[j] ELSE list[j + 1]
  PROVE  Evolves /\ Blocks'
<1>1. Len(list) \in Nat /\ Len(list') \in Nat
  BY ListUsed
<1>2. \A j \in 1..Len(list') : \E k \in 1..Len(list) :
         list'[j] = list[k] /\ k = IF j < i THEN j ELSE j + 1
  BY <1>1
<1>3. ASSUME NEW x \in InList PROVE x \in InList' \/ node[x].id \in raced'
  <2>1. PICK k \in 1..Len(list) : list[k] = x
    BY <1>3 DEF InList
  <2>2. CASE k < i
    <3>1. k \in 1..Len(list') /\ list'[k] = x
      BY <1>1, <2>1, <2>2
    <3>2. QED
      BY <3>1 DEF InList
  <2>3. CASE k > i
    <3>1. k - 1 \in 1..Len(list') /\ list'[k - 1] = x
      BY <1>1, <2>1, <2>3
    <3>2. QED
      BY <3>1 DEF InList
  <2>4. CASE k = i
    BY <2>1, <2>4
  <2>5. QED
    BY <1>1, <2>2, <2>3, <2>4
<1>4. InList' \subseteq InList
  BY <1>2 DEF InList
<1>5. ASSUME NEW a, NEW b, Before(b, a)' PROVE Before(b, a)
  <2>1. PICK j, k \in 1..Len(list') : j < k /\ list'[j] = b /\ list'[k] = a
    BY <1>5 DEF Before
  <2>2. PICK p \in 1..Len(list) : list'[j] = list[p] /\ p = IF j < i THEN j ELSE j + 1
    BY <1>2
  <2>3. PICK q \in 1..Len(list) : list'[k] = list[q] /\ q = IF k < i THEN k ELSE k + 1
    BY <1>2
  <2>4. p < q
    BY <1>1, <2>1, <2>2, <2>3
  <2>5. QED
    BY <2>1, <2>2, <2>3, <2>4 DEF Before
<1>6. \A j, k \in 1..Len(list') : list'[j] = list'[k] => j = k
  <2> TAKE j, k \in 1..Len(list')
  <2> HAVE list'[j] = list'[k]
  <2>1. PICK p \in 1..Len(list) : list'[j] = list[p] /\ p = IF j < i THEN j ELSE j + 1
    BY <1>2
  <2>2. PICK q \in 1..Len(list) : list'[k] = list[q] /\ q = IF k < i THEN k ELSE k + 1
    BY <1>2
  <2>3. p = q
    BY <2>1, <2>2 DEF Blocks
  <2>4. QED
    BY <1>1, <2>1, <2>2, <2>3
<1>7. Blocks'
  BY <1>6 DEF Blocks
<1>8. Evolves
  BY <1>3, <1>4, <1>5 DEF Evolves, Places
<1>9. QED
  BY <1>7, <1>8

(* addfragment stores a fragment only in a block with its number of        *)
(* fragments that does not have it.                                        *)
LEMMA AddedFits ==
  ASSUME NEW b \in Block, NEW o \in Task, "ADDED" \in Verdict(b, o)
  PROVE  o.fid \notin b.have /\ o.fid < b.fn /\ o.fn = b.fn
<1>1. b.fn \in Nat /\ o.fid \in Nat /\ o.fn \in Nat
  BY DEF Block, Task
<1>2. CASE o.fid \in b.have
  BY <1>2 DEF Verdict
<1>3. CASE o.fid \notin b.have /\ o.fid >= b.fn
  <2>1. Verdict(b, o) = {"DUPLICATE", "MISMATCH"}
    BY <1>1, <1>3 DEF Verdict
  <2>2. QED
    BY <2>1
<1>4. CASE o.fid \notin b.have /\ o.fid < b.fn /\ o.fn # b.fn
  <2>1. ~(o.fid >= b.fn)
    BY <1>1, <1>4
  <2>2. Verdict(b, o) = {"MISMATCH"}
    BY <1>4, <2>1 DEF Verdict
  <2>3. QED
    BY <2>2
<1>5. QED
  BY <1>1, <1>2, <1>3, <1>4

(* What storing a fragment makes of a block. *)
LEMMA StoredBlock ==
  ASSUME NEW b \in Block, b.have \subseteq 0..(b.fn - 1), NEW o \in Task, "ADDED" \in Verdict(b, o)
  PROVE  LET s == Stored(b, o)
         IN  /\ s \in Block /\ s.id = b.id /\ s.fn = b.fn /\ s.by = b.by
             /\ s.have = b.have \cup {o.fid} /\ s.have \subseteq 0..(s.fn - 1)
<1>1. o.fid < b.fn /\ o.fid \in Nat /\ b.fn \in Nat /\ o.len \in 0..MTU /\ MTU \in Nat
  BY AddedFits, CacheConstantsOK DEF Block, Task
<1>2. (b.fn - 1) * MTU + o.len \in Nat
  <2>1. b.fn - 1 \in Nat
    BY <1>1
  <2>2. \A x, y \in Nat : x * y \in Nat
    OBVIOUS
  <2>3. (b.fn - 1) * MTU \in Nat
    BY <1>1, <2>1, <2>2
  <2>4. QED
    BY <1>1, <2>3
<1> DEFINE len == (b.fn - 1) * MTU + o.len
           s == Stored(b, o)
<1>3. s = [b EXCEPT !.have = @ \cup {o.fid},
                    !.lastlen = IF o.fid = o.fn - 1 THEN o.len ELSE @,
                    !.length = IF o.fid = o.fn - 1 THEN len ELSE @]
  BY DEF Stored
<1>4. len \in Nat
  BY <1>2
<1> HIDE DEF len, s
<1>5. s \in Block /\ s.id = b.id /\ s.fn = b.fn /\ s.by = b.by /\ s.have = b.have \cup {o.fid}
  BY <1>1, <1>3, <1>4 DEF Block
<1>6. s.have \subseteq 0..(s.fn - 1)
  BY <1>1, <1>5
<1>7. QED
  BY <1>5, <1>6 DEF s

(* The block addblock makes. *)
LEMMA AddBlockMakes ==
  ASSUME IInv, AddBlock, cur["app"] = Null
  PROVE  \E b \in Block : /\ b.id = op["app"].id /\ b.have = 0..(b.fn - 1) /\ b.by = "app" /\ Insert(b)
                          /\ raced' = raced \cup {node[a].id : a \in Holders(b.id)}
<1> DEFINE fs == calcfragments(op["app"].len)
           b == [id |-> op["app"].id, fn |-> fs.fn, have |-> 0..(fs.fn - 1),
                 lastlen |-> fs.lastlen, length |-> op["app"].len, by |-> "app", first |-> 0]
<1>1. Insert(b) /\ raced' = raced \cup {node[a].id : a \in Holders(op["app"].id)}
  BY DEF AddBlock
<1>2. op["app"].id \in Ids /\ op["app"].len \in Nat
  BY CacheConstantsOK DEF AddBlock, AppFound, IInv, Ops
<1>3. fs.fn \in Nat /\ fs.lastlen \in 0..MTU
  BY <1>2, CalcType
<1> HIDE DEF fs
<1>4. b \in Block /\ b.id = op["app"].id /\ b.have = 0..(b.fn - 1) /\ b.by = "app"
  <2>1. 0..(fs.fn - 1) \in SUBSET Nat
    BY <1>3
  <2>2. QED
    BY <1>2, <1>3, <2>1 DEF Block
<1> HIDE DEF b
<1>5. QED
  BY <1>1, <1>4

(* The block addfragment makes. *)
LEMMA AddFragmentMakes ==
  ASSUME IInv, AddFragmentNew, op["proc"].fid = op["proc"].fn - 1 \/ op["proc"].len = MTU
  PROVE  \E b \in Block :
           /\ b.id = op["proc"].id /\ b.fn = op["proc"].fn /\ b.have = {op["proc"].fid}
           /\ op["proc"].fid \in 0..(b.fn - 1)
           /\ b.by = "proc" /\ Insert(b)
           /\ raced' = raced \cup {node[a].id : a \in Holders(b.id)}
<1> DEFINE o == op["proc"]
           ll == IF o.fid = o.fn - 1 THEN o.len ELSE Unset
           b == [id |-> o.id, fn |-> o.fn, have |-> {o.fid}, lastlen |-> ll,
                 length |-> MTU * o.fn, by |-> "proc", first |-> o.fid]
<1>1. Insert(b) /\ raced' = raced \cup {node[a].id : a \in Holders(o.id)}
  BY DEF AddFragmentNew
<1>2. o \in Task /\ Fits(o)
  BY DEF AddFragmentNew, ProcFound, IInv, Ops
<1> HIDE DEF o
<1>3. o.id \in Ids /\ o.fid \in Nat /\ o.fn \in Nat /\ o.len \in 0..MTU /\ o.fid \in 0..(o.fn - 1)
  BY <1>2 DEF Task, Fits
<1>4. ll \in {Unset} \cup 0..MTU /\ MTU * o.fn \in Nat
  <2>1. \A x, y \in Nat : x * y \in Nat
    OBVIOUS
  <2>2. QED
    BY <1>3, <2>1, CacheConstantsOK
<1> HIDE DEF ll
<1>5. b \in Block /\ b.id = o.id /\ b.fn = o.fn /\ b.have = {o.fid} /\ b.by = "proc"
  <2> DEFINE len == MTU * o.fn
  <2>1. len \in Nat
    BY <1>4
  <2> HIDE DEF len
  <2>2. QED
    BY <1>3, <1>4, <2>1 DEF Block, len
<1> HIDE DEF b
<1>6. QED
  BY <1>1, <1>3, <1>5 DEF o

(* The steps that neither insert, delete nor store. *)
Quiet == list' = list /\ node' = node /\ used' = used /\ raced' = raced

(* A fragment is stored in the block at hand. *)
Stores ==
  /\ cur["proc"] # Null /\ "ADDED" \in Verdict(node[cur["proc"]], op["proc"])
  /\ node' = [node EXCEPT ![cur["proc"]] = Stored(@, op["proc"])]
  /\ owner' = [owner EXCEPT ![cur["proc"]] = "none"]
  /\ pc' = [pc EXCEPT !["proc"] = "find"] /\ Then("complete") /\ cur' = cur

(* addfragment stores the fragment or leaves the cache alone. *)
LEMMA AddFragmentCases ==
  ASSUME AddFragmentOld
  PROVE  /\ list' = list /\ used' = used /\ raced' = raced
         /\ \/ Stores
            \/ /\ Release("proc", "idle") /\ node' = node /\ op' = op
               /\ \E v \in Verdict(node[cur["proc"]], op["proc"]) : v # "ADDED"
BY DEF AddFragmentOld, Stores, histVars

(* What every step makes of the cache. *)
LEMMA Grows == ASSUME IInv, Next PROVE Evolves /\ Blocks'
<1>a. Places /\ Blocks
  BY DEF IInv
<1>1. CASE Quiet
  <2>1. \A a \in Addr : node[a].have \subseteq 0..(node[a].fn - 1)
    BY <1>a DEF Blocks
  <2>2. QED
    BY <1>a, <1>1, <2>1, StoredIn DEF Quiet, Blocks
<1>2. CASE AddBlock
  <2>1. CASE cur["app"] = Null
    <3>1. PICK b \in Block : b.have = 0..(b.fn - 1) /\ b.by = "app" /\ Insert(b)
                             /\ raced' = raced \cup {node[a].id : a \in Holders(b.id)}
      BY <1>2, <2>1, AddBlockMakes
    <3>2. Complete(b)
      BY <3>1 DEF Complete
    <3>3. QED
      BY <1>a, <3>1, <3>2, Inserted
  <2>2. CASE cur["app"] # Null
    BY <1>1, <1>2, <2>2 DEF AddBlock, Quiet, cacheVars
  <2>3. QED
    BY <2>1, <2>2
<1>3. CASE AddFragmentNew
  <2>1. CASE op["proc"].fid = op["proc"].fn - 1 \/ op["proc"].len = MTU
    <3>1. PICK b \in Block : /\ b.have = {op["proc"].fid} /\ op["proc"].fid \in 0..(b.fn - 1)
                             /\ b.by = "proc" /\ Insert(b)
                             /\ raced' = raced \cup {node[a].id : a \in Holders(b.id)}
      BY <1>3, <2>1, AddFragmentMakes
    <3>2. b.have \subseteq 0..(b.fn - 1) /\ b.by # "app"
      BY <3>1
    <3>3. QED
      BY <1>a, <3>1, <3>2, Inserted
  <2>2. CASE ~(op["proc"].fid = op["proc"].fn - 1 \/ op["proc"].len = MTU)
    BY <1>1, <1>3, <2>2 DEF AddFragmentNew, Quiet, cacheVars
  <2>3. QED
    BY <2>1, <2>2
<1>4. CASE AddFragmentOld
  <2>1. CASE Stores
    <3> DEFINE n == cur["proc"]
               s == Stored(node[n], op["proc"])
    <3>1. n \in 1..used /\ n \in Addr
      BY <1>a, <2>1, CacheConstantsOK DEF Places, Stores, Users, Addr
    <3>2. node \in [Addr -> Block] /\ node[n] \in Block /\ node[n].have \subseteq 0..(node[n].fn - 1)
      BY <1>a, <3>1 DEF Blocks
    <3>3. op["proc"] \in Task
      BY <1>4 DEF AddFragmentOld, ProcFound, IInv, Ops
    <3>4. "ADDED" \in Verdict(node[n], op["proc"]) /\ node' = [node EXCEPT ![n] = s]
      BY <2>1 DEF Stores
    <3>5. /\ s \in Block /\ s.id = node[n].id /\ s.fn = node[n].fn /\ s.by = node[n].by
          /\ s.have = node[n].have \cup {op["proc"].fid} /\ s.have \subseteq 0..(s.fn - 1)
      BY <3>2, <3>3, <3>4, StoredBlock
    <3> HIDE DEF s, n
    <3>6. node' \in [Addr -> Block] /\ node'[n] = s /\ \A a \in Addr : a # n => node'[a] = node[a]
      BY <3>1, <3>2, <3>4, <3>5
    <3>7. \A a \in Addr : /\ node'[a].id = node[a].id /\ node'[a].fn = node[a].fn
                          /\ node'[a].by = node[a].by /\ node[a].have \subseteq node'[a].have
                          /\ node'[a].have \subseteq 0..(node'[a].fn - 1)
      BY <1>a, <3>5, <3>6 DEF Blocks
    <3>8. list' = list /\ used' = used /\ raced' = raced
      BY <1>4, AddFragmentCases
    <3>9. QED
      BY <1>a, <3>6, <3>7, <3>8, StoredIn
  <2>2. CASE ~Stores
    BY <1>1, <1>4, <2>2, AddFragmentCases DEF Quiet
  <2>3. QED
    BY <2>1, <2>2
<1>5. CASE DeleteBlock
  <2>0. node' = node /\ used' = used
    BY <1>5 DEF DeleteBlock
  <2>1. CASE list' = list /\ raced' = raced
    BY <1>1, <2>0, <2>1 DEF Quiet
  <2>2. CASE ~(list' = list /\ raced' = raced)
    <3>1. PICK i \in 1..Len(list) :
            /\ node[list[i]].id = op["app"].id /\ raced' = raced \cup {op["app"].id}
            /\ list' \in Seq(1..used) /\ Len(list') = Len(list) - 1
            /\ \A j \in 1..Len(list') : list'[j] = IF j < i THEN list[j] ELSE list[j + 1]
      BY <1>a, <1>5, <2>2, DeleteList
    <3>2. QED
      BY <1>a, <2>0, <3>1, Removed
  <2>3. QED
    BY <2>1, <2>2
<1>6. CASE CallAdd \/ CallSend \/ CallContent \/ CallDelete \/ CallList
  <2>1. \E x, r : AppCall(r, x)
    BY <1>6 DEF CallAdd, CallSend, CallContent, CallDelete, CallList
  <2>2. QED
    BY <1>1, <2>1 DEF AppCall, Quiet, cacheVars, histVars
<1>7. CASE \E u \in Users : FindRdLock(u) \/ FindLock(u)
  BY <1>1, <1>7 DEF FindRdLock, FindLock, Quiet, cacheVars, histVars
<1>8. CASE SendBlock \/ GetBlockData \/ FreeBlock \/ ListRdLock \/ ListNext
  BY <1>1, <1>8 DEF SendBlock, GetBlockData, FreeBlock, ListRdLock, ListNext, Quiet, cacheVars, histVars
<1>9. CASE Receive \/ Acknowledge \/ Announce
  BY <1>1, <1>9 DEF Receive, Acknowledge, Announce, Quiet, cacheVars, histVars
<1>10. QED
  BY <1>2, <1>3, <1>4, <1>5, <1>6, <1>7, <1>8, <1>9 DEF Next, App, Proc, Users

-----------------------------------------------------------------------------
(* The steps of one user as the other sees them.                           *)

(* The application changes nothing of what the processor is doing. *)
LEMMA AppLeaves ==
  ASSUME IInv, App
  PROVE  /\ pc'["proc"] = pc["proc"] /\ op'["proc"] = op["proc"] /\ cur'["proc"] = cur["proc"]
         /\ acks' = acks /\ told' = told /\ op' = [u \in Users |-> op'[u]]
<1>a. /\ op = [u \in Users |-> op[u]] /\ "app" \in Users /\ "proc" \in Users
      /\ Users \ {"app"} = {"proc"}
  BY DEF IInv, Ops, Users
<1>1. PICK x \in AppPlaces : Move("app", x)
  BY AppMoves
<1>2. pc'["proc"] = pc["proc"] /\ cur'["proc"] = cur["proc"]
  BY <1>a, <1>1 DEF Move, IInv, Places
<1>3. CASE CallAdd \/ CallSend \/ CallContent \/ CallDelete \/ CallList
  <2>1. PICK r : \E y : AppCall(r, y)
    BY <1>3 DEF CallAdd, CallSend, CallContent, CallDelete, CallList
  <2>2. op' = [op EXCEPT !["app"] = r] /\ acks' = acks /\ told' = told
    BY <2>1 DEF AppCall, histVars
  <2>3. QED
    BY <1>a, <1>2, <2>2
<1>4. CASE ListNext
  <2>1. acks' = acks /\ told' = told
    BY <1>4 DEF ListNext, histVars
  <2>2. op' = op \/ \E i : op' = [op EXCEPT !["app"].at = i]
    BY <1>4 DEF ListNext
  <2>3. QED
    BY <1>a, <1>2, <2>1, <2>2
<1>5. CASE FindRdLock("app") \/ FindLock("app") \/ FreeBlock \/ ListRdLock \/ GetBlockData
  <2>1. op' = op /\ acks' = acks /\ told' = told
    BY <1>5 DEF FindRdLock, FindLock, FreeBlock, ListRdLock, GetBlockData, histVars
  <2>2. QED
    BY <1>a, <1>2, <2>1
<1>6. CASE AddBlock \/ SendBlock \/ DeleteBlock
  <2>1. op' = op /\ acks' = acks /\ told' = told
    BY <1>6 DEF AddBlock, SendBlock, DeleteBlock
  <2>2. QED
    BY <1>a, <1>2, <2>1
<1>7. QED
  BY <1>3, <1>4, <1>5, <1>6 DEF App

(* The processor goes on with the same fragment. *)
LEMMA ThenTask ==
  ASSUME Ops, op["proc"] \in Task, NEW k \in {"cons", "frag", "complete"}, Then(k)
  PROVE  /\ op'["proc"] \in Task /\ op'["proc"].kind = k
         /\ op'["proc"].id = op["proc"].id /\ op'["proc"].fid = op["proc"].fid
         /\ op'["proc"].fn = op["proc"].fn /\ op'["proc"].len = op["proc"].len
         /\ op'["app"] = op["app"] /\ op' = [u \in Users |-> op'[u]]
<1>1. op = [u \in Users |-> op[u]] /\ op' = [op EXCEPT !["proc"].kind = k]
      /\ "proc" \in Users /\ "app" \in Users /\ "app" # "proc"
  BY DEF Ops, Then, Users
<1>2. op'["proc"] = [op["proc"] EXCEPT !.kind = k]
  BY <1>1
<1>3. op'["app"] = op["app"] /\ op' = [u \in Users |-> op'[u]]
  BY <1>1
<1>4. QED
  BY <1>2, <1>3 DEF Task

(* The processor starts with the search of get_consecutives. *)
LEMMA ReceiveOp == ASSUME Ops, Receive PROVE op'["proc"].kind = "cons"
<1>1. PICK fr \in Fragment : op' = [op EXCEPT !["proc"] = [kind |-> "cons", id |-> fr.id, fid |-> fr.fid,
                                                         fn |-> fr.fn, len |-> fr.len]]
  BY DEF Receive
<1>2. op = [u \in Users |-> op[u]] /\ "proc" \in Users
  BY DEF Ops, Users
<1>3. op'["proc"] = [kind |-> "cons", id |-> fr.id, fid |-> fr.fid, fn |-> fr.fn, len |-> fr.len]
  BY <1>1, <1>2
<1>4. QED
  BY <1>3

(* After the acknowledgement it stores the fragment. *)
LEMMA AcknowledgeOp ==
  ASSUME Ops, Acknowledge
  PROVE  /\ op["proc"] \in Task /\ op'["proc"].kind = "frag" /\ op'["proc"].id = op["proc"].id
         /\ op'["proc"].fid = op["proc"].fid /\ op'["proc"].fn = op["proc"].fn
<1>1. op["proc"] \in Task /\ Then("frag")
  BY DEF Acknowledge, ProcFound, Ops
<1>2. QED
  BY <1>1, ThenTask

(* What the processor does to the operations. *)
LEMMA ProcOps ==
  ASSUME IInv, Proc
  PROVE  /\ op' = [u \in Users |-> op'[u]] /\ op'["app"] = op["app"] /\ pc'["app"] = pc["app"]
         /\ pc'["proc"] # "idle" => op'["proc"] \in Task /\ Fits(op'["proc"])
<1>a. /\ op = [u \in Users |-> op[u]] /\ "app" \in Users /\ "proc" \in Users /\ "app" # "proc"
      /\ Ops /\ pc \in [Users -> AppPlaces]
  BY DEF IInv, Ops, Users, Places
<1>1. PICK x \in ProcPlaces : Move("proc", x)
  BY ProcMoves
<1>2. pc'["app"] = pc["app"] /\ pc'["proc"] = x
  BY <1>a, <1>1 DEF Move
<1>3. CASE Receive
  <2>1. PICK fr \in Fragment : op' = [op EXCEPT !["proc"] = [kind |-> "cons", id |-> fr.id, fid |-> fr.fid,
                                                           fn |-> fr.fn, len |-> fr.len]]
    BY <1>3 DEF Receive
  <2>2. /\ fr.id \in Ids /\ fr.fid \in Nat /\ fr.fn \in Nat /\ fr.len \in 0..MTU /\ Fits(fr)
    BY FragmentFits
  <2>3. op'["proc"] = [kind |-> "cons", id |-> fr.id, fid |-> fr.fid, fn |-> fr.fn, len |-> fr.len]
    BY <1>a, <2>1
  <2>4. op'["proc"] \in Task /\ Fits(op'["proc"])
    BY <2>2, <2>3 DEF Task, Fits
  <2>5. op'["app"] = op["app"] /\ op' = [u \in Users |-> op'[u]]
    BY <1>a, <2>1
  <2>6. QED
    BY <1>2, <2>4, <2>5
<1>4. CASE pc["proc"] # "idle" /\ op' = op
  BY <1>a, <1>2, <1>4 DEF Ops
<1>5. CASE pc["proc"] # "idle" /\ \E k \in {"frag", "complete"} : Then(k)
  <2>1. PICK k \in {"frag", "complete"} : Then(k)
    BY <1>5
  <2>2. op["proc"] \in Task /\ Fits(op["proc"])
    BY <1>a, <1>5 DEF Ops
  <2>3. /\ op'["proc"] \in Task /\ op'["proc"].fid = op["proc"].fid
        /\ op'["proc"].fn = op["proc"].fn /\ op'["proc"].len = op["proc"].len
        /\ op'["app"] = op["app"] /\ op' = [u \in Users |-> op'[u]]
    BY <1>a, <2>1, <2>2, ThenTask
  <2>4. QED
    BY <1>2, <2>2, <2>3 DEF Fits
<1>6. Receive \/ (pc["proc"] # "idle" /\ (op' = op \/ \E k \in {"frag", "complete"} : Then(k)))
  BY DEF Proc, FindRdLock, FindLock, Acknowledge, AddFragmentNew, AddFragmentOld, Announce, ProcFound
<1>7. QED
  BY <1>3, <1>4, <1>5, <1>6

(* What the application does to the operations. *)
LEMMA AppOps ==
  ASSUME IInv, App
  PROVE  pc'["app"] \in {"find", "walk", "found"} /\ op'["app"].kind = "add" =>
           op'["app"].id \in Ids /\ op'["app"].len \in AddLengths
<1>a. /\ op = [u \in Users |-> op[u]] /\ "app" \in Users /\ Ops /\ pc \in [Users -> AppPlaces]
  BY DEF IInv, Ops, Users, Places
<1>1. CASE CallAdd
  <2>1. PICK b \in Ids, l \in AddLengths : op' = [op EXCEPT !["app"] = [kind |-> "add", id |-> b, len |-> l]]
    BY <1>1 DEF CallAdd, AppCall
  <2>2. op'["app"] = [kind |-> "add", id |-> b, len |-> l]
    BY <1>a, <2>1
  <2>3. QED
    BY <2>2
<1>2. CASE CallSend \/ CallContent \/ CallDelete \/ CallList
  <2>1. ASSUME NEW r, NEW x, AppCall(r, x) PROVE op'["app"] = r
    BY <1>a, <2>1 DEF AppCall
  <2>2. op'["app"].kind # "add"
    <3>1. CASE CallSend
      <4>1. PICK b \in Ids : op'["app"] = [kind |-> "send", id |-> b]
        BY <2>1, <3>1 DEF CallSend
      <4>2. QED
        BY <4>1
    <3>2. CASE CallContent
      <4>1. PICK b \in Ids : op'["app"] = [kind |-> "content", id |-> b]
        BY <2>1, <3>2 DEF CallContent
      <4>2. QED
        BY <4>1
    <3>3. CASE CallDelete
      <4>1. PICK b \in Ids : op'["app"] = [kind |-> "delete", id |-> b]
        BY <2>1, <3>3 DEF CallDelete
      <4>2. QED
        BY <4>1
    <3>4. CASE CallList
      <4>1. PICK w \in BOOLEAN : op'["app"] = [kind |-> "list", complete |-> w, at |-> 0]
        BY <2>1, <3>4 DEF CallList
      <4>2. QED
        BY <4>1
    <3>5. QED
      BY <1>2, <3>1, <3>2, <3>3, <3>4
  <2>3. QED
    BY <2>2
<1>3. CASE FindRdLock("app") \/ FindLock("app")
  BY <1>a, <1>3 DEF FindRdLock, FindLock, Ops
<1>4. CASE AddBlock \/ SendBlock \/ GetBlockData \/ DeleteBlock \/ FreeBlock \/ ListRdLock \/ ListNext
  <2>1. pc["app"] = "listing" => pc'["app"] \in {"idle", "listing"}
    BY <1>a, <1>4 DEF AddBlock, SendBlock, GetBlockData, AppFound, DeleteBlock, FreeBlock, ListRdLock, ListNext
  <2>2. pc["app"] # "listing" => pc'["app"] \in {"idle", "free", "listing"}
    BY <1>a, <1>4 DEF AddBlock, SendBlock, GetBlockData, Release, DeleteBlock, FreeBlock, ListRdLock, ListNext
  <2>3. QED
    BY <2>1, <2>2
<1>5. QED
  BY <1>1, <1>2, <1>3, <1>4 DEF App

(* The application walks through the list with an index. *)
LEMMA AppListing ==
  ASSUME IInv, App
  PROVE  pc'["app"] \in {"list", "listing"} => op'["app"] \in Listing
<1>a. /\ op = [u \in Users |-> op[u]] /\ "app" \in Users /\ Ops /\ pc \in [Users -> AppPlaces]
  BY DEF IInv, Ops, Users, Places
<1>1. CASE CallList
  <2>1. PICK w \in BOOLEAN : op' = [op EXCEPT !["app"] = [kind |-> "list", complete |-> w, at |-> 0]]
    BY <1>1 DEF CallList, AppCall
  <2>2. op'["app"] = [kind |-> "list", complete |-> w, at |-> 0]
    BY <1>a, <2>1
  <2>3. QED
    BY <2>2 DEF Listing
<1>2. CASE ListRdLock
  BY <1>a, <1>2 DEF ListRdLock, Ops
<1>3. CASE ListNext
  <2>1. op["app"] \in Listing
    BY <1>a, <1>3 DEF ListNext, Ops
  <2>2. op' = op \/ op' = [op EXCEPT !["app"].at = op["app"].at + 1]
    BY <1>3 DEF ListNext
  <2>3. op'["app"] = op["app"] \/ op'["app"] = [op["app"] EXCEPT !.at = op["app"].at + 1]
    BY <1>a, <2>2
  <2>4. op["app"].at + 1 \in Nat
    BY <2>1 DEF Listing
  <2>5. QED
    BY <2>1, <2>3, <2>4 DEF Listing
<1>4. CASE CallAdd \/ CallSend \/ CallContent \/ CallDelete
  <2>1. PICK x \in {"find", "delete"} : \E r : AppCall(r, x)
    BY <1>4 DEF CallAdd, CallSend, CallContent, CallDelete
  <2>2. pc'["app"] = x
    BY <1>a, <2>1 DEF AppCall
  <2>3. QED
    BY <2>2
<1>5. CASE FindRdLock("app") \/ FindLock("app")
  BY <1>a, <1>5 DEF FindRdLock, FindLock
<1>6. CASE AddBlock \/ SendBlock \/ GetBlockData \/ DeleteBlock \/ FreeBlock
  <2>1. pc'["app"] \in {"idle", "free"}
    BY <1>a, <1>6 DEF AddBlock, SendBlock, GetBlockData, Release, DeleteBlock, FreeBlock
  <2>2. QED
    BY <2>1
<1>7. QED
  BY <1>1, <1>2, <1>3, <1>4, <1>5, <1>6 DEF App

(* What a step makes of the variables that say who is where. *)
LEMMA PlacesStep == ASSUME IInv, Next PROVE Places' /\ Locks' /\ Ops'
<1>a. Places /\ Locks /\ Ops
  BY DEF IInv
<1>1. PICK u \in Users, x \in AppPlaces : Move(u, x) /\ (u = "proc" => x \in ProcPlaces)
  <2>1. CASE App
    BY <2>1, AppMoves DEF Users
  <2>2. CASE Proc
    BY <2>2, ProcMoves DEF Users, AppPlaces
  <2>3. QED
    BY <2>1, <2>2 DEF Next
<1>2. Locks' /\ pc' \in [Users -> AppPlaces] /\ pc'["proc"] \in ProcPlaces
  BY <1>a, <1>1, MoveLocks
<1>3. used' \in 0..MaxNodes /\ list' \in Seq(1..used')
  BY Grows DEF Evolves
<1>4. ub' \in BOOLEAN
  <2>1. CASE SendBlock
    BY <1>a, <2>1 DEF SendBlock, Places
  <2>2. CASE FreeBlock
    BY <2>2 DEF FreeBlock
  <2>3. CASE ~SendBlock /\ ~FreeBlock
    <3>1. ub' = ub
      BY <2>3 DEF Next, App, Proc, CallAdd, CallSend, CallContent, CallDelete, CallList, AppCall,
                  FindRdLock, FindLock, AddBlock, GetBlockData, DeleteBlock, ListRdLock, ListNext,
                  Receive, Acknowledge, AddFragmentNew, AddFragmentOld, Announce
    <3>2. QED
      BY <1>a, <3>1 DEF Places
  <2>4. QED
    BY <2>1, <2>2, <2>3
<1>5. Places'
  BY <1>1, <1>2, <1>3, <1>4 DEF Places, Move
<1>6. Ops'
  <2>1. CASE App
    BY <1>a, <2>1, AppLeaves, AppOps, AppListing DEF Ops
  <2>2. CASE Proc
    BY <1>a, <2>2, ProcOps DEF Ops
  <2>3. QED
    BY <2>1, <2>2 DEF Next
<1>7. QED
  BY <1>2, <1>5, <1>6

-----------------------------------------------------------------------------
(* The blocks after a step.                                                *)

(* A complete block stays complete. *)
LEMMA StaysComplete ==
  ASSUME Blocks', Evolves, Places, NEW a \in 1..used, Complete(node[a])
  PROVE  Complete(node'[a])
<1>1. a \in Addr
  BY CacheConstantsOK DEF Places, Addr
<1>2. node'[a].have \subseteq 0..(node'[a].fn - 1)
  BY <1>1 DEF Blocks
<1>3. QED
  BY <1>2 DEF Evolves, Complete

(* The application changes no block; the one it adds is complete. *)
LEMMA AppNodes ==
  ASSUME IInv, App
  PROVE  /\ \A a \in 1..used : node'[a] = node[a]
         /\ \A a \in InList' \ InList : node'[a].by = "app" /\ Complete(node'[a])
<1>a. Places /\ Blocks
  BY DEF IInv
<1>1. CASE AddBlock /\ cur["app"] = Null
  <2>1. PICK b \in Block : b.have = 0..(b.fn - 1) /\ b.by = "app" /\ Insert(b)
                           /\ raced' = raced \cup {node[a].id : a \in Holders(b.id)}
    BY <1>1, AddBlockMakes
  <2>2. Complete(b)
    BY <2>1 DEF Complete
  <2>3. /\ InList' = InList \cup {used + 1} /\ node'[used + 1] = b
        /\ \A a \in 1..used : node'[a] = node[a]
    BY <1>a, <2>1, <2>2, Inserted
  <2>4. QED
    BY <2>1, <2>2, <2>3
<1>2. CASE ~(AddBlock /\ cur["app"] = Null)
  <2>1. node' = node /\ (list' = list \/ DeleteBlock)
    BY <1>2 DEF App, CallAdd, CallSend, CallContent, CallDelete, CallList, AppCall, FindRdLock, FindLock,
                AddBlock, SendBlock, GetBlockData, DeleteBlock, FreeBlock, ListRdLock, ListNext, cacheVars
  <2>2. InList' \subseteq InList
    <3>1. CASE list' = list
      BY <3>1 DEF InList
    <3>2. CASE list' # list
      <4>1. PICK i \in 1..Len(list) :
              /\ Len(list') = Len(list) - 1
              /\ \A j \in 1..Len(list') : list'[j] = IF j < i THEN list[j] ELSE list[j + 1]
        BY <1>a, <2>1, <3>2, DeleteList
      <4>2. Len(list) \in Nat
        BY <1>a, ListUsed
      <4>3. \A j \in 1..Len(list') : \E m \in 1..Len(list) : list'[j] = list[m]
        BY <4>1, <4>2
      <4>4. QED
        BY <4>3 DEF InList
    <3>3. QED
      BY <3>1, <3>2
  <2>3. QED
    BY <2>1, <2>2
<1>3. QED
  BY <1>1, <1>2

(* No block of the list is twice there unless there was a race. *)
LEMMA AloneStep == ASSUME IInv, Next PROVE Alone'
<1>1. Evolves /\ Alone /\ InList \subseteq 1..used
  BY Grows, ListUsed DEF IInv
<1>2. SUFFICES ASSUME NEW a \in InList', NEW b \in InList', a # b, node'[a].id = node'[b].id
               PROVE  node'[a].id \in raced'
  BY DEF Alone
<1>3. CASE a \in InList /\ b \in InList
  <2>1. node'[a].id = node[a].id /\ node'[b].id = node[b].id
    BY <1>1, <1>3 DEF Evolves
  <2>2. raced \subseteq raced'
    BY <1>1 DEF Evolves
  <2>3. node[a].id \in raced
    BY <1>1, <1>2, <1>3, <2>1 DEF Alone
  <2>4. QED
    BY <2>1, <2>2, <2>3
<1>4. CASE a \notin InList
  <2>1. b \in InList
    BY <1>1, <1>2, <1>4 DEF Evolves
  <2>2. node'[b].id = node[b].id
    BY <1>1, <2>1 DEF Evolves
  <2>3. QED
    BY <1>1, <1>2, <1>4, <2>1, <2>2 DEF Evolves
<1>5. CASE b \notin InList
  <2>1. a \in InList
    BY <1>1, <1>2, <1>5 DEF Evolves
  <2>2. node'[a].id = node[a].id
    BY <1>1, <2>1 DEF Evolves
  <2>3. QED
    BY <1>1, <1>2, <1>5, <2>1, <2>2 DEF Evolves
<1>6. QED
  BY <1>3, <1>4, <1>5

(* The block at hand stays the one the processor works on. *)
LEMMA SameKeeps ==
  ASSUME Evolves, NEW a \in 1..used, Same(a), op'["proc"].id = op["proc"].id
  PROVE  Same(a)'
BY DEF Evolves, Same

(* A block that covers an acknowledgement covers it after the step. *)
LEMMA CoversKeeps ==
  ASSUME Evolves, NEW a \in 1..used, NEW k, NEW m, Covers(a, k, m)
  PROVE  Covers(a, k, m)'
BY DEF Evolves, Covers

(* The same for a block that a search can find. *)
LEMMA HolderKeeps ==
  ASSUME Evolves, Places, NEW k, NEW m, NEW a \in Holders(k.id), Covers(a, k, m)
  PROVE  k.id \in raced' \/ (a \in Holders(k.id)' /\ Covers(a, k, m)')
<1>1. a \in InList /\ node[a].id = k.id /\ a \in 1..used
  BY ListUsed DEF Holders
<1>2. Covers(a, k, m)'
  BY <1>1, CoversKeeps
<1>3. node'[a].id = k.id /\ (a \in InList' \/ k.id \in raced')
  BY <1>1 DEF Evolves
<1>4. QED
  BY <1>2, <1>3 DEF Holders

(* The block the processor works on. *)
LEMMA AtHandStep == ASSUME IInv, Next PROVE AtHand'
<1>a. /\ Evolves /\ AtHand /\ Places /\ Blocks /\ Ops /\ "proc" \in Users
      /\ cur \in [Users -> (1..used) \cup {Null}] /\ pc \in [Users -> AppPlaces]
  BY Grows DEF IInv, Users, Places
<1>1. CASE App
  <2>1. pc'["proc"] = pc["proc"] /\ op'["proc"] = op["proc"] /\ cur'["proc"] = cur["proc"]
    BY <1>1, AppLeaves
  <2>2. ASSUME cur["proc"] # Null, Same(cur["proc"]) PROVE Same(cur["proc"])'
    <3>1. PICK a \in 1..used : a = cur["proc"]
      BY <1>a, <2>2
    <3>2. Same(a)'
      BY <1>a, <2>1, <2>2, <3>1, SameKeeps
    <3>3. QED
      BY <2>1, <3>1, <3>2 DEF Same
  <2>3. (op["proc"].id \in raced) => (op'["proc"].id \in raced')
    BY <1>a, <2>1 DEF Evolves
  <2>4. QED
    BY <1>a, <2>1, <2>2, <2>3 DEF AtHand, Stored1
<1>2. CASE Receive \/ Acknowledge
  <2>1. pc'["proc"] = "find"
    BY <1>a, <1>2 DEF Receive, Acknowledge, Release
  <2>2. op'["proc"].kind \in {"cons", "frag"}
    BY <1>a, <1>2, ReceiveOp, AcknowledgeOp
  <2>3. QED
    BY <2>1, <2>2 DEF AtHand, Stored1
<1>3. CASE FindRdLock("proc")
  <2>1. /\ pc["proc"] = "find" /\ pc'["proc"] = "walk" /\ op' = op /\ cur' = cur /\ InList' = InList
        /\ node' = node /\ raced' = raced
    BY <1>a, <1>3 DEF FindRdLock, cacheVars, histVars, InList
  <2>2. QED
    BY <1>a, <2>1 DEF AtHand, Stored1, Same
<1>4. CASE FindLock("proc")
  <2> DEFINE n == FindBlock(op["proc"].id)
  <2>1. /\ pc["proc"] = "walk" /\ pc'["proc"] = "found" /\ op' = op /\ cur'["proc"] = n
        /\ InList' = InList /\ node' = node /\ raced' = raced
    BY <1>a, <1>4 DEF FindLock, cacheVars, histVars, InList
  <2>2. (n = Null <=> Holders(op["proc"].id) = {}) /\ (n # Null => n \in Holders(op["proc"].id))
    BY <1>a, FindType, FindFirst
  <2> HIDE DEF n
  <2>3. n # Null => Same(cur["proc"])'
    BY <2>1, <2>2 DEF Same, Holders
  <2>4. op["proc"].kind = "complete" /\ n = Null => op["proc"].id \in raced
    BY <1>a, <2>1, <2>2 DEF AtHand, Stored1, Same, Holders
  <2>5. QED
    BY <2>1, <2>3, <2>4 DEF AtHand, Stored1
<1>5. CASE AddFragmentNew
  <2>1. CASE op["proc"].fid = op["proc"].fn - 1 \/ op["proc"].len = MTU
    <3>1. PICK b \in Block : /\ b.id = op["proc"].id /\ b.have = {op["proc"].fid}
                             /\ op["proc"].fid \in 0..(b.fn - 1) /\ b.by = "proc" /\ Insert(b)
                             /\ raced' = raced \cup {node[a].id : a \in Holders(b.id)}
      BY <1>5, <2>1, AddFragmentMakes
    <3>2. b.have \subseteq 0..(b.fn - 1) /\ b.by # "app"
      BY <3>1
    <3>3. InList' = InList \cup {used + 1} /\ node'[used + 1] = b
      BY <1>a, <3>1, <3>2, Inserted
    <3>4. /\ pc'["proc"] = "find" /\ cur'["proc"] = used + 1 /\ Then("complete") /\ used + 1 # Null
      BY <1>a, <1>5, <2>1 DEF AddFragmentNew, Null, Places
    <3>5. op["proc"] \in Task
      BY <1>a, <1>5 DEF AddFragmentNew, ProcFound, Ops
    <3>6. op'["proc"].id = op["proc"].id
      BY <1>a, <3>4, <3>5, ThenTask
    <3>7. QED
      BY <3>1, <3>3, <3>4, <3>6 DEF AtHand, Stored1, Same
  <2>2. CASE ~(op["proc"].fid = op["proc"].fn - 1 \/ op["proc"].len = MTU)
    <3>1. pc'["proc"] = "idle"
      BY <1>a, <1>5, <2>2 DEF AddFragmentNew
    <3>2. QED
      BY <3>1 DEF AtHand, Stored1
  <2>3. QED
    BY <2>1, <2>2
<1>6. CASE AddFragmentOld
  <2>1. CASE Stores
    <3>1. op["proc"] \in Task /\ pc["proc"] = "found"
      BY <1>a, <1>6 DEF AddFragmentOld, ProcFound, Ops
    <3>2. pc'["proc"] = "find" /\ cur'["proc"] = cur["proc"] /\ cur["proc"] # Null
      BY <1>a, <2>1 DEF Stores
    <3>3. op'["proc"].id = op["proc"].id
      BY <1>a, <2>1, <3>1, ThenTask DEF Stores
    <3>4. PICK a \in 1..used : a = cur["proc"]
      BY <1>a, <3>2
    <3>5. Same(a)
      BY <1>a, <3>1, <3>2, <3>4 DEF AtHand
    <3>6. Same(a)'
      BY <1>a, <3>3, <3>5, SameKeeps
    <3>7. Same(cur["proc"])'
      BY <3>2, <3>4, <3>6 DEF Same
    <3>8. QED
      BY <3>2, <3>7 DEF AtHand, Stored1
  <2>2. CASE ~Stores
    <3>1. pc'["proc"] = "idle"
      BY <1>a, <1>6, <2>2, AddFragmentCases DEF Release
    <3>2. QED
      BY <3>1 DEF AtHand, Stored1
  <2>3. QED
    BY <2>1, <2>2
<1>7. CASE Announce
  <2>1. pc'["proc"] = "idle"
    BY <1>a, <1>7 DEF Announce, Release
  <2>2. QED
    BY <2>1 DEF AtHand, Stored1
<1>8. QED
  BY <1>1, <1>2, <1>3, <1>4, <1>5, <1>6, <1>7 DEF Next, Proc

-----------------------------------------------------------------------------
(* The acknowledgements.                                                   *)

(* get_consecutives counts fragments the block has, up to the one at hand. *)
LEMMA ConsecutivesHad ==
  ASSUME NEW b, NEW fid \in Nat
  PROVE  /\ Consecutives(b, fid) \in 0..fid
         /\ (fid - Consecutives(b, fid))..(fid - 1) \subseteq b.have
<1> DEFINE gap == {i \in 0..(fid - 1) : i \notin b.have}
<1>1. CASE gap = {}
  <2>1. Consecutives(b, fid) = fid
    BY <1>1 DEF Consecutives
  <2>2. \A i \in 0..(fid - 1) : i \in b.have
    BY <1>1
  <2>3. (fid - fid)..(fid - 1) = 0..(fid - 1)
    OBVIOUS
  <2>4. QED
    BY <2>1, <2>2, <2>3
<1>2. CASE gap # {}
  <2> DEFINE T == {n \in Nat : fid - 1 - n \in gap}
  <2>1. PICK g \in gap : TRUE
    BY <1>2
  <2>2. fid - 1 - g \in Nat /\ fid - 1 - (fid - 1 - g) = g
    BY <2>1
  <2>3. T \subseteq Nat /\ T # {}
    BY <2>1, <2>2
  <2>4. PICK x \in T : \A y \in T : x <= y
    <3> HIDE DEF T
    <3>1. QED
      BY <2>3, Least
  <2>5. fid - 1 - x \in gap
    BY <2>4
  <2>6. \A j \in gap : j <= fid - 1 - x
    <3> TAKE j \in gap
    <3>1. fid - 1 - j \in Nat /\ fid - 1 - (fid - 1 - j) = j
      OBVIOUS
    <3>2. fid - 1 - j \in T
      BY <3>1
    <3>3. x <= fid - 1 - j /\ x \in T
      <4> HIDE DEF T
      <4>1. QED
        BY <2>4, <3>2
    <3>4. x \in Nat /\ j \in Nat
      BY <3>3
    <3>5. QED
      BY <3>3, <3>4
  <2> DEFINE m == CHOOSE i \in gap : \A j \in gap : j <= i
  <2>7. m \in gap /\ \A j \in gap : j <= m
    BY <2>5, <2>6
  <2>8. Consecutives(b, fid) = fid - 1 - m
    BY <1>2 DEF Consecutives
  <2> HIDE DEF m
  <2>9. m \in 0..(fid - 1)
    BY <2>7
  <2>10. \A i \in (m + 1)..(fid - 1) : i \in b.have
    <3> TAKE i \in (m + 1)..(fid - 1)
    <3>1. i \in 0..(fid - 1) /\ ~(i <= m)
      BY <2>9
    <3>2. QED
      BY <2>7, <3>1
  <2>11. fid - (fid - 1 - m) = m + 1 /\ fid - 1 - m \in 0..fid
    BY <2>9
  <2>12. QED
    BY <2>8, <2>10, <2>11
<1>3. QED
  BY <1>1, <1>2

(* A fragment that is not stored is there already, or belongs to a content *)
(* with another number of fragments.                                       *)
LEMMA NotAdded ==
  ASSUME NEW b \in Block, NEW o \in Task, Fits(o), NEW v \in Verdict(b, o), v # "ADDED"
  PROVE  o.fid \in b.have \/ o.fn # b.fn
<1>1. b.fn \in Nat /\ o.fid \in Nat /\ o.fn \in Nat
  BY DEF Block, Task
<1>2. SUFFICES ASSUME o.fid \notin b.have, o.fn = b.fn PROVE FALSE
  OBVIOUS
<1>3. o.fid < b.fn /\ ~(o.fid >= b.fn) /\ (o.fid < b.fn - 1 => o.len = MTU)
  BY <1>1, <1>2 DEF Fits
<1>4. Verdict(b, o) = {"ADDED"}
  BY <1>2, <1>3 DEF Verdict
<1>5. QED
  BY <1>4

(* What the cache has for an acknowledgement it keeps. *)
LEMMA CoveredKeeps ==
  ASSUME Evolves, Places, NEW k, Covered(k)
  PROVE  Covered(k)'
<1>1. CASE k.id \in raced
  BY <1>1 DEF Evolves, Covered
<1>2. CASE k.id \notin raced
  <2>1. PICK a \in Holders(k.id) : Covers(a, k, k.fid)
    BY <1>2 DEF Covered
  <2>2. k.id \in raced' \/ (a \in Holders(k.id)' /\ Covers(a, k, k.fid)')
    BY <2>1, HolderKeeps
  <2>3. QED
    BY <2>2 DEF Covered
<1>3. QED
  BY <1>1, <1>2

(* While the fragment is being stored the application changes nothing, or  *)
(* races.                                                                  *)
LEMMA AppStoring ==
  ASSUME IInv, App, NEW k, Storing(k)
  PROVE  Covered(k)' \/ Storing(k)'
<1>a. /\ Evolves /\ Places /\ "proc" \in Users /\ cur \in [Users -> (1..used) \cup {Null}]
  BY Grows DEF IInv, Users, Places, Next
<1>1. pc'["proc"] = pc["proc"] /\ op'["proc"] = op["proc"] /\ cur'["proc"] = cur["proc"]
  BY AppLeaves
<1>2. CASE pc["proc"] = "found"
  <2>1. CASE cur["proc"] = Null
    BY <1>1, <1>2, <2>1 DEF Storing
  <2>2. CASE cur["proc"] # Null
    <3>1. PICK a \in 1..used : a = cur["proc"]
      BY <1>a, <2>2
    <3>2. Covers(a, k, k.fid - 1)
      BY <1>2, <2>2, <3>1 DEF Storing
    <3>3. Covers(a, k, k.fid - 1)'
      BY <1>a, <3>2, CoversKeeps
    <3>4. Covers(cur["proc"], k, k.fid - 1)'
      BY <1>1, <3>1, <3>3 DEF Covers
    <3>5. QED
      BY <1>1, <1>2, <2>2, <3>4 DEF Storing
  <2>3. QED
    BY <2>1, <2>2
<1>3. CASE pc["proc"] # "found"
  <2>1. CASE k.cons = 0
    BY <1>1, <1>3, <2>1 DEF Storing
  <2>2. CASE k.cons # 0
    <3>1. PICK a \in Holders(k.id) : Covers(a, k, k.fid - 1)
      BY <1>3, <2>2 DEF Storing
    <3>2. k.id \in raced' \/ (a \in Holders(k.id)' /\ Covers(a, k, k.fid - 1)')
      BY <1>a, <3>1, HolderKeeps
    <3>3. CASE k.id \in raced'
      BY <3>3 DEF Covered
    <3>4. CASE a \in Holders(k.id)' /\ Covers(a, k, k.fid - 1)'
      BY <1>1, <1>3, <3>4 DEF Storing
    <3>5. QED
      BY <3>2, <3>3, <3>4
  <2>3. QED
    BY <2>1, <2>2
<1>4. QED
  BY <1>2, <1>3

(* The search for the block to store the fragment in. *)
LEMMA FindStoring ==
  ASSUME IInv, FindLock("proc"), NEW k, k.fid \in Nat, k.cons \in Nat, Storing(k)
  PROVE  Covered(k)' \/ Storing(k)'
<1>a. /\ Places /\ Blocks /\ Alone /\ "proc" \in Users
      /\ cur \in [Users -> (1..used) \cup {Null}] /\ pc \in [Users -> AppPlaces]
  BY DEF IInv, Users, Places
<1> DEFINE n == FindBlock(op["proc"].id)
<1>1. /\ pc["proc"] = "walk" /\ pc'["proc"] = "found" /\ op' = op /\ cur'["proc"] = n
      /\ InList' = InList /\ node' = node /\ raced' = raced
  BY <1>a DEF FindLock, cacheVars, histVars, InList
<1>2. (n = Null <=> Holders(op["proc"].id) = {}) /\ (n # Null => n \in Holders(op["proc"].id))
  BY <1>a, FindType, FindFirst
<1> HIDE DEF n
<1>3. /\ op["proc"].id = k.id /\ op["proc"].kind = "frag" /\ op["proc"].fid = k.fid
      /\ op["proc"].fn = k.fn /\ (k.cons = 0 \/ \E a \in Holders(k.id) : Covers(a, k, k.fid - 1))
  BY <1>1 DEF Storing
<1>4. CASE n = Null
  BY <1>1, <1>2, <1>3, <1>4 DEF Storing
<1>5. CASE n # Null
  <2>1. CASE Covers(n, k, k.fid - 1)
    BY <1>1, <1>3, <1>5, <2>1 DEF Storing, Covers
  <2>2. CASE ~Covers(n, k, k.fid - 1)
    <3>1. k.cons # 0
      <4>1. k.fid..(k.fid - 1) = {}
        OBVIOUS
      <4>2. k.cons = 0 => k.fid - k.cons = k.fid
        OBVIOUS
      <4>3. QED
        BY <2>2, <4>1, <4>2 DEF Covers
    <3>2. PICK a \in Holders(k.id) : Covers(a, k, k.fid - 1)
      BY <1>3, <3>1
    <3>3. a # n /\ n \in Holders(k.id)
      BY <1>2, <1>3, <1>5, <2>2, <3>2
    <3>4. k.id \in raced
      BY <1>a, <3>2, <3>3 DEF Holders, Alone
    <3>5. QED
      BY <1>1, <3>4 DEF Covered
  <2>3. QED
    BY <2>1, <2>2
<1>6. QED
  BY <1>4, <1>5

(* The fragment is stored in a new block. *)
LEMMA NewStoring ==
  ASSUME IInv, AddFragmentNew, NEW k, k.fid \in Nat, k.cons \in Nat, Storing(k)
  PROVE  Covered(k)'
<1>a. Places /\ Blocks
  BY DEF IInv
<1>1. /\ op["proc"].id = k.id /\ op["proc"].fid = k.fid /\ k.cons = 0
  BY DEF Storing, AddFragmentNew, ProcFound
<1>2. op["proc"].fid = op["proc"].fn - 1 \/ op["proc"].len = MTU
  BY DEF AddFragmentNew, ProcFound, IInv, Ops, Fits
<1>3. PICK b \in Block : /\ b.id = op["proc"].id /\ b.have = {op["proc"].fid}
                         /\ op["proc"].fid \in 0..(b.fn - 1) /\ b.by = "proc" /\ Insert(b)
                         /\ raced' = raced \cup {node[a].id : a \in Holders(b.id)}
  BY <1>2, AddFragmentMakes
<1>4. b.have \subseteq 0..(b.fn - 1) /\ b.by # "app"
  BY <1>3
<1>5. InList' = InList \cup {used + 1} /\ node'[used + 1] = b
  BY <1>a, <1>3, <1>4, Inserted
<1>6. PICK n : n = used + 1
  OBVIOUS
<1>7. n \in Holders(k.id)'
  BY <1>1, <1>3, <1>5, <1>6 DEF Holders
<1>8. (k.fid - k.cons)..k.fid = {k.fid}
  BY <1>1
<1>9. Covers(n, k, k.fid)'
  BY <1>1, <1>3, <1>5, <1>6, <1>8 DEF Covers
<1>10. QED
  BY <1>7, <1>9 DEF Covered

(* The fragment is stored in the block that was found, or is there. *)
LEMMA OldStoring ==
  ASSUME IInv, AddFragmentOld, NEW k, k.fid \in Nat, k.cons \in Nat, Storing(k)
  PROVE  Covered(k)'
<1>a. /\ Evolves /\ Places /\ Blocks /\ Ops /\ AtHand /\ "proc" \in Users
      /\ cur \in [Users -> (1..used) \cup {Null}]
  BY Grows DEF IInv, Users, Places, Next, Proc
<1>1. pc["proc"] = "found" /\ cur["proc"] # Null
  BY DEF AddFragmentOld, ProcFound
<1>2. PICK n \in 1..used : n = cur["proc"]
  BY <1>a, <1>1
<1>3. /\ op["proc"].id = k.id /\ op["proc"].fid = k.fid /\ op["proc"].fn = k.fn
      /\ Covers(n, k, k.fid - 1)
  BY <1>1, <1>2 DEF Storing
<1>4. Same(n) /\ op["proc"] \in Task /\ Fits(op["proc"])
  BY <1>a, <1>1, <1>2 DEF AtHand, Ops
<1>5. list' = list /\ raced' = raced /\ InList' = InList
  BY AddFragmentCases DEF InList
<1>6. n \in Addr
  BY <1>a, CacheConstantsOK DEF Places, Addr
<1>7. node \in [Addr -> Block] /\ node[n] \in Block /\ node[n].have \subseteq 0..(node[n].fn - 1)
  BY <1>a, <1>6 DEF Blocks
<1>8. node'[n].fn # k.fn \/ (k.fid \in node'[n].have /\ node[n].have \subseteq node'[n].have
                             /\ node'[n].fn = node[n].fn)
  <2>1. CASE Stores
    <3>1. /\ "ADDED" \in Verdict(node[n], op["proc"])
          /\ node' = [node EXCEPT ![n] = Stored(@, op["proc"])]
      BY <1>2, <2>1 DEF Stores
    <3> DEFINE s == Stored(node[n], op["proc"])
    <3>2. s.fn = node[n].fn /\ s.have = node[n].have \cup {op["proc"].fid}
      BY <1>4, <1>7, <3>1, StoredBlock
    <3>3. node'[n] = s
      BY <1>6, <1>7, <3>1
    <3> HIDE DEF s
    <3>4. QED
      BY <1>3, <3>2, <3>3
  <2>2. CASE ~Stores
    <3>1. PICK v \in Verdict(node[n], op["proc"]) : v # "ADDED"
      BY <1>2, <2>2, AddFragmentCases
    <3>2. op["proc"].fid \in node[n].have \/ op["proc"].fn # node[n].fn
      BY <1>4, <1>7, <3>1, NotAdded
    <3>3. node' = node
      BY <2>2, AddFragmentCases
    <3>4. QED
      BY <1>3, <3>2, <3>3
  <2>3. QED
    BY <2>1, <2>2
<1>9. Covers(n, k, k.fid)'
  <2>1. CASE node'[n].fn # k.fn
    BY <2>1 DEF Covers
  <2>2. CASE node'[n].fn = k.fn
    <3>1. (k.fid - k.cons)..(k.fid - 1) \subseteq node[n].have
      BY <1>3, <1>8, <2>2 DEF Covers
    <3>2. \A i \in (k.fid - k.cons)..k.fid : i = k.fid \/ i \in (k.fid - k.cons)..(k.fid - 1)
      OBVIOUS
    <3>3. (k.fid - k.cons)..k.fid \subseteq node'[n].have
      BY <1>8, <2>2, <3>1, <3>2
    <3>4. QED
      BY <3>3 DEF Covers
  <2>3. QED
    BY <2>1, <2>2
<1>10. node'[n].id = k.id /\ (n \in InList' \/ k.id \in raced')
  BY <1>a, <1>3, <1>4, <1>5 DEF Same, Evolves
<1>11. QED
  BY <1>9, <1>10 DEF Covered, Holders

(* The acknowledgement that get_consecutives prepares. *)
LEMMA AcknowledgeStoring ==
  ASSUME IInv, Acknowledge
  PROVE  \E k \in [id : Ids, fid : Nat, fn : Nat, cons : Nat] :
           acks' = acks \cup {k} /\ (Covered(k)' \/ Storing(k)')
<1>a. /\ Places /\ Blocks /\ Ops /\ AtHand /\ "proc" \in Users
      /\ cur \in [Users -> (1..used) \cup {Null}] /\ pc \in [Users -> AppPlaces]
  BY DEF IInv, Users, Places
<1> DEFINE o == op["proc"]
           c == IF cur["proc"] = Null THEN 0 ELSE Consecutives(node[cur["proc"]], o.fid)
<1>1. PICK k : k = [id |-> o.id, fid |-> o.fid, fn |-> o.fn, cons |-> c]
  OBVIOUS
<1>2. acks' = acks \cup {k}
  BY <1>1 DEF Acknowledge
<1>3. /\ o \in Task /\ op'["proc"].kind = "frag" /\ op'["proc"].id = o.id
      /\ op'["proc"].fid = o.fid /\ op'["proc"].fn = o.fn
  BY <1>a, AcknowledgeOp
<1>4. o.id \in Ids /\ o.fid \in Nat /\ o.fn \in Nat
  BY <1>3 DEF Task
<1>5. /\ pc["proc"] = "found" /\ pc'["proc"] = "find" /\ InList' = InList /\ node' = node
      /\ raced' = raced
  BY <1>a DEF Acknowledge, ProcFound, Release, cacheVars, InList
<1>6. c \in Nat
  BY <1>4, ConsecutivesHad
<1> HIDE DEF c
<1>7. k \in [id : Ids, fid : Nat, fn : Nat, cons : Nat]
      /\ k.id = o.id /\ k.fid = o.fid /\ k.fn = o.fn /\ k.cons = c
  BY <1>1, <1>4, <1>6
<1>8. Covered(k)' \/ Storing(k)'
  <2>1. CASE cur["proc"] = Null
    <3>1. k.cons = 0
      BY <1>7, <2>1 DEF c
    <3>2. QED
      BY <1>3, <1>5, <1>7, <3>1 DEF Storing
  <2>2. CASE cur["proc"] # Null
    <3>1. PICK n \in 1..used : n = cur["proc"]
      BY <1>a, <2>2
    <3>2. Same(n)
      BY <1>a, <1>5, <2>2, <3>1 DEF AtHand
    <3>3. (k.fid - k.cons)..(k.fid - 1) \subseteq node[n].have
      BY <1>4, <1>7, <2>2, <3>1, ConsecutivesHad DEF c
    <3>4. Covers(n, k, k.fid - 1)'
      BY <1>5, <3>3 DEF Covers
    <3>5. CASE k.id \in raced
      BY <1>5, <3>5 DEF Covered
    <3>6. CASE k.id \notin raced
      <4>1. n \in Holders(k.id)'
        BY <1>5, <1>7, <3>2, <3>6 DEF Same, Holders
      <4>2. QED
        BY <1>3, <1>5, <1>7, <3>4, <4>1 DEF Storing
    <3>7. QED
      BY <3>5, <3>6
  <2>3. QED
    BY <2>1, <2>2
<1>9. QED
  BY <1>2, <1>7, <1>8

(* The processor searches for the block, stores the fragment in it or in a *)
(* new one.                                                                *)
LEMMA ProcStoring ==
  ASSUME IInv, Proc, NEW k, k.fid \in Nat, k.cons \in Nat, Storing(k)
  PROVE  Covered(k)' \/ Storing(k)'
<1>1. CASE FindRdLock("proc")
  <2>1. /\ pc["proc"] = "find" /\ pc'["proc"] = "walk" /\ op' = op /\ InList' = InList /\ node' = node
    BY <1>1 DEF FindRdLock, cacheVars, InList, IInv, Places, Users
  <2>2. QED
    BY <2>1 DEF Storing, Holders, Covers
<1>2. CASE FindLock("proc")
  BY <1>2, FindStoring
<1>3. CASE AddFragmentNew
  BY <1>3, NewStoring
<1>4. CASE AddFragmentOld
  BY <1>4, OldStoring
<1>5. CASE Receive \/ Acknowledge \/ Announce
  BY <1>5 DEF Receive, Acknowledge, Announce, ProcFound, Storing
<1>6. QED
  BY <1>1, <1>2, <1>3, <1>4, <1>5 DEF Proc

(* What was acknowledged is in the cache or on its way there. *)
LEMMA KeptStep == ASSUME IInv, Next PROVE Kept'
<1> DEFINE Ack == [id : Ids, fid : Nat, fn : Nat, cons : Nat]
<1>a. Evolves /\ Places /\ Kept /\ acks \subseteq Ack
  BY Grows DEF IInv, Kept
<1>1. ASSUME NEW k \in acks PROVE Covered(k)' \/ Storing(k)'
  <2>1. k.fid \in Nat /\ k.cons \in Nat
    BY <1>a
  <2>2. CASE Covered(k)
    BY <1>a, <2>2, CoveredKeeps
  <2>3. CASE Storing(k)
    BY <2>1, <2>3, AppStoring, ProcStoring DEF Next
  <2>4. QED
    BY <1>a, <2>2, <2>3 DEF Kept
<1>2. CASE Acknowledge
  <2>1. PICK k \in Ack : acks' = acks \cup {k} /\ (Covered(k)' \/ Storing(k)')
    BY <1>2, AcknowledgeStoring
  <2>2. acks' \subseteq Ack
    BY <1>a, <2>1
  <2>3. \A j \in acks' : Covered(j)' \/ Storing(j)'
    BY <1>1, <2>1
  <2>4. QED
    BY <2>2, <2>3 DEF Kept
<1>3. CASE ~Acknowledge
  <2>1. acks' = acks
    <3>1. CASE App
      BY <3>1, AppLeaves
    <3>2. CASE Proc
      BY <1>3, <3>2 DEF Proc, Receive, FindRdLock, FindLock, AddFragmentNew, AddFragmentOld, Announce,
                        histVars
    <3>3. QED
      BY <3>1, <3>2 DEF Next
  <2>2. QED
    BY <1>a, <1>1, <2>1 DEF Kept
<1>4. QED
  BY <1>2, <1>3

-----------------------------------------------------------------------------
(* The announcements.                                                      *)

(* Of two blocks of the list one is before the other. *)
LEMMA BeforeTotal ==
  ASSUME Places, NEW a \in InList, NEW b \in InList, a # b
  PROVE  Before(a, b) \/ Before(b, a)
<1>1. PICK i \in 1..Len(list) : list[i] = a
  BY DEF InList
<1>2. PICK j \in 1..Len(list) : list[j] = b
  BY DEF InList
<1>3. i < j \/ j < i
  BY <1>1, <1>2, ListUsed
<1>4. QED
  BY <1>1, <1>2, <1>3 DEF Before

(* What is before a block in the list stays complete, whoever takes the    *)
(* step, when a new block is complete.                                     *)
LEMMA FrontKeeps ==
  ASSUME Places, Evolves, Blocks', NEW a \in 1..used, Front(a),
         \A b \in InList' \ InList : Complete(node'[b])
  PROVE  Front(a)'
<1>1. SUFFICES ASSUME NEW b \in InList', Before(b, a)', node'[b].id = node'[a].id
               PROVE  Complete(node'[b])
  BY DEF Front
<1>2. a \in InList'
  BY <1>1 DEF Before, InList
<1>3. CASE b \in InList
  <2>1. b \in 1..used /\ b # used + 1
    BY <1>3, ListUsed DEF Places
  <2>2. Before(b, a)
    BY <1>1, <1>2, <2>1 DEF Evolves
  <2>3. node[b].id = node[a].id
    BY <1>1, <2>1 DEF Evolves
  <2>4. Complete(node[b])
    BY <1>3, <2>2, <2>3 DEF Front
  <2>5. QED
    BY <2>1, <2>4, StaysComplete
<1>4. CASE b \notin InList
  BY <1>4
<1>5. QED
  BY <1>3, <1>4

(* The announcements made are of blocks that are complete. *)
LEMMA TellsTruth ==
  ASSUME IInv, Next
  PROVE  \A t \in told' : t.id \in raced' \/ (t.at \in 1..used' /\ Complete(node'[t.at]))
<1>a. /\ Evolves /\ Places /\ Blocks' /\ Told /\ AtHand /\ "proc" \in Users /\ used \in Nat
      /\ cur \in [Users -> (1..used) \cup {Null}]
  BY Grows DEF IInv, Places, Users
<1>1. ASSUME NEW t \in told PROVE t.id \in raced' \/ (t.at \in 1..used' /\ Complete(node'[t.at]))
  <2>1. CASE t.id \in raced
    BY <1>a, <2>1 DEF Evolves
  <2>2. CASE t.id \notin raced
    <3>1. t.at \in 1..used /\ Complete(node[t.at])
      BY <1>a, <2>2 DEF Told
    <3>2. Complete(node'[t.at])
      BY <1>a, <3>1, StaysComplete
    <3>3. QED
      BY <1>a, <3>1, <3>2 DEF Evolves
  <2>3. QED
    BY <2>1, <2>2
<1>2. CASE Announce
  <2> DEFINE n == cur["proc"]
             t == [id |-> op["proc"].id, at |-> n]
  <2>1. /\ pc["proc"] = "found" /\ op["proc"].kind = "complete" /\ node' = node /\ used' = used
        /\ raced' = raced
    BY <1>2 DEF Announce, ProcFound, cacheVars
  <2>2. told' = told \/ (told' = told \cup {t} /\ (n = Null \/ Complete(node[n])))
    BY <1>2 DEF Announce
  <2>3. t.id = op["proc"].id /\ t.at = n
    OBVIOUS
  <2> HIDE DEF t
  <2>4. n = Null => op["proc"].id \in raced
    BY <1>a, <2>1 DEF AtHand
  <2>5. CASE told' = told
    BY <1>1, <2>5
  <2>6. CASE told' = told \cup {t} /\ (n = Null \/ Complete(node[n]))
    <3>1. t.id \in raced' \/ (t.at \in 1..used' /\ Complete(node'[t.at]))
      BY <1>a, <2>1, <2>3, <2>4, <2>6
    <3>2. QED
      BY <1>1, <2>6, <3>1
  <2>7. QED
    BY <2>2, <2>5, <2>6
<1>3. CASE ~Announce
  <2>1. told' = told
    <3>1. CASE App
      BY <3>1, AppLeaves
    <3>2. CASE Proc
      BY <1>3, <3>2 DEF Proc, Receive, FindRdLock, FindLock, AddFragmentNew, AddFragmentOld, Acknowledge,
                        histVars
    <3>3. QED
      BY <3>1, <3>2 DEF Next
  <2>2. QED
    BY <1>1, <2>1
<1>4. QED
  BY <1>2, <1>3

(* What the search finds in place of the block just stored in is complete  *)
(* when that one is.                                                       *)
LEMMA FindsComplete ==
  ASSUME Places, Blocks, NEW a \in InList, Complete(node[a]), Front(a)
  PROVE  LET n == FindBlock(node[a].id) IN n # Null /\ Complete(node[n])
<1>1. PICK id : id = node[a].id
  OBVIOUS
<1>2. Holders(id) # {} /\ a \in Holders(id)
  BY <1>1 DEF Holders
<1> DEFINE n == FindBlock(id)
<1>3. n \in Holders(id) /\ n # Null /\ \A b : Before(b, n) => node[b].id # id
  BY <1>2, FindFirst, FindType
<1> HIDE DEF n
<1>4. n \in InList /\ node[n].id = id
  BY <1>3 DEF Holders
<1>5. Complete(node[n])
  <2>1. CASE n = a
    BY <2>1
  <2>2. CASE n # a
    <3>1. ~Before(a, n)
      BY <1>1, <1>3
    <3>2. Before(n, a)
      BY <1>4, <2>2, <3>1, BeforeTotal
    <3>3. QED
      BY <1>1, <1>4, <3>2 DEF Front
  <2>3. QED
    BY <2>1, <2>2
<1>6. QED
  BY <1>1, <1>3, <1>5 DEF n

(* The application leaves every block announced. *)
LEMMA AppAnnounced == ASSUME IInv, App PROVE \A a \in InList' : Announced(a)'
<1>a. /\ Evolves /\ Places /\ Blocks' /\ Told /\ InList \subseteq 1..used /\ "proc" \in Users
      /\ cur \in [Users -> (1..used) \cup {Null}]
  BY Grows, ListUsed DEF IInv, Next, Places, Users
<1>1. /\ \A a \in 1..used : node'[a] = node[a]
      /\ \A a \in InList' \ InList : node'[a].by = "app" /\ Complete(node'[a])
  BY AppNodes
<1>2. /\ pc'["proc"] = pc["proc"] /\ op'["proc"] = op["proc"] /\ cur'["proc"] = cur["proc"]
      /\ told' = told
  BY AppLeaves
<1>3. ASSUME NEW a \in InList' PROVE Announced(a)'
  <2>1. CASE a \notin InList
    BY <1>1, <1>3, <2>1 DEF Announced
  <2>2. CASE a \in InList
    <3>1. node'[a] = node[a] /\ Announced(a)
      BY <1>a, <1>1, <2>2 DEF Told
    <3>2. Due(a) => Due(a)'
      BY <1>a, <1>1, <1>2, <3>1 DEF Due
    <3>3. QED
      BY <1>2, <3>1, <3>2 DEF Announced
  <2>3. QED
    BY <2>1, <2>2
<1>4. QED
  BY <1>3

(* So does the processor. *)
LEMMA ProcAnnounced == ASSUME IInv, Proc PROVE \A a \in InList' : Announced(a)'
<1>a. /\ Evolves /\ Places /\ Blocks /\ Blocks' /\ Told /\ AtHand /\ Ops /\ InList \subseteq 1..used
      /\ "proc" \in Users /\ cur \in [Users -> (1..used) \cup {Null}] /\ pc \in [Users -> AppPlaces]
  BY Grows, ListUsed DEF IInv, Next, Places, Users
<1>b. \A a \in InList : Announced(a)
  BY <1>a DEF Told
<1>1. CASE Receive \/ Acknowledge
  <2>1. /\ InList' = InList /\ node' = node /\ told' = told
        /\ pc["proc"] = "idle" \/ op["proc"].kind = "cons"
    BY <1>1 DEF Receive, Acknowledge, ProcFound, cacheVars, histVars, InList
  <2>2. \A a : ~Due(a)
    BY <2>1 DEF Due
  <2>3. QED
    BY <1>b, <2>1, <2>2 DEF Announced
<1>2. CASE FindRdLock("proc")
  <2>1. /\ InList' = InList /\ node' = node /\ told' = told /\ pc["proc"] = "find"
        /\ pc'["proc"] = "walk" /\ op' = op /\ cur' = cur
    BY <1>a, <1>2 DEF FindRdLock, cacheVars, histVars, InList
  <2>2. \A a : Due(a) => Due(a)'
    BY <2>1 DEF Due
  <2>3. QED
    BY <1>b, <2>1, <2>2 DEF Announced
<1>3. CASE FindLock("proc")
  <2>1. /\ InList' = InList /\ node' = node /\ told' = told /\ pc["proc"] = "walk"
        /\ pc'["proc"] = "found" /\ op' = op /\ cur'["proc"] = FindBlock(op["proc"].id)
    BY <1>a, <1>3 DEF FindLock, cacheVars, histVars, InList
  <2>2. ASSUME NEW a \in InList, Complete(node[a]), Due(a) PROVE Due(a)'
    <3>1. /\ op["proc"].kind = "complete" /\ node[a].id = op["proc"].id /\ cur["proc"] = a
      BY <2>1, <2>2 DEF Due
    <3>2. Front(a)
      BY <1>a, <2>1, <3>1 DEF Told, Stored1
    <3>3. cur'["proc"] # Null /\ Complete(node[cur'["proc"]])
      BY <1>a, <2>1, <2>2, <3>1, <3>2, FindsComplete
    <3>4. QED
      BY <2>1, <3>1, <3>3 DEF Due
  <2>3. QED
    BY <1>b, <2>1, <2>2 DEF Announced
<1>4. CASE AddFragmentNew \/ AddFragmentOld
  <2>1. /\ told' = told /\ pc["proc"] = "found" /\ op["proc"].kind = "frag" /\ op["proc"] \in Task
    BY <1>a, <1>4 DEF AddFragmentNew, AddFragmentOld, ProcFound, histVars, Ops
  <2>2. \A a : ~Due(a)
    BY <2>1 DEF Due
  <2>3. ASSUME NEW a \in InList, node'[a] = node[a] PROVE Announced(a)'
    BY <1>b, <2>1, <2>2, <2>3 DEF Announced
  <2>4. CASE InList' = InList /\ node' = node
    BY <2>3, <2>4
  <2>5. CASE AddFragmentNew /\ (op["proc"].fid = op["proc"].fn - 1 \/ op["proc"].len = MTU)
    <3>1. PICK b \in Block : /\ b.id = op["proc"].id /\ b.have = {op["proc"].fid}
                             /\ op["proc"].fid \in 0..(b.fn - 1) /\ b.by = "proc" /\ Insert(b)
                             /\ raced' = raced \cup {node[a].id : a \in Holders(b.id)}
      BY <2>5, AddFragmentMakes
    <3>2. b.have \subseteq 0..(b.fn - 1) /\ b.by # "app"
      BY <3>1
    <3>3. /\ InList' = InList \cup {used + 1} /\ node'[used + 1] = b
          /\ \A a \in 1..used : node'[a] = node[a]
      BY <1>a, <3>1, <3>2, Inserted
    <3>4. pc'["proc"] = "find" /\ cur'["proc"] = used + 1 /\ Then("complete")
      BY <1>a, <2>5 DEF AddFragmentNew
    <3>5. op'["proc"].id = op["proc"].id /\ op'["proc"].kind = "complete"
      BY <1>a, <2>1, <3>4, ThenTask
    <3>6. PICK n : n = used + 1
      OBVIOUS
    <3>7. Due(n)'
      BY <3>1, <3>3, <3>4, <3>5, <3>6 DEF Due
    <3>8. Announced(n)'
      BY <3>7 DEF Announced
    <3>9. QED
      BY <1>a, <2>3, <3>3, <3>6, <3>8
  <2>6. CASE AddFragmentOld /\ Stores
    <3>1. PICK n \in 1..used : n = cur["proc"]
      BY <1>a, <2>6 DEF Stores
    <3>2. n \in Addr
      BY <1>a, CacheConstantsOK DEF Places, Addr
    <3>3. \A a \in Addr : a # n => node'[a] = node[a]
      BY <1>a, <2>6, <3>1, <3>2 DEF Stores, Blocks
    <3>4. InList' = InList /\ InList \subseteq Addr
      <4>1. InList' = InList
        BY <2>6, AddFragmentCases DEF InList
      <4>2. 1..used \subseteq Addr
        BY <1>a, CacheConstantsOK DEF Places, Addr
      <4>3. QED
        BY <1>a, <4>1, <4>2
    <3>5. pc'["proc"] = "find" /\ cur'["proc"] = n /\ Then("complete") /\ cur["proc"] # Null
      BY <1>a, <2>6, <3>1 DEF Stores
    <3>6. op'["proc"].id = op["proc"].id /\ op'["proc"].kind = "complete"
      BY <1>a, <2>1, <3>5, ThenTask
    <3>7. node'[n].id = node[n].id /\ node[n].id = op["proc"].id
      BY <1>a, <2>1, <3>1, <3>5 DEF Evolves, AtHand, Same
    <3>8. Due(n)'
      BY <3>5, <3>6, <3>7 DEF Due
    <3>9. Announced(n)'
      BY <3>8 DEF Announced
    <3>10. QED
      BY <2>3, <3>3, <3>4, <3>9
  <2>7. QED
    <3>1. CASE AddFragmentNew /\ ~(op["proc"].fid = op["proc"].fn - 1 \/ op["proc"].len = MTU)
      BY <2>4, <3>1 DEF AddFragmentNew, cacheVars, InList
    <3>2. CASE AddFragmentOld /\ ~Stores
      BY <2>4, <3>2, AddFragmentCases DEF InList
    <3>3. QED
      BY <1>4, <2>5, <2>6, <3>1, <3>2
<1>5. CASE Announce
  <2>1. /\ InList' = InList /\ node' = node /\ pc["proc"] = "found" /\ op["proc"].kind = "complete"
        /\ told \subseteq told'
    BY <1>5 DEF Announce, ProcFound, cacheVars, InList
  <2>2. ASSUME NEW a \in InList, Due(a) PROVE \E t \in told' : t.id = node[a].id
    <3>1. node[a].id = op["proc"].id /\ cur["proc"] # Null /\ Complete(node[cur["proc"]])
      BY <2>1, <2>2 DEF Due
    <3>2. PICK t : t = [id |-> op["proc"].id, at |-> cur["proc"]]
      OBVIOUS
    <3>3. told' = told \cup {t}
      BY <1>5, <3>1, <3>2 DEF Announce
    <3>4. t.id = node[a].id
      BY <3>1, <3>2
    <3>5. QED
      BY <3>3, <3>4
  <2>3. QED
    BY <1>b, <2>1, <2>2 DEF Announced
<1>6. QED
  BY <1>1, <1>2, <1>3, <1>4, <1>5 DEF Proc

(* Whatever is before the block at hand is complete. *)
LEMMA FrontStep ==
  ASSUME IInv, Next
  PROVE  (Stored1 \/ (pc["proc"] = "found" /\ op["proc"].kind = "frag" /\ cur["proc"] # Null))'
           => Front(cur["proc"])'
<1>a. /\ Evolves /\ Places /\ Blocks /\ Blocks' /\ Told /\ Ops
      /\ "proc" \in Users /\ cur \in [Users -> (1..used) \cup {Null}] /\ pc \in [Users -> AppPlaces]
  BY Grows DEF IInv, Places, Users
<1> DEFINE At == Stored1 \/ (pc["proc"] = "found" /\ op["proc"].kind = "frag" /\ cur["proc"] # Null)
<1>1. ASSUME NEW a \in 1..used, a = cur'["proc"], Front(a), \A b \in InList' \ InList : Complete(node'[b])
      PROVE  Front(cur["proc"])'
  <2>1. Front(a)'
    BY <1>a, <1>1, FrontKeeps
  <2>2. QED
    BY <1>1, <2>1 DEF Front
<1>2. At => cur["proc"] \in 1..used /\ Front(cur["proc"])
  BY <1>a DEF Told, IInv, AtHand
<1>3. CASE App
  <2>1. pc'["proc"] = pc["proc"] /\ op'["proc"] = op["proc"] /\ cur'["proc"] = cur["proc"]
    BY <1>3, AppLeaves
  <2>2. \A b \in InList' \ InList : Complete(node'[b])
    BY <1>3, AppNodes
  <2>3. At' => At
    BY <2>1 DEF Stored1
  <2>4. QED
    BY <1>1, <1>2, <2>1, <2>2, <2>3
<1>4. CASE Receive \/ Acknowledge
  <2>1. pc'["proc"] = "find" /\ op'["proc"].kind \in {"cons", "frag"}
    BY <1>a, <1>4, ReceiveOp, AcknowledgeOp DEF Receive, Acknowledge, Release
  <2>2. QED
    BY <2>1 DEF Stored1
<1>5. CASE FindRdLock("proc")
  <2>1. /\ pc["proc"] = "find" /\ pc'["proc"] = "walk" /\ op' = op /\ cur' = cur /\ InList' = InList
    BY <1>a, <1>5 DEF FindRdLock, cacheVars, InList
  <2>2. At' => At
    BY <2>1 DEF Stored1
  <2>3. QED
    BY <1>1, <1>2, <2>1, <2>2
<1>6. CASE FindLock("proc")
  <2> DEFINE n == FindBlock(op["proc"].id)
  <2>1. /\ pc'["proc"] = "found" /\ cur'["proc"] = n /\ InList' = InList
    BY <1>a, <1>6 DEF FindLock, cacheVars, InList
  <2>2. n # Null => n \in Holders(op["proc"].id) /\ n \in 1..used
                    /\ \A b : Before(b, n) => node[b].id # op["proc"].id
    BY <1>a, FindType, FindFirst
  <2> HIDE DEF n
  <2>3. n # Null => Front(n)
    BY <2>2 DEF Front, Holders
  <2>4. At' => n # Null
    BY <2>1 DEF Stored1
  <2>5. QED
    BY <1>1, <2>1, <2>2, <2>3, <2>4
<1>7. CASE AddFragmentNew
  <2>1. CASE op["proc"].fid = op["proc"].fn - 1 \/ op["proc"].len = MTU
    <3>1. PICK b \in Block : /\ b.have = {op["proc"].fid} /\ op["proc"].fid \in 0..(b.fn - 1)
                             /\ b.by = "proc" /\ Insert(b)
                             /\ raced' = raced \cup {node[a].id : a \in Holders(b.id)}
      BY <1>7, <2>1, AddFragmentMakes
    <3>2. /\ Len(list') = Len(list) + 1 /\ list'[1] = used + 1
      BY <1>a, <3>1, InsertList
    <3>3. cur'["proc"] = used + 1
      BY <1>a, <1>7, <2>1 DEF AddFragmentNew
    <3>4. Len(list) \in Nat
      BY <1>a, ListUsed
    <3>5. ASSUME NEW i \in 1..Len(list'), NEW j \in 1..Len(list'), i < j, list'[j] = used + 1
          PROVE  FALSE
      <4>1. 1 \in 1..Len(list') /\ j # 1
        BY <3>2, <3>4, <3>5
      <4>2. QED
        BY <1>a, <3>2, <3>5, <4>1 DEF Blocks
    <3>6. \A b1 : ~Before(b1, cur["proc"])'
      BY <3>3, <3>5 DEF Before
    <3>7. QED
      BY <3>6 DEF Front
  <2>2. CASE ~(op["proc"].fid = op["proc"].fn - 1 \/ op["proc"].len = MTU)
    <3>1. pc'["proc"] = "idle"
      BY <1>a, <1>7, <2>2 DEF AddFragmentNew
    <3>2. QED
      BY <3>1 DEF Stored1
  <2>3. QED
    BY <2>1, <2>2
<1>8. CASE AddFragmentOld
  <2>1. CASE Stores
    <3>1. At /\ cur'["proc"] = cur["proc"]
      BY <1>8, <2>1 DEF AddFragmentOld, ProcFound, Stores
    <3>2. InList' = InList
      BY <1>8, AddFragmentCases DEF InList
    <3>3. QED
      BY <1>1, <1>2, <3>1, <3>2
  <2>2. CASE ~Stores
    <3>1. pc'["proc"] = "idle"
      BY <1>a, <1>8, <2>2, AddFragmentCases DEF Release
    <3>2. QED
      BY <3>1 DEF Stored1
  <2>3. QED
    BY <2>1, <2>2
<1>9. CASE Announce
  <2>1. pc'["proc"] = "idle"
    BY <1>a, <1>9 DEF Announce, Release
  <2>2. QED
    BY <2>1 DEF Stored1
<1>10. QED
  BY <1>3, <1>4, <1>5, <1>6, <1>7, <1>8, <1>9 DEF Next, Proc

(* What was announced is complete, what is complete is announced. *)
LEMMA ToldStep == ASSUME IInv, Next PROVE Told'
<1>1. \A t \in told' : t.id \in raced' \/ (t.at \in 1..used' /\ Complete(node'[t.at]))
  BY TellsTruth
<1>2. \A a \in InList' : Announced(a)'
  BY AppAnnounced, ProcAnnounced DEF Next
<1>3. (Stored1 \/ (pc["proc"] = "found" /\ op["proc"].kind = "frag" /\ cur["proc"] # Null))'
        => Front(cur["proc"])'
  BY FrontStep
<1>4. QED
  BY <1>1, <1>2, <1>3 DEF Told

-----------------------------------------------------------------------------
(* The theorems.                                                           *)

(* The empty cache. *)
LEMMA InitInv == Init => IInv
<1> SUFFICES ASSUME Init PROVE IInv
  OBVIOUS
<1>1. MTU \in Nat /\ MaxNodes \in Nat
  BY CacheConstantsOK
<1>2. /\ list = <<>> /\ Len(list) = 0 /\ InList = {} /\ used = 0
      /\ pc = [u \in Users |-> "idle"] /\ \A u \in Users : pc[u] = "idle"
  BY DEF Init, InList
<1>3. "app" \in Users /\ "proc" \in Users
  BY DEF Users
<1>4. Places
  <2>1. used \in 0..MaxNodes /\ list \in Seq(1..used)
    BY <1>1, <1>2
  <2>2. "idle" \in AppPlaces /\ pc \in [Users -> AppPlaces] /\ pc["proc"] \in ProcPlaces
    BY <1>2, <1>3 DEF AppPlaces, ProcPlaces
  <2>3. cur \in [Users -> (1..used) \cup {Null}] /\ ub \in BOOLEAN
    BY DEF Init
  <2>4. owner \in [Addr -> Users \cup {"none"}] /\ readers \subseteq Users
    BY DEF Init
  <2>5. QED
    BY <2>1, <2>2, <2>3, <2>4 DEF Places
<1>5. Locks
  BY <1>2 DEF Init, Locks, Users
<1>6. NoBlock \in Block /\ NoBlock.have = {} /\ NoBlock.by = "none"
  BY <1>1 DEF NoBlock, Block
<1>7. Blocks
  BY <1>2, <1>6 DEF Init, Blocks
<1>8. Ops
  BY <1>2, <1>3 DEF Init, Ops
<1>9. Alone /\ AtHand
  BY <1>2, <1>3 DEF Alone, AtHand, Stored1
<1>10. Kept
  BY DEF Init, Kept
<1>11. Told
  BY <1>2, <1>3 DEF Init, Told, Stored1
<1>12. QED
  BY <1>4, <1>5, <1>7, <1>8, <1>9, <1>10, <1>11 DEF IInv

(* Every step of either user keeps the invariant. *)
LEMMA StepInv == IInv /\ [Next]_vars => IInv'
<1> SUFFICES ASSUME IInv, [Next]_vars PROVE IInv'
  OBVIOUS
<1>1. CASE Next
  BY <1>1, Grows, PlacesStep, AloneStep, AtHandStep, KeptStep, ToldStep DEF IInv
<1>2. CASE vars' = vars
  <2>1. Places' /\ Locks' /\ Ops'
    BY <1>2 DEF vars, IInv, Places, Locks, Ops
  <2>2. Blocks' /\ InList' = InList /\ Alone'
    BY <1>2 DEF vars, IInv, Blocks, InList, Alone
  <2>3. AtHand'
    BY <1>2, <2>2 DEF vars, IInv, AtHand, Stored1, Same
  <2>4. Kept'
    BY <1>2, <2>2 DEF vars, IInv, Kept, Covered, Storing, Holders, Covers
  <2>5. Told'
    BY <1>2, <2>2 DEF vars, IInv, Told, Announced, Due, Stored1, Front, Before
  <2>6. QED
    BY <2>1, <2>2, <2>3, <2>4, <2>5 DEF IInv
<1>3. QED
  BY <1>1, <1>2

(* The discipline of the locks, the identity of the blocks, what was       *)
(* acknowledged and what was announced hold together, whatever the calls   *)
(* of the application and the fragments of the peers.                      *)
THEOREM CacheHolds == Spec => []IInv
BY InitInv, StepInv, PTL DEF Spec

(* The variables keep their types: no fragment is ever stored outside the  *)
(* array f of its block, whatever contents peers send under one id.        *)
THEOREM TypeCorrect == Spec => []TypeOK
<1>1. IInv => TypeOK
  <2> SUFFICES ASSUME IInv PROVE TypeOK
    OBVIOUS
  <2>1. Places /\ Blocks /\ InList \subseteq 1..used /\ 1..used \subseteq Addr
    BY ListUsed, CacheConstantsOK DEF IInv, Places, Addr
  <2>2. \A a \in Addr : node[a] \in Block
    BY <2>1 DEF Blocks
  <2>3. \A a \in Addr : node[a].lastlen \in {Unset} \cup 0..MTU
    BY <2>2 DEF Block
  <2>4. \A a \in Addr : node[a].have \subseteq 0..(node[a].fn - 1)
    BY <2>1 DEF Blocks
  <2>5. cur \in [Users -> Addr \cup {Null}]
    BY <2>1 DEF Places
  <2>6. pc \in [Users -> {"idle", "find", "walk", "found", "delete", "free", "list", "listing"}]
    <3>1. AppPlaces = {"idle", "find", "walk", "found", "delete", "free", "list", "listing"}
      BY DEF AppPlaces, ProcPlaces
    <3>2. QED
      BY <2>1, <3>1 DEF Places
  <2>7. QED
    BY <2>1, <2>3, <2>4, <2>5, <2>6 DEF TypeOK, Places
<1>2. QED
  BY <1>1, CacheHolds, PTL

(* Neither user ever waits for a lock that it holds, and the two never     *)
(* wait for each other, whatever rwlock and the locks of the blocks are    *)
(* taken for.                                                              *)
THEOREM NoLockCycleCorrect == Spec => []NoLockCycle
<1>1. IInv => NoLockCycle
  <2> SUFFICES ASSUME IInv PROVE NoLockCycle
    OBVIOUS
  <2>1. Places /\ Locks /\ Blocks /\ Ops /\ 1..used \subseteq Addr /\ Null \notin Addr
        /\ "app" \in Users /\ "proc" \in Users
    BY CacheConstantsOK DEF IInv, Places, Addr, Null, Users
  <2>2. ASSUME NEW u \in Users, NEW v \in Users, WaitsFor(u, v)
        PROVE  \/ pc[u] \in {"walk", "listing"} /\ pc[v] = "found" /\ cur[v] # Null
               \/ /\ pc[u] = "delete" \/ (pc[u] = "found" /\ cur[u] = Null)
                  /\ pc[v] \in {"walk", "listing"}
    <3>1. ASSUME NEW a \in Addr, owner[a] = v PROVE pc[v] = "found" /\ cur[v] # Null
      BY <2>1, <3>1 DEF Locks
    <3>2. CASE pc[u] = "walk" /\ FindBlock(op[u].id) # Null /\ owner[FindBlock(op[u].id)] = v
      <4>1. FindBlock(op[u].id) \in Addr
        BY <2>1, <3>2, FindType
      <4>2. QED
        BY <3>1, <3>2, <4>1
    <3>3. CASE (pc[u] = "delete" \/ (pc[u] = "found" /\ cur[u] = Null)) /\ v \in readers
      BY <2>1, <3>3 DEF Locks
    <3>4. CASE pc[u] = "listing" /\ op[u].at < Len(list) /\ owner[list[op[u].at + 1]] = v
      <4>1. u = "app"
        BY <2>1, <3>4 DEF Places, ProcPlaces, Users
      <4>2. op[u].at \in Nat
        BY <2>1, <3>4, <4>1 DEF Ops, Listing
      <4>3. op[u].at + 1 \in 1..Len(list) /\ list \in Seq(1..used)
        BY <2>1, <3>4, <4>2 DEF Places
      <4>4. list[op[u].at + 1] \in Addr
        BY <2>1, <4>3, ElementOfSeq
      <4>5. QED
        BY <3>1, <3>4, <4>4
    <3>5. QED
      BY <2>2, <3>2, <3>3, <3>4 DEF WaitsFor
  <2>3. \A u \in Users : ~WaitsFor(u, u)
    BY <2>2
  <2>4. ~(WaitsFor("app", "proc") /\ WaitsFor("proc", "app"))
    BY <2>1, <2>2
  <2>5. QED
    BY <2>3, <2>4 DEF NoLockCycle
<1>2. QED
  BY <1>1, CacheHolds, PTL

(* What the processor acknowledged is in the cache when it is done with    *)
(* the fragment, the fragments directly before it too, unless the          *)
(* application deleted or added the block meanwhile or the block has       *)
(* another number of fragments.                                            *)
THEOREM AcknowledgedCorrect == Spec => []AcknowledgedIsStored
<1>1. IInv => AcknowledgedIsStored
  <2> SUFFICES ASSUME IInv, pc["proc"] = "idle", NEW k \in acks
               PROVE  \/ k.id \in raced
                      \/ \E a \in Holders(k.id) : \/ (k.fid - k.cons)..k.fid \subseteq node[a].have
                                                  \/ node[a].fn # k.fn
    BY DEF AcknowledgedIsStored
  <2>1. Covered(k)
    BY DEF IInv, Kept, Storing
  <2>2. QED
    BY <2>1 DEF Covered, Covers
<1>2. QED
  BY <1>1, CacheHolds, PTL

(* What was announced to the application is complete, unless it raced; and *)
(* when the processor is done with a fragment, every block it completed    *)
(* has been announced.                                                     *)
THEOREM AnnouncedCorrect == Spec => []AnnouncedIffComplete
<1>1. IInv => AnnouncedIffComplete
  <2> SUFFICES ASSUME IInv PROVE AnnouncedIffComplete
    OBVIOUS
  <2>1. \A t \in told : t.id \in raced \/ (t.at # Null /\ Complete(node[t.at]))
    BY DEF IInv, Told, Null
  <2>2. ASSUME pc["proc"] = "idle", NEW a \in InList, node[a].by = "proc", Complete(node[a])
        PROVE  \E t \in told : t.id = node[a].id
    BY <2>2 DEF IInv, Told, Announced, Due
  <2>3. QED
    BY <2>1, <2>2 DEF AnnouncedIffComplete
<1>2. QED
  BY <1>1, CacheHolds, PTL

-----------------------------------------------------------------------------
(* Where the lengths of a block come from.                                 *)

(* Block b has the number of fragments and the last length of a content of *)
(* length l.                                                               *)
CutOf(b, l) == b.fn = calcfragments(l).fn /\ b.lastlen = calcfragments(l).lastlen

(* A block that addblock made. *)
MadeByAdd(b) ==
  b.by = "app" /\ b.id \in Ids /\ \E l \in AddLengths : CutOf(b, l) /\ b.length = l

(* A block that addfragment made: once it has its last fragment, it is cut *)
(* as at the source, and its length is right unless that came first.       *)
MadeByFragments(b) ==
  /\ b.by = "proc" /\ b.id \in Ids /\ b.fn > 0
  /\ b.lastlen = Unset => b.fn - 1 \notin b.have
  /\ b.lastlen # Unset =>
       /\ \E l \in Versions[b.id] : CutOf(b, l)
       /\ \/ b.length = (b.fn - 1) * MTU + b.lastlen
          \/ b.first = b.fn - 1 /\ b.length = b.fn * MTU

Made(b) == MadeByAdd(b) \/ MadeByFragments(b)

(* The fragment o is one of a content. *)
FromContent(o) ==
  \E l \in Versions[o.id] : /\ o.fn = calcfragments(l).fn
                            /\ o.fid = o.fn - 1 => o.len = calcfragments(l).lastlen

CutInv ==
  /\ \A a \in 1..used : Made(node[a])
  /\ pc["proc"] # "idle" => FromContent(op["proc"])

(* No content has more fragments than fn, 16 bits wide, can count. *)
ShortContents == \A id \in Ids : \A l \in Lengths(id) : l <= (FnMod - 1) * MTU

(* calcfragments loses nothing of a content that is short enough: all      *)
(* fragments but the last are full, and the last is not empty.             *)
LEMMA CutAddsUp ==
  ASSUME NEW l \in Nat, l > 0, l <= (FnMod - 1) * MTU
  PROVE  LET fs == calcfragments(l)
         IN  fs.fn \in Nat \ {0} /\ fs.lastlen \in 1..MTU /\ (fs.fn - 1) * MTU + fs.lastlen = l
<1>1. MTU \in Nat /\ MTU > 0 /\ FnMod \in Nat /\ FnMod > 0
  BY CacheConstantsOK
<1>2. PICK q \in Nat, r \in Nat : q = l \div MTU /\ r = l % MTU /\ r < MTU /\ l = MTU * q + r
  BY <1>1
<1>3. q <= FnMod - 1 /\ (r > 0 => q + 1 <= FnMod - 1)
  <2>1. \A x, y \in Nat : x >= y => MTU * x >= MTU * y
    BY <1>1
  <2>2. CASE q >= FnMod
    <3>1. MTU * q >= MTU * FnMod
      BY <1>1, <2>1, <2>2
    <3>2. QED
      BY <1>1, <1>2, <3>1
  <2>3. CASE r > 0 /\ q >= FnMod - 1
    <3>1. FnMod - 1 \in Nat
      BY <1>1
    <3>2. MTU * q >= MTU * (FnMod - 1)
      BY <2>1, <2>3, <3>1
    <3>3. QED
      BY <1>1, <1>2, <2>3, <3>2
  <2>4. QED
    BY <1>1, <1>2, <2>2, <2>3
<1>4. q % FnMod = q /\ (r > 0 => (q + 1) % FnMod = q + 1)
  BY <1>1, <1>3
<1>5. calcfragments(l) = CASE l < 1 -> [fn |-> 0, lastlen |-> 0]
                           [] l >= 1 /\ r = 0 -> [fn |-> q % FnMod, lastlen |-> MTU]
                           [] OTHER -> [fn |-> ((q % FnMod) + 1) % FnMod, lastlen |-> r]
  BY <1>2 DEF calcfragments
<1>6. CASE r = 0
  <2>1. calcfragments(l) = [fn |-> q, lastlen |-> MTU]
    BY <1>4, <1>5, <1>6
  <2>2. q # 0
    BY <1>1, <1>2, <1>6
  <2>3. (q - 1) * MTU + MTU = l
    BY <1>1, <1>2, <1>6
  <2>4. QED
    BY <1>1, <2>1, <2>2, <2>3
<1>7. CASE r > 0
  <2>1. calcfragments(l) = [fn |-> q + 1, lastlen |-> r]
    BY <1>4, <1>5, <1>7
  <2>2. q + 1 \in Nat \ {0} /\ (q + 1 - 1) * MTU + r = l /\ r \in 1..MTU
    BY <1>1, <1>2, <1>7
  <2>3. QED
    BY <2>1, <2>2
<1>8. QED
  BY <1>2, <1>6, <1>7

(* What peers send is cut from a content. *)
LEMMA FragmentFromContent ==
  ASSUME NEW fr \in Fragment
  PROVE  FromContent(fr)
<1>0. PICK b \in Ids : \E l \in Versions[b] : fr \in FragmentsOf(b, l)
  BY DEF Fragment
<1>1. PICK l \in Versions[b] : fr \in FragmentsOf(b, l)
  BY <1>0
<1>2. PICK i \in 0..(calcfragments(l).fn - 1) :
        fr = [id |-> b, fid |-> i, fn |-> calcfragments(l).fn, len |-> FragmentLength(l, i)]
  BY <1>1 DEF FragmentsOf
<1>3. fr.id = b /\ fr.fid = i /\ fr.fn = calcfragments(l).fn /\ fr.len = FragmentLength(l, i)
  BY <1>2
<1>4. i = calcfragments(l).fn - 1 => FragmentLength(l, i) = calcfragments(l).lastlen
  BY DEF FragmentLength
<1>5. QED
  BY <1>3, <1>4 DEF FromContent

(* The processor works on a fragment of a content from Receive on. *)
LEMMA FromContentStep ==
  ASSUME IInv, CutInv, Next, pc'["proc"] # "idle"
  PROVE  FromContent(op'["proc"])
<1>1. CASE App
  BY <1>1, AppLeaves DEF CutInv
<1>2. CASE Receive
  <2>1. PICK fr \in Fragment : op' = [op EXCEPT !["proc"] = [kind |-> "cons", id |-> fr.id, fid |-> fr.fid,
                                                           fn |-> fr.fn, len |-> fr.len]]
    BY <1>2 DEF Receive
  <2>2. op = [u \in Users |-> op[u]] /\ "proc" \in Users
    BY DEF IInv, Ops, Users
  <2>3. op'["proc"] = [kind |-> "cons", id |-> fr.id, fid |-> fr.fid, fn |-> fr.fn, len |-> fr.len]
    BY <2>1, <2>2
  <2>4. FromContent(fr)
    BY FragmentFromContent
  <2>5. QED
    BY <2>3, <2>4 DEF FromContent
<1>3. CASE pc["proc"] # "idle" /\ op' = op
  BY <1>3 DEF CutInv
<1>4. CASE pc["proc"] # "idle" /\ \E k \in {"frag", "complete"} : Then(k)
  <2>1. PICK k \in {"frag", "complete"} : Then(k)
    BY <1>4
  <2>2. op["proc"] \in Task /\ Ops
    BY <1>4 DEF IInv, Ops
  <2>3. /\ op'["proc"].id = op["proc"].id /\ op'["proc"].fid = op["proc"].fid
        /\ op'["proc"].fn = op["proc"].fn /\ op'["proc"].len = op["proc"].len
    BY <2>1, <2>2, ThenTask
  <2>4. QED
    BY <1>4, <2>3 DEF CutInv, FromContent
<1>5. Proc => Receive \/ (pc["proc"] # "idle" /\ (op' = op \/ \E k \in {"frag", "complete"} : Then(k)))
  BY DEF Proc, FindRdLock, FindLock, Acknowledge, AddFragmentNew, AddFragmentOld, Announce, ProcFound
<1>6. QED
  BY <1>1, <1>2, <1>3, <1>4, <1>5 DEF Next

(* A step that puts a well made block into the list, or none. *)
LEMMA InsertMade ==
  ASSUME IInv, CutInv, NEW b, Insert(b), Made(b)
  PROVE  \A a \in 1..used' : Made(node'[a])
<1>1. used' = used + 1 /\ used \in Nat /\ MaxNodes \in Nat /\ used < MaxNodes
  BY CacheConstantsOK DEF Insert, IInv, Places
<1>2. node' = [node EXCEPT ![used + 1] = b] /\ DOMAIN node = Addr
  BY DEF Insert, IInv, Blocks
<1>3. used + 1 \in Addr /\ 1..used \subseteq Addr /\ used + 1 \notin 1..used
  BY <1>1 DEF Addr
<1>4. node'[used + 1] = b /\ \A a \in 1..used : node'[a] = node[a]
  BY <1>2, <1>3
<1>5. \A a \in 1..used' : a = used + 1 \/ a \in 1..used
  BY <1>1
<1>6. QED
  BY <1>4, <1>5 DEF CutInv

(* addblock cuts the content it is given. *)
LEMMA AddBlockCuts ==
  ASSUME IInv, CutInv, AddBlock, cur["app"] = Null
  PROVE  \A a \in 1..used' : Made(node'[a])
<1> DEFINE fs == calcfragments(op["app"].len)
           b == [id |-> op["app"].id, fn |-> fs.fn, have |-> 0..(fs.fn - 1),
                 lastlen |-> fs.lastlen, length |-> op["app"].len, by |-> "app", first |-> 0]
<1>1. Insert(b)
  BY DEF AddBlock
<1>2. op["app"].len \in AddLengths /\ op["app"].id \in Ids
  BY DEF AddBlock, AppFound, IInv, Ops
<1>3. /\ b.fn = fs.fn /\ b.lastlen = fs.lastlen /\ b.length = op["app"].len
      /\ b.by = "app" /\ b.id = op["app"].id
  OBVIOUS
<1>4. Made(b)
  BY <1>2, <1>3 DEF Made, MadeByAdd, CutOf
<1> HIDE DEF b
<1>5. QED
  BY <1>1, <1>4, InsertMade

(* addfragment makes a block from one fragment. *)
LEMMA AddFragmentCuts ==
  ASSUME IInv, CutInv, AddFragmentNew, op["proc"].fid = op["proc"].fn - 1 \/ op["proc"].len = MTU
  PROVE  \A a \in 1..used' : Made(node'[a])
<1> DEFINE o == op["proc"]
           ll == IF o.fid = o.fn - 1 THEN o.len ELSE Unset
           tot == MTU * o.fn
           b == [id |-> o.id, fn |-> o.fn, have |-> {o.fid}, lastlen |-> ll,
                 length |-> tot, by |-> "proc", first |-> o.fid]
<1>1. Insert(b)
  BY DEF AddFragmentNew
<1>2. o \in Task /\ Fits(o) /\ FromContent(o)
  BY DEF AddFragmentNew, ProcFound, IInv, Ops, CutInv
<1> HIDE DEF o
<1>3. o.id \in Ids /\ o.fid \in Nat /\ o.fn \in Nat /\ o.fn > 0 /\ o.len \in 0..MTU
  BY <1>2 DEF Task, Fits
<1>4. tot = o.fn * MTU
  BY <1>3, CacheConstantsOK
<1> HIDE DEF tot
<1>5. /\ b.id = o.id /\ b.fn = o.fn /\ b.have = {o.fid} /\ b.by = "proc" /\ b.first = o.fid
      /\ b.lastlen = ll /\ b.length = tot
  OBVIOUS
<1> HIDE DEF b
<1>6. CASE o.fid = o.fn - 1
  <2>1. ll = o.len /\ ll # Unset
    BY <1>3, <1>6, CacheConstantsOK DEF Unset
  <2>2. \E l \in Versions[o.id] : CutOf(b, l)
    BY <1>2, <1>5, <1>6, <2>1 DEF FromContent, CutOf
  <2>3. b.first = b.fn - 1 /\ b.length = b.fn * MTU
    BY <1>4, <1>5, <1>6
  <2>4. Made(b)
    BY <1>3, <1>5, <2>1, <2>2, <2>3 DEF Made, MadeByFragments
  <2>5. QED
    BY <1>1, <2>4, InsertMade
<1>7. CASE o.fid # o.fn - 1
  <2>1. b.lastlen = Unset /\ b.fn - 1 \notin b.have
    BY <1>5, <1>7
  <2>2. Made(b)
    BY <1>3, <1>5, <2>1 DEF Made, MadeByFragments
  <2>3. QED
    BY <1>1, <2>2, InsertMade
<1>8. QED
  BY <1>6, <1>7

(* Storing a fragment in a block that fragments made; a block of the       *)
(* application has them all.                                               *)
LEMMA StoredMade ==
  ASSUME NEW b \in Block, b.by = "app" => Complete(b), Made(b), NEW o \in Task, FromContent(o),
         b.id = o.id, "ADDED" \in Verdict(b, o)
  PROVE  Made(Stored(b, o))
<1>1. o.fid \notin b.have /\ o.fid < b.fn /\ o.fn = b.fn
  BY AddedFits
<1>2. b.fn \in Nat /\ o.fid \in Nat /\ o.len \in 0..MTU /\ MTU \in Nat
  BY CacheConstantsOK DEF Block, Task
<1>3. b.by # "app"
  <2>1. o.fid \in 0..(b.fn - 1)
    BY <1>1, <1>2
  <2>2. QED
    BY <1>1, <2>1 DEF Complete
<1>4. MadeByFragments(b)
  BY <1>3 DEF Made, MadeByAdd
<1> DEFINE tot == (b.fn - 1) * MTU + o.len
           s == Stored(b, o)
<1>5. s = [b EXCEPT !.have = @ \cup {o.fid},
                    !.lastlen = IF o.fid = o.fn - 1 THEN o.len ELSE @,
                    !.length = IF o.fid = o.fn - 1 THEN tot ELSE @]
  BY DEF Stored
<1> HIDE DEF s, tot
<1>6. /\ s.id = b.id /\ s.fn = b.fn /\ s.by = b.by /\ s.have = b.have \cup {o.fid}
      /\ s.first = b.first
      /\ s.lastlen = IF o.fid = o.fn - 1 THEN o.len ELSE b.lastlen
      /\ s.length = IF o.fid = o.fn - 1 THEN tot ELSE b.length
  BY <1>5 DEF Block
<1>7. CASE o.fid = o.fn - 1
  <2>1. s.lastlen = o.len /\ s.lastlen # Unset
    BY <1>2, <1>6, <1>7 DEF Unset
  <2>2. s.length = (s.fn - 1) * MTU + s.lastlen
    BY <1>6, <1>7, <2>1 DEF tot
  <2>3. \E l \in Versions[s.id] : CutOf(s, l)
    BY <1>1, <1>6, <1>7, <2>1 DEF FromContent, CutOf
  <2>4. QED
    BY <1>4, <1>6, <2>1, <2>2, <2>3 DEF Made, MadeByFragments, s
<1>8. CASE o.fid # o.fn - 1
  <2>1. s.lastlen = b.lastlen /\ s.length = b.length
    BY <1>6, <1>8
  <2>2. s.lastlen = Unset => s.fn - 1 \notin s.have
    BY <1>1, <1>4, <1>6, <1>8, <2>1 DEF MadeByFragments
  <2>3. MadeByFragments(s)
    BY <1>4, <1>6, <2>1, <2>2 DEF MadeByFragments, CutOf
  <2>4. QED
    BY <2>3 DEF Made, s
<1>9. QED
  BY <1>7, <1>8

(* Every step leaves the blocks well made. *)
LEMMA MadeStep ==
  ASSUME IInv, CutInv, Next
  PROVE  \A a \in 1..used' : Made(node'[a])
<1>1. CASE node' = node /\ used' = used
  BY <1>1 DEF CutInv
<1>2. CASE AddBlock
  BY <1>1, <1>2, AddBlockCuts DEF AddBlock, cacheVars
<1>3. CASE AddFragmentNew
  BY <1>1, <1>3, AddFragmentCuts DEF AddFragmentNew, cacheVars
<1>4. CASE AddFragmentOld /\ Stores
  <2> DEFINE n == cur["proc"]
  <2>1. n \in 1..used /\ n \in Addr /\ used' = used
    BY <1>4, AddFragmentCases, CacheConstantsOK DEF IInv, Places, Stores, Users, Addr
  <2>2. node \in [Addr -> Block] /\ (node[n].by = "app" => Complete(node[n])) /\ Made(node[n])
    BY <2>1 DEF IInv, Blocks, CutInv
  <2>3. op["proc"] \in Task /\ FromContent(op["proc"])
    BY <1>4 DEF AddFragmentOld, ProcFound, IInv, Ops, CutInv
  <2>4. node[n].id = op["proc"].id
    BY <1>4 DEF AddFragmentOld, ProcFound, IInv, AtHand, Same
  <2>5. "ADDED" \in Verdict(node[n], op["proc"])
        /\ node' = [node EXCEPT ![n] = Stored(node[n], op["proc"])]
    BY <1>4 DEF Stores
  <2>6. Made(Stored(node[n], op["proc"]))
    BY <2>1, <2>2, <2>3, <2>4, <2>5, StoredMade
  <2> HIDE DEF n
  <2>7. \A a \in Addr : node'[a] = IF a = n THEN Stored(node[n], op["proc"]) ELSE node[a]
    BY <2>1, <2>2, <2>5
  <2>8. 1..used \subseteq Addr
    BY CacheConstantsOK DEF IInv, Places, Addr
  <2>9. QED
    BY <2>1, <2>6, <2>7, <2>8 DEF CutInv
<1>5. CASE AddFragmentOld /\ ~Stores
  BY <1>1, <1>5, AddFragmentCases
<1>6. CASE CallAdd \/ CallSend \/ CallContent \/ CallDelete \/ CallList
  <2>1. \E x, r : AppCall(r, x)
    BY <1>6 DEF CallAdd, CallSend, CallContent, CallDelete, CallList
  <2>2. QED
    BY <1>1, <2>1 DEF AppCall, cacheVars
<1>7. CASE \E u \in Users : FindRdLock(u) \/ FindLock(u)
  BY <1>1, <1>7 DEF FindRdLock, FindLock, cacheVars
<1>8. CASE SendBlock \/ GetBlockData \/ DeleteBlock \/ FreeBlock \/ ListRdLock \/ ListNext
  BY <1>1, <1>8 DEF SendBlock, GetBlockData, DeleteBlock, FreeBlock, ListRdLock, ListNext, cacheVars
<1>9. CASE Receive \/ Acknowledge \/ Announce
  BY <1>1, <1>9 DEF Receive, Acknowledge, Announce, cacheVars
<1>10. QED
  BY <1>2, <1>3, <1>4, <1>5, <1>6, <1>7, <1>8, <1>9 DEF Next, App, Proc, Users

(* Every block in the cache is cut like a content of its identifier as far *)
(* as its fragments tell, for any contents, also those too long to count.  *)
THEOREM CutHolds == Spec => []CutInv
<1>1. Init => CutInv
  <2> SUFFICES ASSUME Init PROVE CutInv
    OBVIOUS
  <2>1. 1..used = {} /\ pc["proc"] = "idle"
    BY DEF Init, Users
  <2>2. QED
    BY <2>1 DEF CutInv
<1>2. IInv /\ CutInv /\ [Next]_vars => CutInv'
  <2> SUFFICES ASSUME IInv, CutInv, [Next]_vars PROVE CutInv'
    OBVIOUS
  <2>1. CASE Next
    <3>1. \A a \in 1..used' : Made(node'[a])
      BY <2>1, MadeStep
    <3>2. pc'["proc"] # "idle" => FromContent(op'["proc"])
      BY <2>1, FromContentStep
    <3>3. QED
      BY <3>1, <3>2 DEF CutInv, Made, MadeByAdd, MadeByFragments, CutOf, FromContent
  <2>2. CASE vars' = vars
    BY <2>2 DEF vars, CutInv, Made, MadeByAdd, MadeByFragments, CutOf, FromContent
  <2>3. QED
    BY <2>1, <2>2
<1>3. QED
  BY <1>1, <1>2, CacheHolds, PTL DEF Spec

(* A complete block is cut by sendblock into fragments that add up to a    *)
(* content of its identifier, whatever the order in which its fragments    *)
(* came, and content.length is that of the content unless the last         *)
(* fragment came first, if no content has more than FnMod - 1 fragments:   *)
(* with more, calcfragments wraps around.                                  *)
THEOREM CutsAlikeCorrect == ASSUME ShortContents PROVE Spec => []CompleteBlockCutsAlike
<1>1. IInv /\ CutInv => CompleteBlockCutsAlike
  <2> SUFFICES ASSUME IInv, CutInv, NEW a \in InList, Complete(node[a])
               PROVE  LET b == node[a]
                          bytes == (b.fn - 1) * MTU + b.lastlen
                      IN  \/ b.fn = 0 /\ 0 \in Lengths(b.id)
                          \/ /\ b.lastlen \in 1..MTU /\ bytes \in Lengths(b.id)
                             /\ \/ b.length = bytes
                                \/ b.by = "proc" /\ b.first = b.fn - 1 /\ b.length = b.fn * MTU
    BY DEF CompleteBlockCutsAlike
  <2> DEFINE b == node[a]
  <2>1. a \in 1..used /\ a \in Addr
    BY ListUsed, CacheConstantsOK DEF IInv, Places, Addr
  <2>2. Made(b) /\ b \in Block
    BY <2>1 DEF CutInv, IInv, Blocks
  <2>3. b.id \in Ids
    BY <2>2 DEF Made, MadeByAdd, MadeByFragments
  <2>c. Complete(b)
    BY DEF b
  <2> HIDE DEF b
  <2>4. AddLengths \subseteq Nat /\ Versions[b.id] \subseteq Nat \ {0}
        /\ Lengths(b.id) = AddLengths \cup Versions[b.id]
    BY <2>3, CacheConstantsOK DEF Lengths
  <2>5. ASSUME NEW l \in Lengths(b.id), l > 0, CutOf(b, l)
        PROVE  b.fn > 0 /\ b.lastlen \in 1..MTU /\ (b.fn - 1) * MTU + b.lastlen = l
    <3>1. l \in Nat /\ l <= (FnMod - 1) * MTU
      BY <2>3, <2>4 DEF ShortContents
    <3>2. QED
      BY <2>5, <3>1, CutAddsUp DEF CutOf
  <2>6. CASE MadeByAdd(b)
    <3>1. PICK l \in AddLengths : CutOf(b, l) /\ b.length = l
      BY <2>6 DEF MadeByAdd
    <3>2. l \in Lengths(b.id) /\ l \in Nat
      BY <2>4
    <3>3. CASE l = 0
      <4>1. calcfragments(l).fn = 0
        BY <3>3 DEF calcfragments
      <4>2. QED
        BY <3>1, <3>2, <3>3, <4>1 DEF CutOf, b
    <3>4. CASE l > 0
      <4>1. b.lastlen \in 1..MTU /\ (b.fn - 1) * MTU + b.lastlen = l
        BY <2>5, <3>1, <3>2, <3>4
      <4>2. QED
        BY <3>1, <3>2, <4>1 DEF b
    <3>5. QED
      BY <3>2, <3>3, <3>4
  <2>7. CASE MadeByFragments(b)
    <3>1. b.lastlen # Unset
      <4>1. b.fn - 1 \in 0..(b.fn - 1)
        BY <2>2, <2>7 DEF MadeByFragments, Block
      <4>2. QED
        BY <2>c, <2>7, <4>1 DEF Complete, MadeByFragments
    <3>2. PICK l \in Versions[b.id] : CutOf(b, l)
      BY <2>7, <3>1 DEF MadeByFragments
    <3>3. l \in Lengths(b.id) /\ l > 0
      BY <2>4
    <3>4. b.lastlen \in 1..MTU /\ (b.fn - 1) * MTU + b.lastlen \in Lengths(b.id)
      BY <2>5, <3>2, <3>3
    <3>5. \/ b.length = (b.fn - 1) * MTU + b.lastlen
          \/ b.by = "proc" /\ b.first = b.fn - 1 /\ b.length = b.fn * MTU
      BY <2>7, <3>1 DEF MadeByFragments
    <3>6. QED
      BY <3>4, <3>5 DEF b
  <2>8. QED
    BY <2>2, <2>6, <2>7 DEF Made
<1>2. QED
  BY <1>1, CacheHolds, CutHolds, PTL
=============================================================================
