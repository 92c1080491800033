----------------------------- MODULE BlockCache -----------------------------
(***************************************************************************)
(* The block cache (blockcache.c) between its two users: the application,  *)
(* whose Python calls are serialised by the GIL, and the packet processor, *)
(* which acknowledges a fragment, stores it and announces a completed      *)
(* block (packet_receiver.c).  A step is what happens between two points   *)
(* where the other user can interfere: taking the read lock of rwlock,     *)
(* walking the list and locking a block, and each critical section.        *)
(*                                                                         *)
(* A block is its identifier, the set of fragments it has and its lengths; *)
(* its bytes are not represented.  Lengths are in units small enough for   *)
(* TLC; the code's MTU is 1400.  ub records undefined behaviour; nothing   *)
(* is said of the states after it.                                         *)
(***************************************************************************)
EXTENDS Integers, Sequences, FiniteSets

CONSTANTS
  MTU,         \* bytes of a fragment
  FnMod,       \* 2^16: Fragments.fn is a uint16_t
  Ids,         \* block identifiers (streamid, blockid)
  AddLengths,  \* lengths of the contents the application adds
  Versions,    \* Versions[id]: lengths of the contents peers send under id
  MaxNodes,    \* bound: blocks allocated
  MaxOps,      \* bound: calls of the application
  MaxFrames    \* bound: fragments received

ASSUME CacheConstantsOK ==
  /\ MTU \in Nat \ {0}
  /\ FnMod \in Nat \ {0}
  /\ AddLengths \subseteq Nat
  /\ Versions \in [Ids -> SUBSET (Nat \ {0})]
  /\ MaxNodes \in Nat /\ MaxOps \in Nat /\ MaxFrames \in Nat

Addr == 1..MaxNodes       \* addresses malloc returns, in order of allocation

Null == 0

Users == {"app", "proc"}

Unset == -1               \* fs.lastlen of a block whose last fragment is missing

(* Mutant: a length that fills its last fragment counts one fragment more. *)
calcfragmentsExtra(length) == [fn |-> (length \div MTU + 1) % FnMod, lastlen |-> length % MTU]

(* How a content of the given length is cut into fragments. *)
calcfragments(length) ==
  LET rem == length % MTU
      quot == (length \div MTU) % FnMod
  IN  CASE length < 1 -> [fn |-> 0, lastlen |-> 0]
        [] length >= 1 /\ rem = 0 -> [fn |-> quot, lastlen |-> MTU]
        [] OTHER -> [fn |-> (quot + 1) % FnMod, lastlen |-> rem]

(* The length of fragment i of a content of the given length. *)
FragmentLength(length, i) ==
  IF i = calcfragments(length).fn - 1 THEN calcfragments(length).lastlen ELSE MTU

(* The fragments a content of length l is sent in under identifier b. *)
FragmentsOf(b, l) ==
  { [id |-> b, fid |-> i, fn |-> calcfragments(l).fn, len |-> FragmentLength(l, i)] :
    i \in 0..(calcfragments(l).fn - 1) }

(* The fragments that peers, which run the same code, send. *)
Fragment == UNION { UNION {FragmentsOf(b, l) : l \in Versions[b]} : b \in Ids }

VARIABLES
  node,      \* node[a]: the block at address a
  list,      \* the list blockcache, head first
  used,      \* how many addresses have been allocated
  owner,     \* owner[a]: who holds the lock of the block at a, or "none"
  readers,   \* who holds rwlock for reading (writers hold it within a step)
  pc,        \* pc[u]: where user u is
  op,        \* op[u]: the operation user u is executing and its arguments
  cur,       \* cur[u]: the block user u works on, or Null
  ub,        \* undefined behaviour has happened
  ops,       \* calls the application has made
  frames,    \* fragments the processor has received
  sentOut,   \* the fragments the last sendblock passed to send_data
  acks,      \* history: the acknowledgements sent
  told,      \* history: blocks that block_completed announced
  raced      \* history: ids deleted, or added while a block with that id existed

vars == <<node, list, used, owner, readers, pc, op, cur, ub, ops, frames, sentOut, acks,
          told, raced>>
cacheVars == <<node, list, used>>
histVars  == <<sentOut, acks, told, raced>>
boundVars == <<ops, frames>>

NoOp == [kind |-> "none"]

(* by and first are history: who made the block, and from which fragment. *)
NoBlock == [id |-> "none", fn |-> 0, have |-> {}, lastlen |-> Unset, length |-> 0,
            by |-> "none", first |-> 0]

Init ==
  /\ node = [a \in Addr |-> NoBlock]
  /\ list = <<>>
  /\ used = 0
  /\ owner = [a \in Addr |-> "none"]
  /\ readers = {}
  /\ pc = [u \in Users |-> "idle"]
  /\ op = [u \in Users |-> NoOp]
  /\ cur = [u \in Users |-> Null]
  /\ ub = FALSE
  /\ ops = 0
  /\ frames = 0
  /\ sentOut = {}
  /\ acks = {}
  /\ told = {}
  /\ raced = {}

Complete(b) == b.have = 0..(b.fn - 1)

InList == {list[i] : i \in 1..Len(list)}

Holders(id) == {a \in InList : node[a].id = id}

-----------------------------------------------------------------------------
(* findblock.                                                               *)

(* pthread_rwlock_rdlock. *)
FindRdLock(u) ==
  /\ pc[u] = "find"
  /\ readers' = readers \cup {u}
  /\ pc' = [pc EXCEPT ![u] = "walk"]
  /\ UNCHANGED <<cacheVars, owner, op, cur, ub, boundVars, histVars>>

(* __findblock: the first block of the list with the identifier, or Null. *)
FindBlock(id) ==
  IF Holders(id) = {} THEN Null
  ELSE LET i == CHOOSE i \in 1..Len(list) :
                  /\ node[list[i]].id = id
                  /\ \A j \in 1..(i-1) : node[list[j]].id # id
       IN  list[i]

(* Mutant: the read lock is not released when a block was found. *)
FindLockKeepsRead(u) ==
  /\ pc[u] = "walk"
  /\ LET n == FindBlock(op[u].id)
     IN  /\ n # Null => owner[n] = "none"
         /\ owner' = IF n = Null THEN owner ELSE [owner EXCEPT ![n] = u]
         /\ cur' = [cur EXCEPT ![u] = n]
         /\ readers' = IF n = Null THEN readers \ {u} ELSE readers
  /\ pc' = [pc EXCEPT ![u] = "found"]
  /\ UNCHANGED <<cacheVars, op, ub, boundVars, histVars>>

(* The lock of the block is taken under the read lock, which is then released. *)
FindLock(u) ==
  /\ pc[u] = "walk"
  /\ LET n == FindBlock(op[u].id)
     IN  /\ n # Null => owner[n] = "none"
         /\ owner' = IF n = Null THEN owner ELSE [owner EXCEPT ![n] = u]
         /\ cur' = [cur EXCEPT ![u] = n]
  /\ readers' = readers \ {u}
  /\ pc' = [pc EXCEPT ![u] = "found"]
  /\ UNCHANGED <<cacheVars, op, ub, boundVars, histVars>>

(* User u releases the block it holds and returns or goes on at pc. *)
Release(u, place) ==
  /\ owner' = IF cur[u] = Null THEN owner ELSE [owner EXCEPT ![cur[u]] = "none"]
  /\ cur' = [cur EXCEPT ![u] = Null]
  /\ pc' = [pc EXCEPT ![u] = place]

(* A new block becomes the head of the list, under the write lock. *)
Insert(b) ==
  /\ readers = {}
  /\ used < MaxNodes
  /\ used' = used + 1
  /\ node' = [node EXCEPT ![used + 1] = b]
  /\ list' = <<used + 1>> \o list

-----------------------------------------------------------------------------
(* The calls of the application.                                            *)

AppCall(request, place) ==
  /\ pc["app"] = "idle"
  /\ ~ub
  /\ ops < MaxOps
  /\ ops' = ops + 1
  /\ op' = [op EXCEPT !["app"] = request]
  /\ pc' = [pc EXCEPT !["app"] = place]
  /\ UNCHANGED <<cacheVars, owner, readers, cur, ub, frames, histVars>>

CallAdd     == \E b \in Ids, l \in AddLengths : AppCall([kind |-> "add", id |-> b, len |-> l], "find")
CallSend    == \E b \in Ids : AppCall([kind |-> "send", id |-> b], "find")
CallContent == \E b \in Ids : AppCall([kind |-> "content", id |-> b], "find")
CallDelete  == \E b \in Ids : AppCall([kind |-> "delete", id |-> b], "delete")
CallList    == \E w \in BOOLEAN : AppCall([kind |-> "list", complete |-> w, at |-> 0], "list")

AppFound(kind) == pc["app"] = "found" /\ op["app"].kind = kind

(* addblock: an existing block is left alone; otherwise a complete one is  *)
(* inserted, whatever was inserted since the search.                       *)
AddBlock ==
  /\ AppFound("add")
  /\ IF cur["app"] # Null
     THEN UNCHANGED <<cacheVars, raced>>
     ELSE LET fs == calcfragments(op["app"].len)
          IN  /\ Insert([id |-> op["app"].id, fn |-> fs.fn, have |-> 0..(fs.fn - 1),
                         lastlen |-> fs.lastlen, length |-> op["app"].len,
                         by |-> "app", first |-> 0])
              /\ raced' = raced \cup {node[a].id : a \in Holders(op["app"].id)}
  /\ Release("app", "idle")
  /\ UNCHANGED <<readers, op, ub, boundVars, sentOut, acks, told>>

(* sendblock: every fragment is passed to send_data, the ones that were    *)
(* never received too, the last one with the length fs.lastlen.            *)
SendBlock ==
  /\ AppFound("send")
  /\ IF cur["app"] = Null
     THEN UNCHANGED <<ub, sentOut>>
     ELSE LET b == node[cur["app"]]
          IN  /\ ub' = (b.fn > 0 /\ b.lastlen = Unset)
              /\ sentOut' = { [id |-> b.id, fid |-> i, fn |-> b.fn,
                               len |-> IF i + 1 = b.fn THEN b.lastlen ELSE MTU] :
                              i \in 0..(b.fn - 1) }
  /\ Release("app", "idle")
  /\ UNCHANGED <<cacheVars, readers, op, boundVars, acks, told, raced>>

(* get_block_data: a copy of content.length bytes, under the lock. *)
GetBlockData ==
  /\ AppFound("content")
  /\ Release("app", "idle")
  /\ UNCHANGED <<cacheVars, readers, op, ub, boundVars, histVars>>

(* deleteblock: under the write lock the block is taken out of the list.   *)
(* The search starts at the second block and takes no block lock.          *)
DeleteBlock ==
  /\ pc["app"] = "delete"
  /\ readers = {}
  /\ LET id == op["app"].id
         hits == {i \in 2..Len(list) : node[list[i]].id = id}
     IN  IF hits = {}
         THEN /\ pc' = [pc EXCEPT !["app"] = "idle"]
              /\ UNCHANGED <<list, cur, raced>>
         ELSE LET i == CHOOSE i \in hits : \A j \in hits : i <= j
              IN  /\ list' = SubSeq(list, 1, i - 1) \o SubSeq(list, i + 1, Len(list))
                  /\ cur' = [cur EXCEPT !["app"] = list[i]]
                  /\ raced' = raced \cup {id}
                  /\ pc' = [pc EXCEPT !["app"] = "free"]
  /\ UNCHANGED <<node, used, owner, readers, op, ub, boundVars, sentOut, acks, told>>

(* pthread_mutex_destroy and free, when the processor may hold the lock. *)
FreeBlock ==
  /\ pc["app"] = "free"
  /\ ub' = (owner[cur["app"]] # "none")
  /\ cur' = [cur EXCEPT !["app"] = Null]
  /\ pc' = [pc EXCEPT !["app"] = "idle"]
  /\ UNCHANGED <<cacheVars, owner, readers, op, boundVars, histVars>>

(* get_incomplete_block_list and get_complete_block_list: the read lock is *)
(* held while the blocks are locked one after the other.                   *)
ListRdLock ==
  /\ pc["app"] = "list"
  /\ readers' = readers \cup {"app"}
  /\ pc' = [pc EXCEPT !["app"] = "listing"]
  /\ UNCHANGED <<cacheVars, owner, op, cur, ub, boundVars, histVars>>

ListNext ==
  /\ pc["app"] = "listing"
  /\ LET i == op["app"].at + 1
     IN  IF i > Len(list)
         THEN /\ readers' = readers \ {"app"}
              /\ pc' = [pc EXCEPT !["app"] = "idle"]
              /\ UNCHANGED op
         ELSE /\ owner[list[i]] = "none"
              /\ op' = [op EXCEPT !["app"].at = i]
              /\ UNCHANGED <<readers, pc>>
  /\ UNCHANGED <<cacheVars, owner, cur, ub, boundVars, histVars>>

App == \/ CallAdd \/ CallSend \/ CallContent \/ CallDelete \/ CallList
       \/ FindRdLock("app") \/ FindLock("app")
       \/ AddBlock \/ SendBlock \/ GetBlockData \/ DeleteBlock \/ FreeBlock
       \/ ListRdLock \/ ListNext

-----------------------------------------------------------------------------
(* The packet processor.                                                    *)

ProcFound(kind) == pc["proc"] = "found" /\ op["proc"].kind = kind

(* The processor goes on with the next search for the same fragment. *)
Then(kind) == op' = [op EXCEPT !["proc"].kind = kind]

(* A fragment that passes validate_block; the search of get_consecutives. *)
Receive ==
  /\ pc["proc"] = "idle"
  /\ ~ub
  /\ frames < MaxFrames
  /\ frames' = frames + 1
  /\ \E fr \in Fragment :
       op' = [op EXCEPT !["proc"] = [kind |-> "cons", id |-> fr.id, fid |-> fr.fid,
                                     fn |-> fr.fn, len |-> fr.len]]
  /\ pc' = [pc EXCEPT !["proc"] = "find"]
  /\ UNCHANGED <<cacheVars, owner, readers, cur, ub, ops, histVars>>

(* Mutant: the fragments present before fid are counted across the gaps. *)
ConsecutivesGaps(b, fid) == Cardinality(b.have \cap 0..(fid - 1))

(* How many fragments directly before fid the block has. *)
Consecutives(b, fid) ==
  LET gap == {i \in 0..(fid - 1) : i \notin b.have}
  IN  IF gap = {} THEN fid ELSE fid - 1 - (CHOOSE i \in gap : \A j \in gap : j <= i)

(* get_consecutives, and the acknowledgement, sent before the fragment is  *)
(* stored.                                                                 *)
Acknowledge ==
  /\ ProcFound("cons")
  /\ LET o == op["proc"]
         n == cur["proc"]
     IN  acks' = acks \cup {[id |-> o.id, fid |-> o.fid, fn |-> o.fn,
                             cons |-> IF n = Null THEN 0 ELSE Consecutives(node[n], o.fid)]}
  /\ Then("frag")
  /\ Release("proc", "find")
  /\ UNCHANGED <<cacheVars, readers, ub, boundVars, sentOut, told, raced>>

(* addfragment, when no block was found: a block with this one fragment.   *)
(* content.length stays that of whole fragments, also when the last one    *)
(* came first.  A fragment of a bad length leaves the new block unlinked.  *)
AddFragmentNew ==
  /\ ProcFound("frag")
  /\ cur["proc"] = Null
  /\ LET o == op["proc"]
         last == o.fid = o.fn - 1
     IN  IF last \/ o.len = MTU
         THEN /\ Insert([id |-> o.id, fn |-> o.fn, have |-> {o.fid},
                         lastlen |-> IF last THEN o.len ELSE Unset,
                         length |-> MTU * o.fn, by |-> "proc", first |-> o.fid])
              /\ cur' = [cur EXCEPT !["proc"] = used + 1]
              /\ Then("complete")
              /\ pc' = [pc EXCEPT !["proc"] = "find"]
              /\ raced' = raced \cup {node[a].id : a \in Holders(o.id)}
         ELSE /\ pc' = [pc EXCEPT !["proc"] = "idle"]
              /\ UNCHANGED <<cacheVars, cur, op, raced>>
  /\ UNCHANGED <<owner, readers, ub, boundVars, sentOut, acks, told>>

(* Mutant: the number of fragments and the index are not compared. *)
VerdictUnchecked(b, o) == IF o.fid \in b.have THEN {"DUPLICATE"} ELSE {"ADDED"}

(* What addfragment answers for block b, in the order of its tests.  The   *)
(* first test reads the array f at the fragment's index before the index   *)
(* is known to be in range.                                                *)
Verdict(b, o) ==
  CASE o.fid \in b.have                       -> {"DUPLICATE"}
    [] o.fid >= b.fn                          -> {"DUPLICATE", "MISMATCH"}
    [] o.fid < b.fn /\ o.fid \notin b.have /\ o.fn # b.fn -> {"MISMATCH"}
    [] o.fid < b.fn /\ o.fid \notin b.have /\ o.fn = b.fn
       /\ o.fid < b.fn - 1 /\ o.len # MTU     -> {"BAD_LEN"}
    [] OTHER                                  -> {"ADDED"}

(* Mutant: the length of the last fragment is not kept. *)
StoredNoLast(b, o) == [b EXCEPT !.have = @ \cup {o.fid}]

(* The block b after fragment o was stored in it. *)
Stored(b, o) ==
  LET last == o.fid = o.fn - 1
  IN  [b EXCEPT !.have = @ \cup {o.fid},
                !.lastlen = IF last THEN o.len ELSE @,
                !.length = IF last THEN (b.fn - 1) * MTU + o.len ELSE @]

(* addfragment, when the block exists. *)
AddFragmentOld ==
  /\ ProcFound("frag")
  /\ cur["proc"] # Null
  /\ LET o == op["proc"]
         n == cur["proc"]
     IN  \E v \in Verdict(node[n], o) :
           IF v = "ADDED"
           THEN /\ node' = [node EXCEPT ![n] = Stored(@, o)]
                /\ owner' = [owner EXCEPT ![n] = "none"]
                /\ pc' = [pc EXCEPT !["proc"] = "find"]
                /\ Then("complete")
                /\ UNCHANGED cur
           ELSE Release("proc", "idle") /\ UNCHANGED <<node, op>>
  /\ UNCHANGED <<list, used, readers, ub, boundVars, histVars>>

(* Mutant: the test for completeness leaves out fragment 0. *)
AnnounceEarly ==
  /\ ProcFound("complete")
  /\ LET n == cur["proc"]
         yes == n = Null \/ 1..(node[n].fn - 1) \subseteq node[n].have
     IN  told' = IF yes THEN told \cup {[id |-> op["proc"].id, at |-> n]} ELSE told
  /\ Release("proc", "idle")
  /\ UNCHANGED <<cacheVars, readers, op, ub, boundVars, sentOut, acks, raced>>

(* iscomplete, which says 1 of a block that is not there, and the          *)
(* announcement of block_completed.                                        *)
Announce ==
  /\ ProcFound("complete")
  /\ LET n == cur["proc"]
         yes == n = Null \/ Complete(node[n])
     IN  told' = IF yes THEN told \cup {[id |-> op["proc"].id, at |-> n]} ELSE told
  /\ Release("proc", "idle")
  /\ UNCHANGED <<cacheVars, readers, op, ub, boundVars, sentOut, acks, raced>>

Proc == \/ Receive \/ FindRdLock("proc") \/ FindLock("proc")
        \/ Acknowledge \/ AddFragmentNew \/ AddFragmentOld \/ Announce

Next == App \/ Proc

Spec == Init /\ [][Next]_vars

-----------------------------------------------------------------------------
(* Properties.                                                             *)

(* Every variable keeps its type; a block never has a fragment outside its *)
(* array f, although peers may send different contents under one id.       *)
TypeOK ==
  /\ \A a \in Addr : node[a].have \subseteq 0..(node[a].fn - 1)
  /\ \A a \in Addr : node[a].lastlen \in {Unset} \cup 0..MTU
  /\ InList \subseteq 1..used
  /\ used \in 0..MaxNodes
  /\ owner \in [Addr -> Users \cup {"none"}]
  /\ readers \subseteq Users
  /\ pc \in [Users -> {"idle", "find", "walk", "found", "delete", "free", "list", "listing"}]
  /\ cur \in [Users -> Addr \cup {Null}]
  /\ ub \in BOOLEAN

(* What user u waits for is held by user v. *)
WaitsFor(u, v) ==
  \/ /\ pc[u] = "walk"
     /\ FindBlock(op[u].id) # Null
     /\ owner[FindBlock(op[u].id)] = v
  \/ /\ \/ pc[u] = "delete"
        \/ pc[u] = "found" /\ cur[u] = Null /\ op[u].kind \in {"add", "frag"}
     /\ v \in readers
  \/ /\ pc[u] = "listing"
     /\ op[u].at < Len(list)
     /\ owner[list[op[u].at + 1]] = v

(* findblock and the lists wait for a block's lock while they hold rwlock, *)
(* and inserting or deleting waits for rwlock: no user ever waits for      *)
(* itself, and the two never wait for each other.                          *)
NoLockCycle ==
  /\ \A u \in Users : ~WaitsFor(u, u)
  /\ ~(WaitsFor("app", "proc") /\ WaitsFor("proc", "app"))

(* A block the processor completed has been announced to the application   *)
(* when the processor is done with the fragment, and an announced block is *)
(* complete, unless the application deleted or added the same block in     *)
(* between.                                                                *)
AnnouncedIffComplete ==
  ~ub => /\ \A t \in told : t.id \in raced \/ (t.at # Null /\ Complete(node[t.at]))
         /\ pc["proc"] = "idle" =>
              \A a \in InList : node[a].by = "proc" /\ Complete(node[a])
                                  => \E t \in told : t.id = node[a].id

(* The processor acknowledges a fragment before it stores it, together     *)
(* with the fragments directly before it: once it is done with the packet  *)
(* the cache has all of them, unless the application deleted the block or  *)
(* the block at hand has another number of fragments.  A sender that sees  *)
(* the ack forgets exactly these fragments.                                *)
AcknowledgedIsStored ==
  ~ub /\ pc["proc"] = "idle" =>
    \A k \in acks :
      \/ k.id \in raced
      \/ \E a \in Holders(k.id) : \/ (k.fid - k.cons)..k.fid \subseteq node[a].have
                                  \/ node[a].fn # k.fn

(* The lengths that contents with this id have. *)
Lengths(id) == AddLengths \cup Versions[id]

(* Whatever the order in which its fragments arrived, a complete block is  *)
(* cut by sendblock into fragments that add up to the original content: fn *)
(* and lastlen are those of addblock at the source.  content.length is     *)
(* that of the content too, unless the last fragment came first: then it   *)
(* stays that of whole fragments, and get_block_content returns padding.   *)
CompleteBlockCutsAlike ==
  \A a \in InList :
    LET b == node[a]
        bytes == (b.fn - 1) * MTU + b.lastlen
    IN  Complete(b) =>
          \/ b.fn = 0 /\ 0 \in Lengths(b.id)
          \/ /\ b.lastlen \in 1..MTU /\ bytes \in Lengths(b.id)
             /\ \/ b.length = bytes
                \/ b.by = "proc" /\ b.first = b.fn - 1 /\ b.length = b.fn * MTU
=============================================================================
