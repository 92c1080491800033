------------------------- MODULE CookieSenderProofs -------------------------
(***************************************************************************)
(* Proofs about the cookie exchange.  Type correctness, with the bound on  *)
(* the cookies that go out, holds for any Python threads.  What a call     *)
(* returns and what it leaves in the semaphores is proved for one calling  *)
(* thread (with two the exchange hangs, as the run cookie_gil shows) and   *)
(* any peers, calls and timeouts.                                          *)
(***************************************************************************)
EXTENDS CookieSender, FiniteSetTheorems, TLAPS

(* Where a thread owns the GIL; where its cookies are not yet announced.   *)
Inside == {"wait", "addr", "flags", "post", "read", "cleanup"}

Before == {"addr", "flags", "post"}

(* The values of the variables, and the GIL with the thread inside.        *)
Places ==
  /\ gil \in Callers \cup {NoThread}
  /\ ppc \in [Callers -> Inside \cup {"idle", "timed", "answered", "expired"}]
  /\ \A p \in Callers : ppc[p] \in Inside <=> gil = p
  /\ ckEmpty \in Nat /\ ckFull \in Nat
  /\ ckData \in [Slot -> Peers \cup {NoPeer}]
  /\ asked \in [Slot -> Peers \cup {NoPeer}]
  /\ havecookie \in [Slot -> BOOLEAN] /\ gotcookie \in [Slot -> BOOLEAN]
  /\ spc \in {"away", "get", "copy"} /\ apc \in {"away", "check"} /\ slot \in Slot
  /\ round \in Nat /\ timeouts \in 0..MaxTimeouts
  /\ exited \in BOOLEAN

(* Every call sends two cookies at most: those that went out, those the    *)
(* sender was told of and those a call is about to announce.               *)
Budget ==
  /\ seq \in Nat /\ round <= MaxRounds
  /\ \A p \in Callers : ppc[p] = "wait" => round < MaxRounds
  /\ seq + ckFull + (IF spc = "away" THEN 0 ELSE 1)
       + (IF \E p \in Callers : ppc[p] \in Before THEN 2 ELSE 0) <= 2 * round

(* What is on the network, and what answered. *)
Answered == flying \subseteq Cookie /\ ckResult \in [Slot -> Cookie]

IInv == Places /\ Budget /\ Answered

-----------------------------------------------------------------------------
(* One calling thread.                                                     *)

Caller == CHOOSE p \in Callers : TRUE

SingleCaller == Callers = {Caller}

pc == ppc[Caller]

Both == gotcookie[0] /\ gotcookie[1]

(* The cookie of slot i of the latest call, when no call has timed out. *)
Mine(i) == [seq |-> 2 * round + i - 1, to |-> ckData[i], round |-> round]

(* Nothing of the exchange is under way. *)
Quiet == flying = {} /\ spc = "away" /\ ckFull = 0 /\ apc = "away"

(* How far the sender is with the two cookies of a call. *)
Sending ==
  \/ /\ havecookie[0] /\ havecookie[1] /\ seq = 2 * round - 2
     /\ spc \in {"away", "get"} /\ ckFull = IF spc = "get" THEN 1 ELSE 2
  \/ /\ ~havecookie[0] /\ havecookie[1] /\ seq = 2 * round - 2
     /\ spc = "copy" /\ slot = 0 /\ ckFull = 1
  \/ /\ ~havecookie[0] /\ havecookie[1] /\ seq = 2 * round - 1
     /\ spc \in {"away", "get"} /\ ckFull = IF spc = "get" THEN 0 ELSE 1
  \/ /\ ~havecookie[0] /\ ~havecookie[1] /\ seq = 2 * round - 1
     /\ spc = "copy" /\ slot = 1 /\ ckFull = 0
  \/ /\ ~havecookie[0] /\ ~havecookie[1] /\ seq = 2 * round
     /\ spc = "away" /\ ckFull = 0

(* What travels and what answered are the cookies of this call, and each   *)
(* answers once.                                                           *)
Answering ==
  /\ \A k \in flying : \E i \in Slot : k = Mine(i) /\ k.seq <= seq
  /\ \A i \in Slot : gotcookie[i] =>
       /\ \E j \in Slot : ckResult[i] = Mine(j) /\ ckResult[i].seq <= seq
       /\ ckResult[i].to = ckData[i] /\ ckResult[i] \notin flying
  /\ Both => ckResult[0] # ckResult[1]

(* The stages of a call, as long as none has timed out. *)
Stages ==
  /\ pc \in {"idle", "wait", "addr", "flags", "post"} => Quiet /\ seq = 2 * round -
       (IF pc \in Before THEN 2 ELSE 0)
  /\ pc \in {"idle", "wait"} => ckEmpty = 1
  /\ pc \in {"addr", "flags", "post"} => ckEmpty = 0
  /\ pc \in {"addr", "flags", "post", "timed", "answered", "read"} => asked \in [Slot -> Peers]
  /\ pc \in {"flags", "post", "timed", "answered", "read"} => ckData = asked
  /\ pc = "post" => havecookie[0] /\ havecookie[1] /\ ~gotcookie[0] /\ ~gotcookie[1]
  /\ pc = "timed" => /\ Sending /\ Answering
                     /\ ckEmpty = IF Both /\ apc = "away" THEN 1 ELSE 0
  /\ pc \in {"answered", "read"} => /\ ckEmpty = 0 /\ Quiet /\ seq = 2 * round
                                    /\ Both /\ Answering
  /\ pc \notin {"expired", "cleanup"}
  /\ ~exited

(* A call under way is counted. *)
Begun == pc \notin {"idle", "wait"} => round > 0

(* The flags of some call were set. *)
Armed == round > 1 \/ (round = 1 /\ pc \notin {"addr", "flags"})

Bit(b) == IF b THEN 1 ELSE 0

(* The units of ckEmpty: a call holds one; two answers make one, which the *)
(* call takes, or has given up when it timed out.                          *)
Units ==
  ckEmpty + Bit(pc \notin {"idle", "wait"}) + Bit(Armed /\ ~(Both /\ apc = "away"))
    <= 1 + timeouts + Bit(pc \in {"post", "timed"})

OneInv ==
  /\ IInv
  /\ timeouts = 0 => Stages
  /\ Begun /\ Units
  /\ ~Armed => timeouts = 0
-----------------------------------------------------------------------------
(* Type correctness, for any calling threads.                              *)

(* Who is inside has the GIL, so that at most one thread is. *)
LEMMA OneInside ==
  ASSUME Places, NEW p \in Callers, NEW q \in Callers, ppc[p] \in Inside, ppc[q] \in Inside
  PROVE  p = q
BY DEF Places

(* What the steps of a Python thread do to its place and to the GIL. *)
LEMMA GilMoves ==
  ASSUME Places, NEW p \in Callers, Call(p) \/ Python(p)
  PROVE  /\ gil' \in Callers \cup {NoThread}
         /\ ppc' \in [Callers -> Inside \cup {"idle", "timed", "answered", "expired"}]
         /\ \A q \in Callers : ppc'[q] \in Inside <=> gil' = q
<1>1. PICK x \in Inside \cup {"idle", "timed", "answered", "expired"} :
        /\ ppc' = [ppc EXCEPT ![p] = x]
        /\ \/ ppc[p] \in Inside /\ x \in Inside /\ gil' = gil
           \/ ppc[p] \notin Inside /\ x \notin Inside /\ gil' = gil
           \/ ppc[p] \notin Inside /\ x \in Inside /\ gil = NoThread /\ gil' = p
           \/ ppc[p] \in Inside /\ x \notin Inside /\ gil' = NoThread
  <2>1. CASE Call(p)
    BY <2>1 DEF Call, Inside
  <2>2. CASE SendCookieWait(p) \/ SendCookieAddr(p) \/ SendCookieFlags(p)
    <3>1. ppc[p] \in Inside /\ gil' = gil
      BY <2>2 DEF SendCookieWait, SendCookieAddr, SendCookieFlags, Inside
    <3>2. \E x \in {"addr", "flags", "post"} : ppc' = [ppc EXCEPT ![p] = x]
      BY <2>2 DEF SendCookieWait, SendCookieAddr, SendCookieFlags
    <3>3. QED
      BY <3>1, <3>2 DEF Inside
  <2>3. CASE SendCookiePost(p)
    BY <2>3 DEF SendCookiePost, Inside
  <2>4. CASE TimedWaitOk(p) \/ TimedWaitExpires(p)
    BY <2>4 DEF TimedWaitOk, TimedWaitExpires, Inside
  <2>5. CASE Regain(p)
    <3>1. ppc[p] \notin Inside /\ gil = NoThread /\ gil' = p
      BY <2>5 DEF Regain, Inside
    <3>2. \E x \in {"read", "cleanup"} : ppc' = [ppc EXCEPT ![p] = x]
      BY <2>5 DEF Regain
    <3>3. QED
      BY <3>1, <3>2 DEF Inside
  <2>6. CASE ReadResults(p) \/ CookieCleanup(p)
    BY <2>6 DEF ReadResults, CookieCleanup, Return, Inside
  <2>7. QED
    BY <2>1, <2>2, <2>3, <2>4, <2>5, <2>6 DEF Python
<1>2. NoThread \notin Callers
  BY CookieConstants
<1>3. \A q \in Callers : ppc'[q] = IF q = p THEN x ELSE ppc[q]
  BY <1>1 DEF Places
<1>4. \A q \in Callers : ppc[q] \in Inside <=> gil = q
  BY DEF Places
<1>5. \A q \in Callers : ppc'[q] \in Inside <=> gil' = q
  BY <1>1, <1>2, <1>3, <1>4
<1>6. gil' \in Callers \cup {NoThread}
  BY <1>1 DEF Places
<1>7. ppc' \in [Callers -> Inside \cup {"idle", "timed", "answered", "expired"}]
  BY <1>1 DEF Places
<1>8. QED
  BY <1>5, <1>6, <1>7

(* The rest of Places; the GIL and the places of the threads apart. *)
Values ==
  /\ ckEmpty \in Nat /\ ckFull \in Nat
  /\ ckData \in [Slot -> Peers \cup {NoPeer}]
  /\ asked \in [Slot -> Peers \cup {NoPeer}]
  /\ havecookie \in [Slot -> BOOLEAN] /\ gotcookie \in [Slot -> BOOLEAN]
  /\ spc \in {"away", "get", "copy"} /\ apc \in {"away", "check"} /\ slot \in Slot
  /\ round \in Nat /\ timeouts \in 0..MaxTimeouts
  /\ exited \in BOOLEAN

(* The steps of a Python thread keep the other values. *)
LEMMA ValuesPython ==
  ASSUME Values, NEW p \in Callers, Call(p) \/ Python(p)
  PROVE  Values'
<1>1. CASE Call(p) \/ SendCookiePost(p) \/ TimedWaitOk(p) \/ Regain(p) \/ ReadResults(p)
  <2>1. ckEmpty' \in Nat /\ ckFull' \in Nat
    BY <1>1 DEF Values, Call, SendCookiePost, TimedWaitOk, Regain, ReadResults
  <2>2. UNCHANGED <<ckData, asked, havecookie, gotcookie, spc, apc, slot, round, timeouts, exited>>
    BY <1>1 DEF Call, SendCookiePost, TimedWaitOk, Regain, ReadResults, Return, senderVars
  <2>3. QED
    BY <2>1, <2>2 DEF Values
<1>2. CASE SendCookieWait(p)
  <2>1. /\ ckEmpty' \in Nat /\ round' \in Nat /\ asked' \in [Slot -> Peers \cup {NoPeer}]
        /\ ckData' \in [Slot -> Peers \cup {NoPeer}]
    BY <1>2 DEF Values, SendCookieWait
  <2>2. UNCHANGED <<ckFull, havecookie, gotcookie, spc, apc, slot, timeouts, exited>>
    BY <1>2 DEF SendCookieWait, senderVars
  <2>3. QED
    BY <2>1, <2>2 DEF Values
<1>3. CASE SendCookieAddr(p)
  <2>1. ckData' \in [Slot -> Peers \cup {NoPeer}]
    BY <1>3 DEF Values, SendCookieAddr
  <2>2. UNCHANGED <<ckEmpty, ckFull, asked, havecookie, gotcookie, spc, apc, slot, round, timeouts,
                    exited>>
    BY <1>3 DEF SendCookieAddr, senderVars
  <2>3. QED
    BY <2>1, <2>2 DEF Values
<1>4. CASE SendCookieFlags(p)
  <2>1. havecookie' \in [Slot -> BOOLEAN] /\ gotcookie' \in [Slot -> BOOLEAN]
    BY <1>4 DEF SendCookieFlags
  <2>2. UNCHANGED <<ckEmpty, ckFull, ckData, asked, spc, apc, slot, round, timeouts, exited>>
    BY <1>4 DEF SendCookieFlags, senderVars
  <2>3. QED
    BY <2>1, <2>2 DEF Values
<1>5. CASE TimedWaitExpires(p)
  <2>1. timeouts' \in 0..MaxTimeouts
    BY <1>5, CookieConstants DEF Values, TimedWaitExpires
  <2>2. UNCHANGED <<ckEmpty, ckFull, ckData, asked, havecookie, gotcookie, spc, apc, slot, round,
                    exited>>
    BY <1>5 DEF TimedWaitExpires, senderVars
  <2>3. QED
    BY <2>1, <2>2 DEF Values
<1>6. CASE CookieCleanup(p)
  <2>1. havecookie' \in [Slot -> BOOLEAN] /\ ckEmpty' \in Nat
    BY <1>6 DEF Values, CookieCleanup
  <2>2. UNCHANGED <<ckFull, ckData, asked, gotcookie, spc, apc, slot, round, timeouts, exited>>
    BY <1>6 DEF CookieCleanup, Return, senderVars
  <2>3. QED
    BY <2>1, <2>2 DEF Values
<1>7. QED
  BY <1>1, <1>2, <1>3, <1>4, <1>5, <1>6 DEF Python

(* The steps of the sender and of the processor keep them too. *)
LEMMA ValuesThreads ==
  ASSUME Values, Sender \/ Processor
  PROVE  Values'
<1>1. CASE SenderTryWait \/ SendCookieData
  <2>1. ckFull' \in Nat /\ spc' \in {"away", "get"}
    BY <1>1 DEF Values, SenderTryWait, SendCookieData
  <2>2. UNCHANGED <<ckEmpty, ckData, asked, havecookie, gotcookie, apc, slot, round, timeouts,
                    exited>>
    BY <1>1 DEF SenderTryWait, SendCookieData, pyVars
  <2>3. QED
    BY <2>1, <2>2 DEF Values
<1>2. CASE GetCookieData
  <2>1. havecookie' \in [Slot -> BOOLEAN] /\ slot' \in Slot /\ spc' \in {"away", "copy"}
    BY <1>2 DEF Values, GetCookieData
  <2>2. exited' = exited \/ exited' = TRUE
    BY <1>2 DEF GetCookieData
  <2>3. UNCHANGED <<ckEmpty, ckFull, ckData, asked, gotcookie, apc, round, timeouts>>
    BY <1>2 DEF GetCookieData, pyVars
  <2>4. QED
    BY <2>1, <2>2, <2>3 DEF Values
<1>3. CASE CookieReceived
  <2>1. gotcookie' \in [Slot -> BOOLEAN] /\ apc' \in {"away", "check"}
    BY <1>3 DEF Values, CookieReceived
  <2>2. UNCHANGED <<ckEmpty, ckFull, ckData, asked, havecookie, spc, slot, round, timeouts, exited>>
    BY <1>3 DEF CookieReceived, pyVars, senderVars
  <2>3. QED
    BY <2>1, <2>2 DEF Values
<1>4. CASE CheckAnswers
  <2>1. ckEmpty' \in Nat /\ apc' = "away"
    BY <1>4 DEF Values, CheckAnswers
  <2>2. UNCHANGED <<ckFull, ckData, asked, havecookie, gotcookie, spc, slot, round, timeouts, exited>>
    BY <1>4 DEF CheckAnswers, pyVars, senderVars
  <2>3. QED
    BY <2>1, <2>2 DEF Values
<1>5. QED
  BY <1>1, <1>2, <1>3, <1>4 DEF Sender, Processor

(* Every step keeps the values and the GIL with the thread inside. *)
LEMMA PlacesStep == ASSUME Places, [Next]_vars PROVE Places'
<1>a. Values
  BY DEF Places, Values
<1>1. CASE Sender \/ Processor
  <2>1. UNCHANGED <<gil, ppc>>
    BY <1>1 DEF Sender, Processor, SenderTryWait, GetCookieData, SendCookieData, CookieReceived,
                CheckAnswers, pyVars
  <2>2. Values'
    BY <1>a, <1>1, ValuesThreads
  <2>3. QED
    BY <2>1, <2>2 DEF Places, Values
<1>2. ASSUME NEW p \in Callers, Call(p) \/ Python(p) PROVE Places'
  BY <1>a, <1>2, GilMoves, ValuesPython DEF Places, Values
<1>3. CASE UNCHANGED vars
  BY <1>3 DEF Places, vars, pyVars, senderVars
<1>4. QED
  BY <1>1, <1>2, <1>3 DEF Next
(* The thread inside is the only one that can be before its posts. *)
LEMMA BeforeIsMine ==
  ASSUME Places, NEW p \in Callers, ppc[p] \in Inside \/ gil = NoThread
  PROVE  /\ (\E q \in Callers : ppc[q] \in Before) <=> ppc[p] \in Before
         /\ \A q \in Callers : ppc[q] = "wait" => q = p
<1>1. Before \subseteq Inside /\ "wait" \in Inside
  BY DEF Before, Inside
<1>2. \A q \in Callers : ppc[q] \in Inside => q = p
  BY OneInside, CookieConstants DEF Places
<1>3. QED
  BY <1>1, <1>2

(* No step sends, announces or begins more than two cookies a call. *)
LEMMA BudgetStep == ASSUME Places, Budget, [Next]_vars PROVE Budget'
<1>a. /\ ckFull \in Nat /\ seq \in Nat /\ round \in Nat /\ MaxRounds \in Nat
      /\ spc \in {"away", "get", "copy"} /\ round <= MaxRounds
  BY CookieConstants DEF Places, Budget
<1>b. \A p \in Callers : ppc[p] = "wait" => round < MaxRounds
  BY DEF Budget
<1>c. seq + ckFull + (IF spc = "away" THEN 0 ELSE 1)
        + (IF \E p \in Callers : ppc[p] \in Before THEN 2 ELSE 0) <= 2 * round
  BY DEF Budget
<1>1. CASE Sender
  <2>1. UNCHANGED <<ppc, round>>
    BY <1>1 DEF Sender, SenderTryWait, GetCookieData, SendCookieData, pyVars
  <2>2. /\ seq' \in Nat /\ ckFull' \in Nat
        /\ seq' + ckFull' + (IF spc' = "away" THEN 0 ELSE 1)
             <= seq + ckFull + (IF spc = "away" THEN 0 ELSE 1)
    <3>1. CASE SenderTryWait
      BY <1>a, <3>1 DEF SenderTryWait
    <3>2. CASE GetCookieData
      BY <1>a, <3>2 DEF GetCookieData
    <3>3. CASE SendCookieData
      BY <1>a, <3>3 DEF SendCookieData
    <3>4. QED
      BY <1>1, <3>1, <3>2, <3>3 DEF Sender
  <2>3. PICK b \in {0, 2} : b = IF \E p \in Callers : ppc[p] \in Before THEN 2 ELSE 0
    OBVIOUS
  <2>4. seq' + ckFull' + (IF spc' = "away" THEN 0 ELSE 1) + b <= 2 * round
    <3>1. PICK a \in {0, 1} : a = IF spc = "away" THEN 0 ELSE 1
      OBVIOUS
    <3>2. PICK c \in {0, 1} : c = IF spc' = "away" THEN 0 ELSE 1
      OBVIOUS
    <3>3. seq + ckFull + a + b <= 2 * round
      BY <1>c, <2>3, <3>1
    <3>4. seq' + ckFull' + c <= seq + ckFull + a
      BY <2>2, <3>1, <3>2
    <3>5. a \in Nat /\ b \in Nat /\ c \in Nat /\ seq' \in Nat /\ ckFull' \in Nat
      BY <2>2, <2>3, <3>1, <3>2
    <3>6. seq' + ckFull' + c + b <= 2 * round
      <4>1. \A x, y, z, u \in Int : x + z <= u /\ y <= x => y + z <= u
        OBVIOUS
      <4>2. seq + ckFull + a \in Int /\ seq' + ckFull' + c \in Int /\ 2 * round \in Int /\ b \in Int
        BY <1>a, <3>5
      <4>3. QED
        BY <3>3, <3>4, <4>1, <4>2
    <3>7. QED
      BY <3>2, <3>6
  <2>5. b = IF \E p \in Callers : ppc'[p] \in Before THEN 2 ELSE 0
    BY <2>1, <2>3
  <2>6. QED
    BY <1>a, <1>b, <2>1, <2>2, <2>4, <2>5 DEF Budget
<1>2. CASE Processor \/ UNCHANGED vars
  BY <1>2 DEF Budget, Processor, CookieReceived, CheckAnswers, vars, pyVars, senderVars
<1>3. ASSUME NEW p \in Callers, Call(p) \/ Python(p) PROVE Budget'
  <2>0. ppc \in [Callers -> Inside \cup {"idle", "timed", "answered", "expired"}]
    BY DEF Places
  <2>1. UNCHANGED <<seq, spc>>
    BY <1>3 DEF Python, Call, SendCookieWait, SendCookieAddr, SendCookieFlags, SendCookiePost,
                TimedWaitOk, TimedWaitExpires, Regain, ReadResults, CookieCleanup, senderVars
  <2>2. CASE Call(p)
    <3>1. /\ \A q \in Callers : ppc'[q] = IF q = p THEN "wait" ELSE ppc[q]
          /\ gil = NoThread /\ round < MaxRounds /\ round' = round /\ ckFull' = ckFull
      BY <2>0, <2>2 DEF Call
    <3>2. ~ \E q \in Callers : ppc'[q] \in Before
      BY <2>2, <3>1, BeforeIsMine DEF Call, Before
    <3>3. QED
      BY <1>a, <1>b, <1>c, <2>1, <3>1, <3>2 DEF Budget
  <2>3. CASE SendCookieWait(p)
    <3>1. /\ \A q \in Callers : ppc'[q] = IF q = p THEN "addr" ELSE ppc[q]
          /\ ppc[p] = "wait" /\ round' = round + 1 /\ ckFull' = ckFull
      BY <2>0, <2>3 DEF SendCookieWait
    <3>2. /\ ~ \E q \in Callers : ppc[q] \in Before
          /\ \A q \in Callers : ppc'[q] # "wait"
      BY <3>1, BeforeIsMine DEF Before, Inside
    <3>3. QED
      BY <1>a, <1>b, <1>c, <2>1, <3>1, <3>2 DEF Budget
  <2>4. CASE SendCookieAddr(p) \/ SendCookieFlags(p)
    <3>1. /\ \A q \in Callers \ {p} : ppc'[q] = ppc[q]
          /\ ppc[p] \in Before /\ ppc'[p] \in {"flags", "post"}
          /\ round' = round /\ ckFull' = ckFull
      BY <2>0, <2>4 DEF SendCookieAddr, SendCookieFlags, Before
    <3>2. \A q \in Callers : ppc'[q] = "wait" => ppc[q] = "wait"
      BY <3>1
    <3>3. QED
      BY <1>a, <1>b, <1>c, <2>1, <3>1, <3>2 DEF Budget
  <2>5. CASE SendCookiePost(p)
    <3>1. /\ \A q \in Callers : ppc'[q] = IF q = p THEN "timed" ELSE ppc[q]
          /\ ppc[p] = "post" /\ round' = round /\ ckFull' = ckFull + 2
      BY <2>0, <2>5 DEF SendCookiePost
    <3>2. /\ ppc[p] \in Before
          /\ ~ \E q \in Callers : ppc'[q] \in Before
          /\ \A q \in Callers : ppc'[q] = "wait" => ppc[q] = "wait"
      <4>1. \A q \in Callers : ppc[q] \in Inside => q = p
        BY <3>1, OneInside DEF Inside
      <4>2. QED
        BY <3>1, <4>1 DEF Before, Inside
    <3>3. QED
      BY <1>a, <1>b, <1>c, <2>1, <3>1, <3>2 DEF Budget
  <2>6. CASE TimedWaitOk(p) \/ TimedWaitExpires(p) \/ Regain(p) \/ ReadResults(p) \/ CookieCleanup(p)
    <3>1. /\ \A q \in Callers \ {p} : ppc'[q] = ppc[q]
          /\ ppc'[p] \in {"answered", "expired", "read", "cleanup", "idle"}
          /\ round' = round /\ ckFull' = ckFull
      BY <2>0, <2>6 DEF TimedWaitOk, TimedWaitExpires, Regain, ReadResults, CookieCleanup, Return
    <3>2. /\ (\E q \in Callers : ppc'[q] \in Before) => \E q \in Callers : ppc[q] \in Before
          /\ \A q \in Callers : ppc'[q] = "wait" => ppc[q] = "wait"
      BY <3>1 DEF Before
    <3>3. QED
      BY <1>a, <1>b, <1>c, <2>1, <3>1, <3>2 DEF Budget
  <2>7. QED
    BY <1>3, <2>2, <2>3, <2>4, <2>5, <2>6 DEF Python
<1>4. QED
  BY <1>1, <1>2, <1>3 DEF Next

(* A cookie that goes out is one of the 2 * MaxRounds there can be. *)
LEMMA AnsweredStep == ASSUME IInv, [Next]_vars PROVE Answered'
<1>1. CASE SendCookieData
  <2>1. [seq |-> seq + 1, to |-> ckData[slot], round |-> round] \in Cookie
    <3>1. ckData[slot] \in Peers \cup {NoPeer}
      BY DEF IInv, Places
    <3>2. seq + 1 \in 0..(2 * MaxRounds) /\ round \in 0..MaxRounds
      <4>1. seq + ckFull + 1 + (IF \E p \in Callers : ppc[p] \in Before THEN 2 ELSE 0) <= 2 * round
        BY <1>1 DEF IInv, Budget, SendCookieData
      <4>2. seq \in Nat /\ ckFull \in Nat /\ round \in Nat /\ round <= MaxRounds /\ MaxRounds \in Nat
        BY CookieConstants DEF IInv, Places, Budget
      <4>3. seq + 1 <= 2 * round
        BY <4>1, <4>2
      <4>4. QED
        BY <4>2, <4>3
    <3>3. QED
      BY <3>1, <3>2 DEF Cookie
  <2>2. QED
    BY <1>1, <2>1 DEF IInv, Answered, SendCookieData
<1>2. CASE CookieReceived
  <2>1. PICK k \in flying :
          /\ flying' = flying \ {k}
          /\ ckResult' = [i \in Slot |-> IF i \in Answers(k.to) THEN k ELSE ckResult[i]]
    BY <1>2 DEF CookieReceived
  <2>2. QED
    BY <2>1 DEF IInv, Answered
<1>3. CASE \/ SenderTryWait \/ GetCookieData \/ CheckAnswers \/ UNCHANGED vars
           \/ \E p \in Callers : Call(p) \/ Python(p)
  <2>1. UNCHANGED <<flying, ckResult>>
    BY <1>3 DEF SenderTryWait, GetCookieData, CheckAnswers, vars, Python, Call, SendCookieWait,
                SendCookieAddr, SendCookieFlags, SendCookiePost, TimedWaitOk, TimedWaitExpires,
                Regain, ReadResults, CookieCleanup
  <2>2. QED
    BY <2>1 DEF IInv, Answered
<1>4. QED
  BY <1>1, <1>2, <1>3 DEF Next, Sender, Processor

(* The initial values. *)
LEMMA InitInv == Init => IInv
<1> SUFFICES ASSUME Init PROVE IInv
  OBVIOUS
<1>1. Places
  <2>1. /\ ppc \in [Callers -> Inside \cup {"idle", "timed", "answered", "expired"}]
        /\ \A p \in Callers : ppc[p] \in Inside <=> gil = p
    BY CookieConstants DEF Init, Inside
  <2>2. Values
    <3>1. /\ ckData \in [Slot -> Peers \cup {NoPeer}] /\ asked \in [Slot -> Peers \cup {NoPeer}]
          /\ havecookie \in [Slot -> BOOLEAN] /\ gotcookie \in [Slot -> BOOLEAN]
      BY DEF Init
    <3>2. 0 \in 0..MaxTimeouts /\ 0 \in Slot
      BY CookieConstants DEF Slot
    <3>3. QED
      BY <3>1, <3>2 DEF Init, Values
  <2>3. QED
    BY <2>1, <2>2 DEF Init, Places, Values
<1>2. Budget
  BY CookieConstants DEF Init, Budget, Before
<1>3. Answered
  <2>1. NoCookie \in Cookie
    BY CookieConstants DEF NoCookie, Cookie
  <2>2. QED
    BY <2>1 DEF Init, Answered
<1>4. QED
  BY <1>1, <1>2, <1>3 DEF IInv

(* The GIL, the two cookies of a call and what answered them stay as IInv  *)
(* says, whoever calls bora_send_cookie.                                   *)
THEOREM ExchangeHolds == Spec => []IInv
<1>1. IInv /\ [Next]_vars => IInv'
  BY PlacesStep, BudgetStep, AnsweredStep DEF IInv
<1>2. QED
  BY InitInv, <1>1, PTL DEF Spec

(* The semaphores, flags and slots of cookie_sender.c keep their types,    *)
(* and no more than two cookies go out for every call.                     *)
THEOREM TypeCorrect == Spec => []TypeOK
<1>1. IInv => TypeOK
  <2> SUFFICES ASSUME IInv PROVE TypeOK
    OBVIOUS
  <2>1. seq \in 0..(2 * MaxRounds) /\ round \in 0..MaxRounds
    <3>1. seq \in Nat /\ ckFull \in Nat /\ round \in Nat /\ round <= MaxRounds /\ MaxRounds \in Nat
      BY CookieConstants DEF IInv, Places, Budget
    <3>2. seq + ckFull + (IF spc = "away" THEN 0 ELSE 1)
            + (IF \E p \in Callers : ppc[p] \in Before THEN 2 ELSE 0) <= 2 * round
      BY DEF IInv, Budget
    <3>3. seq <= 2 * round
      BY <3>1, <3>2
    <3>4. QED
      BY <3>1, <3>3
  <2>2. ppc \in [Callers -> {"idle", "wait", "addr", "flags", "post", "timed", "answered",
                             "expired", "read", "cleanup"}]
    BY DEF IInv, Places, Inside
  <2>3. QED
    BY <2>1, <2>2 DEF IInv, Places, Answered, TypeOK
<1>2. QED
  BY ExchangeHolds, <1>1, PTL
-----------------------------------------------------------------------------
(* One calling thread.                                                     *)

(* The place of the only caller is a function of ppc alone. *)
LEMMA CallerMoves ==
  ASSUME SingleCaller, Places
  PROVE  /\ Caller \in Callers
         /\ \A x : ppc' = [ppc EXCEPT ![Caller] = x] => pc' = x
         /\ ppc' = ppc => pc' = pc
         /\ pc \in Inside \cup {"idle", "timed", "answered", "expired"}
<1>1. Caller \in Callers
  BY DEF SingleCaller
<1>2. QED
  BY <1>1 DEF Places, pc

(* Two different answers are those of the two cookies of the call, so that *)
(* nothing travels any more and the sender is done.                        *)
LEMMA BothDone ==
  ASSUME Places, seq \in Nat, Sending, Answering, Both
  PROVE  flying = {} /\ spc = "away" /\ ckFull = 0 /\ seq = 2 * round
<1>1. PICK a \in Slot : ckResult[0] = Mine(a) /\ ckResult[0].seq <= seq /\ ckResult[0] \notin flying
  BY DEF Answering, Both, Slot
<1>2. PICK b \in Slot : ckResult[1] = Mine(b) /\ ckResult[1].seq <= seq /\ ckResult[1] \notin flying
  BY DEF Answering, Both, Slot
<1>3. a # b
  BY <1>1, <1>2 DEF Answering
<1>4. flying = {}
  <2>1. \A i \in Slot : i = a \/ i = b
    BY <1>3 DEF Slot
  <2>2. \A k \in flying : \E i \in Slot : k = Mine(i)
    BY DEF Answering
  <2>3. QED
    BY <1>1, <1>2, <2>1, <2>2
<1>5. Mine(1).seq <= seq
  BY <1>1, <1>2, <1>3 DEF Slot
<1>6. 2 * round <= seq
  BY <1>5 DEF Mine, Places
<1>7. QED
  BY <1>4, <1>6 DEF Sending, Places

(* The steps of the call, when it has not timed out, go from stage to      *)
(* stage.                                                                  *)
LEMMA StagesCall ==
  ASSUME SingleCaller, IInv, Stages, Call(Caller) \/ Python(Caller), timeouts' = 0
  PROVE  Stages'
<1>a. Places /\ seq \in Nat /\ round \in Nat /\ timeouts \in Nat
  BY CookieConstants DEF IInv, Places, Budget
<1>b. ~exited /\ pc \notin {"expired", "cleanup"}
  BY DEF Stages
<1>1. CASE Call(Caller)
  <2>1. pc = "idle" /\ pc' = "wait"
    BY <1>a, <1>1, CallerMoves DEF Call, pc
  <2>2. UNCHANGED <<round, asked, ckEmpty, ckFull, ckData, havecookie, gotcookie, ckResult, spc,
                    slot, seq, exited, flying, apc>>
    BY <1>1 DEF Call, senderVars
  <2>3. QED
    BY <2>1, <2>2 DEF Stages, Quiet, Before
<1>2. CASE SendCookieWait(Caller)
  <2>1. pc = "wait" /\ pc' = "addr"
    BY <1>a, <1>2, CallerMoves DEF SendCookieWait, pc
  <2>2. UNCHANGED <<ckFull, spc, seq, exited, flying, apc>>
    BY <1>2 DEF SendCookieWait, senderVars
  <2>3. ckEmpty' = ckEmpty - 1 /\ round' = round + 1 /\ asked' \in [Slot -> Peers]
    BY <1>2 DEF SendCookieWait
  <2>4. QED
    BY <1>a, <2>1, <2>2, <2>3 DEF Stages, Quiet, Before
<1>3. CASE SendCookieAddr(Caller)
  <2>1. pc = "addr" /\ pc' = "flags"
    BY <1>a, <1>3, CallerMoves DEF SendCookieAddr, pc
  <2>2. UNCHANGED <<asked, round, ckEmpty, ckFull, spc, seq, exited, flying, apc>>
    BY <1>3 DEF SendCookieAddr, senderVars
  <2>3. ckData' = asked
    BY <1>3 DEF SendCookieAddr
  <2>4. QED
    BY <2>1, <2>2, <2>3 DEF Stages, Quiet, Before
<1>4. CASE SendCookieFlags(Caller)
  <2>1. pc = "flags" /\ pc' = "post"
    BY <1>a, <1>4, CallerMoves DEF SendCookieFlags, pc
  <2>2. UNCHANGED <<asked, round, ckEmpty, ckFull, ckData, spc, seq, exited, flying, apc>>
    BY <1>4 DEF SendCookieFlags, senderVars
  <2>3. havecookie'[0] /\ havecookie'[1] /\ ~gotcookie'[0] /\ ~gotcookie'[1]
    BY <1>4 DEF SendCookieFlags, Slot
  <2>4. QED
    BY <2>1, <2>2, <2>3 DEF Stages, Quiet, Before
<1>5. CASE SendCookiePost(Caller)
  <2>1. pc = "post" /\ pc' = "timed"
    BY <1>a, <1>5, CallerMoves DEF SendCookiePost, pc
  <2>2. UNCHANGED <<asked, round, ckEmpty, ckData, havecookie, gotcookie, spc, seq, exited, flying>>
    BY <1>5 DEF SendCookiePost, senderVars
  <2>3. /\ Quiet /\ seq = 2 * round - 2 /\ havecookie[0] /\ havecookie[1]
        /\ ~gotcookie[0] /\ ~gotcookie[1] /\ ckEmpty = 0
    BY <2>1 DEF Stages, Before
  <2>4. Sending'
    <3>1. ckFull' = 2
      BY <1>5, <2>3 DEF SendCookiePost, Quiet
    <3>2. QED
      BY <2>2, <2>3, <3>1 DEF Sending, Quiet
  <2>5. Answering'
    BY <2>2, <2>3 DEF Answering, Quiet, Both, Slot
  <2>6. QED
    BY <2>1, <2>2, <2>3, <2>4, <2>5 DEF Stages, Both, Before
<1>6. CASE TimedWaitOk(Caller)
  <2>1. pc = "timed" /\ pc' = "answered"
    BY <1>a, <1>6, CallerMoves DEF TimedWaitOk, pc
  <2>2. UNCHANGED <<asked, round, ckFull, ckData, havecookie, gotcookie, ckResult, spc, slot, seq,
                    exited, flying, apc>>
    BY <1>6 DEF TimedWaitOk, senderVars
  <2>3. Both /\ apc = "away" /\ ckEmpty = 1 /\ ckEmpty' = 0
    BY <1>6, <2>1 DEF TimedWaitOk, Stages
  <2>4. Sending /\ Answering
    BY <2>1 DEF Stages
  <2>5. Quiet /\ seq = 2 * round
    BY <1>a, <2>3, <2>4, BothDone DEF Quiet
  <2>6. Quiet' /\ Both' /\ Answering'
    BY <2>2, <2>3, <2>4, <2>5 DEF Quiet, Both, Answering, Mine
  <2>7. QED
    BY <2>1, <2>2, <2>3, <2>5, <2>6 DEF Stages, Before
<1>7. CASE Regain(Caller)
  <2>1. pc = "answered" /\ pc' = "read"
    BY <1>a, <1>b, <1>7, CallerMoves DEF Regain, pc
  <2>2. UNCHANGED <<asked, round, ckEmpty, ckFull, ckData, havecookie, gotcookie, ckResult, spc,
                    slot, seq, exited, flying, apc>>
    BY <1>7 DEF Regain, senderVars
  <2>3. Both' /\ Answering' /\ Quiet'
    BY <2>1, <2>2 DEF Stages, Quiet, Both, Answering, Mine
  <2>4. QED
    BY <2>1, <2>2, <2>3 DEF Stages, Before
<1>8. CASE ReadResults(Caller)
  <2>1. pc = "read" /\ pc' = "idle"
    BY <1>a, <1>8, CallerMoves DEF ReadResults, Return, pc
  <2>2. UNCHANGED <<round, ckFull, spc, seq, exited, flying, apc>>
    BY <1>8 DEF ReadResults, Return, senderVars
  <2>3. ckEmpty' = ckEmpty + 1
    BY <1>8 DEF ReadResults
  <2>4. QED
    BY <1>a, <2>1, <2>2, <2>3 DEF Stages, Quiet, Before
<1>9. CASE TimedWaitExpires(Caller) \/ CookieCleanup(Caller)
  BY <1>a, <1>b, <1>9 DEF TimedWaitExpires, CookieCleanup, pc
<1>10. QED
  BY <1>1, <1>2, <1>3, <1>4, <1>5, <1>6, <1>7, <1>8, <1>9 DEF Python
(* The sender takes the cookies of this call, in order, and finds one for  *)
(* every unit it takes.                                                    *)
LEMMA StagesSender ==
  ASSUME SingleCaller, IInv, Stages, Sender
  PROVE  Stages'
<1>a. Places /\ seq \in Nat /\ round \in Nat /\ ckFull \in Nat
  BY DEF IInv, Places, Budget
<1>b. pc' = pc
  <2>1. ppc' = ppc
    BY DEF Sender, SenderTryWait, GetCookieData, SendCookieData, pyVars
  <2>2. QED
    BY <1>a, <2>1, CallerMoves
<1>c. pc = "timed"
  <2>1. ~Quiet
    BY DEF Sender, SenderTryWait, GetCookieData, SendCookieData, Quiet
  <2>2. QED
    BY <1>a, <2>1, CallerMoves DEF Stages, Inside
<1>d. UNCHANGED <<round, asked, ckData, gotcookie, ckResult, ckEmpty, apc>>
  BY DEF Sender, SenderTryWait, GetCookieData, SendCookieData, pyVars
<1>e. Sending /\ Answering /\ ckEmpty = (IF Both /\ apc = "away" THEN 1 ELSE 0) /\ ckData = asked
      /\ asked \in [Slot -> Peers] /\ ~exited
  BY <1>c DEF Stages
<1>f. havecookie \in [Slot -> BOOLEAN] /\ slot \in Slot
  BY <1>a DEF Places
<1>1. CASE SenderTryWait
  <2>1. UNCHANGED <<havecookie, slot, seq, exited, flying>>
    BY <1>1 DEF SenderTryWait
  <2>2. Sending'
    <3>1. spc = "away" /\ ckFull > 0 /\ ckFull' = ckFull - 1 /\ spc' = "get"
      BY <1>1 DEF SenderTryWait
    <3>2. QED
      BY <1>a, <1>d, <1>e, <2>1, <3>1 DEF Sending
  <2>3. Answering'
    BY <1>d, <1>e, <2>1 DEF Answering, Mine, Both
  <2>4. QED
    BY <1>b, <1>c, <1>d, <1>e, <2>1, <2>2, <2>3 DEF Stages, Both, Before
<1>2. CASE GetCookieData
  <2>1. UNCHANGED <<ckFull, seq, flying>>
    BY <1>2 DEF GetCookieData
  <2>2. spc = "get" /\ havecookie[1]
    BY <1>2, <1>e DEF GetCookieData, Sending
  <2>3. PICK i \in Slot : /\ havecookie[i] /\ (i = 1 => ~havecookie[0])
                          /\ havecookie' = [havecookie EXCEPT ![i] = FALSE]
                          /\ slot' = i /\ spc' = "copy" /\ exited' = exited
    BY <1>2, <2>2 DEF GetCookieData, Slot
  <2>4. Sending'
    <3>1. CASE i = 0
      <4>1. havecookie[0] /\ ~havecookie'[0] /\ (havecookie'[1] <=> havecookie[1])
        BY <1>f, <2>3, <3>1 DEF Slot
      <4>2. QED
        BY <1>d, <1>e, <2>1, <2>2, <2>3, <3>1, <4>1 DEF Sending
    <3>2. CASE i = 1
      <4>1. ~havecookie[0] /\ ~havecookie'[0] /\ ~havecookie'[1]
        BY <1>f, <2>3, <3>2 DEF Slot
      <4>2. QED
        BY <1>d, <1>e, <2>1, <2>2, <2>3, <3>2, <4>1 DEF Sending
    <3>3. QED
      BY <3>1, <3>2 DEF Slot
  <2>5. Answering'
    BY <1>d, <1>e, <2>1 DEF Answering, Mine, Both
  <2>6. QED
    BY <1>b, <1>c, <1>d, <1>e, <2>3, <2>4, <2>5 DEF Stages, Both, Before
<1>3. CASE SendCookieData
  <2>1. UNCHANGED <<ckFull, havecookie, slot, exited>>
    BY <1>3 DEF SendCookieData
  <2>2. spc = "copy" /\ spc' = "away" /\ seq' = seq + 1
    BY <1>3 DEF SendCookieData
  <2>3. seq + 1 = 2 * round + slot - 1
    BY <1>a, <1>e, <2>2 DEF Sending
  <2>4. Sending'
    BY <1>a, <1>d, <1>e, <2>1, <2>2 DEF Sending
  <2>5. flying' = flying \cup {Mine(slot)}
    BY <1>3, <2>3 DEF SendCookieData, Mine
  <2>6. Mine(slot).seq = seq'
    BY <2>2, <2>3 DEF Mine
  <2>7. \A i \in Slot : Mine(i)' = Mine(i) /\ Mine(i).seq \in Int
    BY <1>a, <1>d DEF Mine, Slot
  <2>8. Answering'
    <3>1. \A k \in flying' : \E i \in Slot : k = Mine(i)' /\ k.seq <= seq'
      <4>1. \A k \in flying : \E i \in Slot : k = Mine(i) /\ k.seq <= seq
        BY <1>e DEF Answering
      <4>2. \A k \in flying : \E i \in Slot : k = Mine(i)' /\ k.seq <= seq'
        BY <1>a, <2>2, <2>7, <4>1
      <4>3. Mine(slot).seq <= seq'
        BY <1>a, <2>2, <2>6
      <4>4. QED
        BY <1>f, <2>5, <2>7, <4>2, <4>3
    <3>2. ASSUME NEW i \in Slot, gotcookie[i]
          PROVE  /\ \E j \in Slot : ckResult[i] = Mine(j)' /\ ckResult[i].seq <= seq'
                 /\ ckResult[i].to = ckData[i] /\ ckResult[i] \notin flying'
      <4>1. PICK j \in Slot : ckResult[i] = Mine(j) /\ ckResult[i].seq <= seq
        BY <1>e, <3>2 DEF Answering
      <4>2. ckResult[i].to = ckData[i] /\ ckResult[i] \notin flying
        BY <1>e, <3>2 DEF Answering
      <4>3. ckResult[i].seq \in Int
        BY <2>7, <4>1
      <4>4. ckResult[i].seq # seq' /\ ckResult[i].seq <= seq'
        BY <1>a, <2>2, <4>1, <4>3
      <4>5. QED
        BY <2>5, <2>6, <2>7, <4>1, <4>2, <4>4
    <3>3. Both => ckResult[0] # ckResult[1]
      BY <1>e DEF Answering
    <3>4. QED
      BY <1>d, <3>1, <3>2, <3>3 DEF Answering, Both
  <2>9. QED
    BY <1>b, <1>c, <1>d, <1>e, <2>1, <2>4, <2>8 DEF Stages, Both, Before
<1>4. QED
  BY <1>1, <1>2, <1>3 DEF Sender

(* An ack answers one cookie of this call, and the second answer makes the *)
(* unit that ends the wait.                                                *)
LEMMA StagesProcessor ==
  ASSUME SingleCaller, IInv, Stages, Processor
  PROVE  Stages'
<1>a. Places /\ seq \in Nat /\ round \in Nat
  BY DEF IInv, Places, Budget
<1>b. pc' = pc
  <2>1. ppc' = ppc
    BY DEF Processor, CookieReceived, CheckAnswers, pyVars
  <2>2. QED
    BY <1>a, <2>1, CallerMoves
<1>c. pc = "timed"
  <2>1. ~Quiet
    BY DEF Processor, CookieReceived, CheckAnswers, Quiet
  <2>2. QED
    BY <1>a, <2>1, CallerMoves DEF Stages, Inside
<1>d. UNCHANGED <<round, asked, ckData, havecookie, ckFull, spc, slot, seq, exited>>
  BY DEF Processor, CookieReceived, CheckAnswers, pyVars, senderVars
<1>e. Sending /\ Answering /\ ckEmpty = (IF Both /\ apc = "away" THEN 1 ELSE 0) /\ ckData = asked
      /\ asked \in [Slot -> Peers] /\ ~exited
  BY <1>c DEF Stages
<1>f. Sending'
  BY <1>d, <1>e DEF Sending
<1>1. CASE CheckAnswers
  <2>1. UNCHANGED <<gotcookie, ckResult, flying>>
    BY <1>1 DEF CheckAnswers
  <2>2. Answering'
    BY <1>d, <1>e, <2>1 DEF Answering, Mine, Both
  <2>3. ckEmpty' = IF Both' /\ apc' = "away" THEN 1 ELSE 0
    BY <1>1, <1>e, <2>1 DEF CheckAnswers, Both
  <2>4. QED
    BY <1>b, <1>c, <1>d, <1>e, <1>f, <2>2, <2>3 DEF Stages, Before
<1>2. CASE CookieReceived
  <2>1. PICK k \in flying :
          /\ flying' = flying \ {k}
          /\ gotcookie' = [i \in Slot |-> gotcookie[i] \/ i \in Answers(k.to)]
          /\ ckResult' = [i \in Slot |-> IF i \in Answers(k.to) THEN k ELSE ckResult[i]]
          /\ apc' = IF Answers(k.to) # {} THEN "check" ELSE "away"
    BY <1>2 DEF CookieReceived
  <2>2. ckEmpty' = ckEmpty /\ apc = "away"
    BY <1>2 DEF CookieReceived
  <2>3. ~Both
    BY <1>a, <1>e, <2>1, BothDone
  <2>4. ckEmpty' = IF Both' /\ apc' = "away" THEN 1 ELSE 0
    <3>1. CASE Answers(k.to) = {}
      <4>1. ~Both'
        BY <2>1, <2>3, <3>1 DEF Both, Slot
      <4>2. QED
        BY <1>e, <2>2, <2>3, <4>1
    <3>2. CASE Answers(k.to) # {}
      BY <1>e, <2>1, <2>2, <2>3, <3>2
    <3>3. QED
      BY <3>1, <3>2
  <2>5. Answering'
    <3>0. \A i \in Slot : Mine(i)' = Mine(i)
      BY <1>d DEF Mine
    <3>1. \A x \in flying' : \E i \in Slot : x = Mine(i)' /\ x.seq <= seq'
      BY <1>d, <1>e, <2>1, <3>0 DEF Answering
    <3>2. \A i \in Slot : gotcookie[i] => ckResult[i] # k
      BY <1>e, <2>1 DEF Answering
    <3>3. \A i \in Slot : i \in Answers(k.to) => ~gotcookie[i] /\ ckData[i] = k.to
      BY DEF Answers
    <3>4. ASSUME NEW i \in Slot, gotcookie'[i]
          PROVE  /\ \E j \in Slot : ckResult'[i] = Mine(j)' /\ ckResult'[i].seq <= seq'
                 /\ ckResult'[i].to = ckData'[i] /\ ckResult'[i] \notin flying'
      <4>1. CASE i \in Answers(k.to)
        <5>1. ckResult'[i] = k
          BY <2>1, <4>1
        <5>2. \E j \in Slot : k = Mine(j) /\ k.seq <= seq
          BY <1>e, <2>1 DEF Answering
        <5>3. QED
          BY <1>d, <2>1, <3>0, <3>3, <4>1, <5>1, <5>2
      <4>2. CASE i \notin Answers(k.to)
        <5>1. ckResult'[i] = ckResult[i] /\ gotcookie[i]
          BY <2>1, <3>4, <4>2
        <5>2. /\ \E j \in Slot : ckResult[i] = Mine(j) /\ ckResult[i].seq <= seq
              /\ ckResult[i].to = ckData[i] /\ ckResult[i] \notin flying
          BY <1>e, <5>1 DEF Answering
        <5>3. QED
          BY <1>d, <2>1, <3>0, <5>1, <5>2
      <4>3. QED
        BY <4>1, <4>2
    <3>5. Both' => ckResult'[0] # ckResult'[1]
      <4>1. ~(0 \in Answers(k.to) /\ 1 \in Answers(k.to))
        BY DEF Answers
      <4>2. 0 \in Slot /\ 1 \in Slot
        BY DEF Slot
      <4>3. QED
        BY <2>1, <2>3, <3>2, <4>1, <4>2 DEF Both
    <3>6. QED
      BY <3>1, <3>4, <3>5 DEF Answering
  <2>6. QED
    BY <1>b, <1>c, <1>d, <1>e, <1>f, <2>4, <2>5 DEF Stages, Before
<1>3. QED
  BY <1>1, <1>2 DEF Processor

(* As long as no call times out, every step leads to a stage of a call. *)
LEMMA StagesStep ==
  ASSUME SingleCaller, IInv, timeouts = 0 => Stages, [Next]_vars
  PROVE  timeouts' = 0 => Stages'
<1>1. timeouts' = 0 => timeouts = 0
  <2>1. timeouts' = timeouts \/ timeouts' = timeouts + 1
    BY DEF Next, vars, pyVars, Sender, SenderTryWait, GetCookieData, SendCookieData, Processor,
           CookieReceived, CheckAnswers, Python, Call, SendCookieWait, SendCookieAddr,
           SendCookieFlags, SendCookiePost, TimedWaitOk, TimedWaitExpires, Regain, ReadResults,
           CookieCleanup, Return
  <2>2. timeouts \in Nat
    BY CookieConstants DEF IInv, Places
  <2>3. QED
    BY <2>1, <2>2
<1>2. CASE \E p \in Callers : Call(p) \/ Python(p)
  <2>1. Call(Caller) \/ Python(Caller)
    BY <1>2 DEF SingleCaller
  <2>2. QED
    BY <1>1, <2>1, StagesCall
<1>3. CASE Sender
  BY <1>1, <1>3, StagesSender
<1>4. CASE Processor
  BY <1>1, <1>4, StagesProcessor
<1>5. CASE UNCHANGED vars
  BY <1>1, <1>5 DEF vars, pyVars, senderVars, Stages, Quiet, Sending, Answering, Mine, Both, pc
<1>6. QED
  BY <1>2, <1>3, <1>4, <1>5 DEF Next
(* The units of ckEmpty, step by step.  Only a timeout makes room for one  *)
(* more: the unit its late answers will post.                              *)
LEMMA UnitsStep ==
  ASSUME SingleCaller, OneInv, [Next]_vars
  PROVE  Begun' /\ Units' /\ (~Armed' => timeouts' = 0)
<1>a. Places /\ round \in Nat /\ timeouts \in Nat /\ ckEmpty \in Nat
  BY CookieConstants DEF OneInv, IInv, Places
<1>b. Units /\ Begun /\ (~Armed => timeouts = 0)
  BY DEF OneInv
<1>c. Caller \in Callers /\ pc \in Inside \cup {"idle", "timed", "answered", "expired"}
  BY <1>a, CallerMoves
<1>1. CASE Call(Caller)
  <2>1. pc = "idle" /\ pc' = "wait"
    BY <1>a, <1>1, CallerMoves DEF Call, pc
  <2>2. UNCHANGED <<round, timeouts, ckEmpty, gotcookie, apc>>
    BY <1>1 DEF Call
  <2>3. QED
    BY <1>a, <1>b, <2>1, <2>2 DEF Begun, Units, Armed, Both, Bit
<1>2. CASE SendCookieWait(Caller)
  <2>1. pc = "wait" /\ pc' = "addr"
    BY <1>a, <1>2, CallerMoves DEF SendCookieWait, pc
  <2>2. UNCHANGED <<timeouts, gotcookie, apc>> /\ round' = round + 1 /\ ckEmpty' = ckEmpty - 1
    BY <1>2 DEF SendCookieWait
  <2>3. (Armed' <=> Armed) /\ Begun'
    BY <1>a, <2>1, <2>2 DEF Armed, Begun
  <2>4. QED
    BY <1>a, <1>b, <2>1, <2>2, <2>3 DEF Units, Both, Bit
<1>3. CASE SendCookieAddr(Caller)
  <2>1. pc = "addr" /\ pc' = "flags"
    BY <1>a, <1>3, CallerMoves DEF SendCookieAddr, pc
  <2>2. UNCHANGED <<round, timeouts, ckEmpty, gotcookie, apc>>
    BY <1>3 DEF SendCookieAddr
  <2>3. QED
    BY <1>a, <1>b, <2>1, <2>2 DEF Begun, Units, Armed, Both, Bit
<1>4. CASE SendCookieFlags(Caller)
  <2>1. pc = "flags" /\ pc' = "post"
    BY <1>a, <1>4, CallerMoves DEF SendCookieFlags, pc
  <2>2. UNCHANGED <<round, timeouts, ckEmpty, apc>>
    BY <1>4 DEF SendCookieFlags
  <2>3. Armed' /\ Begun'
    BY <1>a, <1>b, <2>1, <2>2 DEF Armed, Begun
  <2>4. ckEmpty + 1 <= 1 + timeouts
    BY <1>a, <1>b, <2>1 DEF Units, Bit
  <2>5. QED
    BY <1>a, <2>1, <2>2, <2>3, <2>4 DEF Units, Bit
<1>5. CASE SendCookiePost(Caller)
  <2>1. pc = "post" /\ pc' = "timed"
    BY <1>a, <1>5, CallerMoves DEF SendCookiePost, pc
  <2>2. UNCHANGED <<round, timeouts, ckEmpty, gotcookie, apc>>
    BY <1>5 DEF SendCookiePost
  <2>3. QED
    BY <1>a, <1>b, <2>1, <2>2 DEF Begun, Units, Armed, Both, Bit
<1>6. CASE TimedWaitOk(Caller)
  <2>1. pc = "timed" /\ pc' = "answered"
    BY <1>a, <1>6, CallerMoves DEF TimedWaitOk, pc
  <2>2. UNCHANGED <<round, timeouts, gotcookie, apc>> /\ ckEmpty' = ckEmpty - 1
    BY <1>6 DEF TimedWaitOk
  <2>3. (Armed' <=> Armed) /\ Begun'
    BY <1>a, <1>b, <2>1, <2>2 DEF Armed, Begun
  <2>4. QED
    BY <1>a, <1>b, <2>1, <2>2, <2>3 DEF Units, Both, Bit
<1>7. CASE TimedWaitExpires(Caller)
  <2>1. pc = "timed" /\ pc' = "expired"
    BY <1>a, <1>7, CallerMoves DEF TimedWaitExpires, pc
  <2>2. UNCHANGED <<round, ckEmpty, gotcookie, apc>> /\ timeouts' = timeouts + 1
    BY <1>7 DEF TimedWaitExpires
  <2>3. Armed /\ Armed' /\ Begun'
    BY <1>a, <1>b, <2>1, <2>2 DEF Armed, Begun
  <2>4. QED
    BY <1>a, <1>b, <2>1, <2>2, <2>3 DEF Units, Both, Bit
<1>8. CASE Regain(Caller)
  <2>1. pc \in {"answered", "expired"} /\ pc' \in {"read", "cleanup"}
    BY <1>a, <1>8, CallerMoves DEF Regain, pc
  <2>2. UNCHANGED <<round, timeouts, ckEmpty, gotcookie, apc>>
    BY <1>8 DEF Regain
  <2>3. QED
    BY <1>a, <1>b, <2>1, <2>2 DEF Begun, Units, Armed, Both, Bit
<1>9. CASE ReadResults(Caller) \/ CookieCleanup(Caller)
  <2>1. pc \in {"read", "cleanup"} /\ pc' = "idle"
    BY <1>a, <1>9, CallerMoves DEF ReadResults, CookieCleanup, Return, pc
  <2>2. UNCHANGED <<round, timeouts, gotcookie, apc>> /\ ckEmpty' = ckEmpty + 1
    BY <1>9 DEF ReadResults, CookieCleanup, Return
  <2>3. (Armed' <=> Armed) /\ Begun'
    BY <1>a, <1>b, <2>1, <2>2 DEF Armed, Begun
  <2>4. QED
    BY <1>a, <1>b, <2>1, <2>2, <2>3 DEF Units, Both, Bit
<1>10. CASE Sender \/ CookieReceived \/ CheckAnswers \/ UNCHANGED vars
  <2>1. UNCHANGED <<round, timeouts>> /\ ppc' = ppc
    BY <1>10 DEF Sender, SenderTryWait, GetCookieData, SendCookieData, CookieReceived,
                 CheckAnswers, vars, pyVars
  <2>2. pc' = pc /\ (Armed' <=> Armed) /\ Begun'
    BY <1>a, <1>b, <2>1, CallerMoves DEF Armed, Begun
  <2>3. CASE Sender \/ UNCHANGED vars
    <3>1. UNCHANGED <<ckEmpty, gotcookie, apc>>
      BY <2>3 DEF Sender, SenderTryWait, GetCookieData, SendCookieData, vars
    <3>2. QED
      BY <1>b, <2>1, <2>2, <3>1 DEF Units, Both, Bit
  <2>4. CASE CookieReceived
    <3>1. PICK k \in flying :
            /\ gotcookie' = [i \in Slot |-> gotcookie[i] \/ i \in Answers(k.to)]
            /\ apc' = IF Answers(k.to) # {} THEN "check" ELSE "away"
      BY <2>4 DEF CookieReceived
    <3>2. apc = "away" /\ ckEmpty' = ckEmpty
      BY <2>4 DEF CookieReceived
    <3>3. Both => (Both' /\ apc' = "away")
      <4>1. Both => Answers(k.to) = {}
        BY DEF Both, Answers, Slot
      <4>2. Both => Both'
        BY <3>1 DEF Both, Slot
      <4>3. QED
        BY <3>1, <4>1, <4>2
    <3>4. QED
      BY <1>a, <1>b, <2>1, <2>2, <3>2, <3>3 DEF Units, Bit
  <2>5. CASE CheckAnswers
    <3>1. /\ apc = "check" /\ apc' = "away" /\ (Both' <=> Both)
          /\ ckEmpty' = IF Both THEN ckEmpty + 1 ELSE ckEmpty
      BY <2>5 DEF CheckAnswers, Both
    <3>2. Armed
      <4>1. ASSUME ~Armed PROVE FALSE
        <5>1. timeouts = 0 /\ Stages
          BY <1>b, <4>1 DEF OneInv
        <5>2. pc = "timed"
          BY <1>c, <3>1, <5>1 DEF Stages, Quiet, Inside
        <5>3. QED
          BY <1>a, <1>b, <4>1, <5>2 DEF Begun, Armed
      <4>2. QED
        BY <4>1
    <3>3. QED
      BY <1>a, <1>b, <2>1, <2>2, <3>1, <3>2 DEF Units, Bit
  <2>6. QED
    BY <1>10, <2>3, <2>4, <2>5
<1>11. QED
  <2>1. (\E p \in Callers : Call(p) \/ Python(p)) => Call(Caller) \/ Python(Caller)
    BY DEF SingleCaller
  <2>2. QED
    BY <2>1, <1>1, <1>2, <1>3, <1>4, <1>5, <1>6, <1>7, <1>8, <1>9, <1>10 DEF Next, Python, Processor

(* With one calling thread: the stages of a call, as long as none has      *)
(* timed out, and the units of ckEmpty always.                             *)
THEOREM CallsHold == ASSUME SingleCaller PROVE Spec => []OneInv
<1>1. Init => OneInv
  <2> SUFFICES ASSUME Init PROVE OneInv
    OBVIOUS
  <2>1. pc = "idle"
    BY DEF Init, pc, SingleCaller
  <2>2. Stages
    <3>1. Quiet /\ seq = 0 /\ round = 0 /\ ckEmpty = 1 /\ ~exited
      BY DEF Init, Quiet
    <3>2. pc \notin Before
      BY <2>1 DEF Before
    <3>3. seq = 2 * round - (IF pc \in Before THEN 2 ELSE 0)
      <4>1. (IF pc \in Before THEN 2 ELSE 0) = 0
        BY <3>2
      <4>2. seq = 2 * round - 0
        BY <3>1
      <4>3. QED
        BY <4>1, <4>2
    <3>4. QED
      BY <2>1, <3>1, <3>3 DEF Stages
  <2>3. Units /\ Begun /\ timeouts = 0
    BY <2>1 DEF Init, Units, Begun, Armed, Bit
  <2>4. QED
    BY <2>2, <2>3, InitInv DEF OneInv
<1>2. OneInv /\ [Next]_vars => OneInv'
  <2> SUFFICES ASSUME OneInv, [Next]_vars PROVE OneInv'
    OBVIOUS
  <2>1. IInv'
    BY PlacesStep, BudgetStep, AnsweredStep DEF OneInv, IInv
  <2>2. timeouts' = 0 => Stages'
    BY StagesStep DEF OneInv
  <2>3. QED
    BY <2>1, <2>2, UnitsStep DEF OneInv
<1>3. QED
  BY <1>1, <1>2, PTL DEF Spec

(* What bora_send_cookie returns are the acks of its own two cookies, from *)
(* the peers it was asked for, as long as no call has timed out.           *)
THEOREM FreshResultsCorrect == ASSUME SingleCaller PROVE Spec => []FreshResults
<1>1. OneInv => FreshResults
  <2> SUFFICES ASSUME OneInv, NEW p \in Callers, timeouts = 0, ppc[p] = "read"
      PROVE  /\ \A i \in Slot : ckResult[i].round = round /\ ckResult[i].to = asked[i]
             /\ ckResult[0].seq # ckResult[1].seq
    BY DEF FreshResults
  <2>1. Stages /\ pc = "read" /\ round \in Nat
    BY DEF OneInv, IInv, Places, SingleCaller, pc
  <2>2. Both /\ Answering /\ ckData = asked
    BY <2>1 DEF Stages
  <2>3. \A i \in Slot : \E j \in Slot : ckResult[i] = Mine(j) /\ ckResult[i].to = ckData[i]
    BY <2>2 DEF Both, Answering, Slot
  <2>4. \A i \in Slot : ckResult[i].round = round /\ ckResult[i].to = asked[i]
    <3>1. \A j \in Slot : Mine(j).round = round
      BY DEF Mine
    <3>2. QED
      BY <2>2, <2>3, <3>1
  <2>5. PICK a \in Slot, b \in Slot : ckResult[0] = Mine(a) /\ ckResult[1] = Mine(b)
    BY <2>3 DEF Slot
  <2>6. a # b
    BY <2>2, <2>5 DEF Answering
  <2>7. Mine(a).seq # Mine(b).seq
    BY <2>1, <2>6 DEF Mine, Slot
  <2>8. QED
    BY <2>4, <2>5, <2>7
<1>2. QED
  BY CallsHold, <1>1, PTL

(* ckEmpty never holds more than one unit and one for every call that      *)
(* timed out; without a timeout it is 0 exactly while an exchange is under *)
(* way.                                                                    *)
THEOREM UnitsLeakedCorrect == ASSUME SingleCaller PROVE Spec => []UnitsLeakedByTimeouts
<1>1. OneInv => UnitsLeakedByTimeouts
  <2> SUFFICES ASSUME OneInv PROVE UnitsLeakedByTimeouts
    OBVIOUS
  <2> DEFINE Busy == {p \in Callers : ppc[p] \notin {"idle", "wait"}}
  <2>a. Places /\ timeouts \in Nat /\ ckEmpty \in Nat
    BY CookieConstants DEF OneInv, IInv, Places
  <2>b. pc \in Inside \cup {"idle", "timed", "answered", "expired"}
    BY <2>a, CallerMoves
  <2>1. ckEmpty <= 1 + timeouts
    BY <2>a DEF OneInv, Units, Bit
  <2>2. Cardinality(Busy) = IF pc \in {"idle", "wait"} THEN 0 ELSE 1
    <3>1. CASE pc \in {"idle", "wait"}
      <4>1. Busy = {}
        BY <3>1 DEF SingleCaller, pc
      <4>2. QED
        BY <3>1, <4>1, FS_EmptySet
    <3>2. CASE pc \notin {"idle", "wait"}
      <4>1. Busy = {Caller}
        BY <3>2 DEF SingleCaller, pc
      <4>2. QED
        BY <3>2, <4>1, FS_Singleton
    <3>3. QED
      BY <3>1, <3>2
  <2>3. ASSUME timeouts = 0, apc = "away", ~Both
        PROVE  ckEmpty = IF pc \in {"idle", "wait"} THEN 1 ELSE 0
    <3>1. Stages
      BY <2>3 DEF OneInv
    <3>2. QED
      BY <2>b, <2>3, <3>1 DEF Stages, Inside
  <2>4. timeouts = 0 /\ apc = "away" /\ ~Both => ckEmpty + Cardinality(Busy) = 1
    BY <2>2, <2>3
  <2>5. QED
    BY <2>1, <2>4 DEF UnitsLeakedByTimeouts, Both
<1>2. QED
  BY CallsHold, <1>1, PTL

(* As long as no call has timed out, get_cookie_data finds a cookie for    *)
(* every unit of ckFull, never calls exit(0), and sends it to a peer of    *)
(* the call.                                                               *)
THEOREM UnitsAreCookiesCorrect == ASSUME SingleCaller PROVE Spec => []UnitsAreCookies
<1>1. OneInv => UnitsAreCookies
  <2> SUFFICES ASSUME OneInv, timeouts = 0
      PROVE  /\ ~exited
             /\ \A k \in flying : k.to # NoPeer
             /\ spc = "away" => ckFull <= Cardinality({i \in Slot : havecookie[i]})
    BY DEF UnitsAreCookies
  <2> DEFINE H == {i \in Slot : havecookie[i]}
  <2>a. Places /\ Stages
    BY DEF OneInv, IInv
  <2>b. pc \in Inside \cup {"idle", "timed", "answered", "expired"}
    BY <2>a, CallerMoves
  <2>1. ~exited
    BY <2>a DEF Stages
  <2>2. pc # "timed" => flying = {} /\ ckFull = 0
    BY <2>a, <2>b DEF Stages, Quiet, Inside
  <2>3. ASSUME NEW k \in flying PROVE k.to # NoPeer
    <3>1. pc = "timed"
      BY <2>2
    <3>2. Answering /\ ckData = asked /\ asked \in [Slot -> Peers]
      BY <2>a, <3>1 DEF Stages
    <3>3. PICK i \in Slot : k = Mine(i)
      BY <3>2 DEF Answering
    <3>4. k.to \in Peers
      BY <3>2, <3>3 DEF Mine
    <3>5. QED
      BY <3>4, CookieConstants
  <2>4. ASSUME spc = "away" PROVE ckFull <= Cardinality(H)
    <3>1. IsFiniteSet(Slot)
      <4>1. Slot = {0} \cup {1}
        BY DEF Slot
      <4>2. QED
        BY <4>1, FS_Singleton, FS_Union
    <3>2. IsFiniteSet(H) /\ Cardinality(H) \in Nat
      BY <3>1, FS_Subset, FS_CardinalityType
    <3>3. CASE ckFull = 0
      BY <3>2, <3>3
    <3>4. CASE pc = "timed" /\ ckFull # 0
      <4>1. Sending
        BY <2>a, <3>4 DEF Stages
      <4>2. CASE havecookie[0] /\ havecookie[1] /\ ckFull = 2
        <5>1. H = {0} \cup {1}
          BY <4>2 DEF Slot
        <5>2. Cardinality({0} \cup {1}) = 2
          <6>1. IsFiniteSet({0}) /\ Cardinality({0}) = 1
            BY FS_Singleton
          <6>2. Cardinality({0} \cup {1}) = Cardinality({0}) + 1
            BY <6>1, FS_AddElement
          <6>3. QED
            BY <6>1, <6>2
        <5>3. QED
          BY <4>2, <5>1, <5>2
      <4>3. CASE ~havecookie[0] /\ havecookie[1] /\ ckFull = 1
        <5>1. H = {1}
          BY <4>3 DEF Slot
        <5>2. Cardinality({1}) = 1
          BY FS_Singleton
        <5>3. QED
          BY <4>3, <5>1, <5>2
      <4>4. QED
        BY <2>4, <3>4, <4>1, <4>2, <4>3 DEF Sending
    <3>5. QED
      BY <2>2, <3>3, <3>4
  <2>5. QED
    BY <2>1, <2>3, <2>4
<1>2. QED
  BY CallsHold, <1>1, PTL
=============================================================================
