---------------------------- MODULE CookieSender ----------------------------
(***************************************************************************)
(* The cookie exchange (cookie_sender.c and bora_send_cookie in bora.c):   *)
(* a Python call sends one cookie packet to each of two peers and returns  *)
(* the round-trip data of both acks, or an empty list after one second.    *)
(* Three threads meet here without a common lock: the Python thread, which *)
(* owns the GIL except while it waits, the sender thread, which takes the  *)
(* cookies inside packet_send, and the packet processor, which calls       *)
(* cookie_received when an ack with the flags NEED_ACK | COOKIE_MSG comes. *)
(*                                                                         *)
(* The sender looks for a cookie whenever it has a packet to send: that    *)
(* this happens is the business of SendQueues, here it may happen at any   *)
(* time and need not.  The network may deliver the acks late, in any order *)
(* and never; a seq number is acknowledged at most once (Retransmission).  *)
(***************************************************************************)
EXTENDS Integers, FiniteSets

CONSTANTS
  Callers,      \* Python threads
  Peers,        \* addresses
  NoPeer,       \* the zero address of bogusData
  NoThread,     \* the GIL is free
  MaxRounds,    \* bound: calls of send_cookie
  MaxTimeouts   \* bound: calls that time out

ASSUME CookieConstants ==
  /\ NoPeer \notin Peers
  /\ NoThread \notin Callers
  /\ MaxRounds \in Nat
  /\ MaxTimeouts \in Nat

Slot == {0, 1}

VARIABLES
  gil,          \* the Python thread that owns the interpreter
  ppc,          \* ppc[p]: where thread p is in bora_send_cookie
  ckEmpty,      \* semaphore: 1 when no exchange is under way
  ckFull,       \* semaphore: cookies for the sender
  ckData,       \* ckData[i]: the address of cookie i
  havecookie,   \* havecookie[i]: cookie i is still to be taken
  gotcookie,    \* gotcookie[i]: cookie i was acknowledged
  ckResult,     \* ckResult[i]: the ack that answered cookie i
  spc,          \* the sender: "away", "get" or "copy"
  slot,         \* the cookie get_cookie_data returned
  flying,       \* cookies on the network or acknowledged on it
  apc,          \* the processor: "away" or "check" (check_answers)
  seq,          \* how many cookies went out
  round,        \* how many calls were made
  timeouts,     \* how many timed out
  asked,        \* asked[i]: the addresses the last call was made with
  exited        \* get_cookie_data called exit(0)

pyVars     == <<gil, ppc, round, timeouts, asked>>
senderVars == <<spc, slot, seq, exited>>
vars == <<pyVars, ckEmpty, ckFull, ckData, havecookie, gotcookie, ckResult, senderVars,
          flying, apc>>

(* An ack as the sender of the cookie knows it: its seq number, the peer   *)
(* and, for the properties, the call that was under way when it was sent.  *)
Cookie == [seq : 0..(2 * MaxRounds), to : Peers \cup {NoPeer}, round : 0..MaxRounds]

NoCookie == [seq |-> 0, to |-> NoPeer, round |-> 0]

(* init_cksender; gotcookie, ckData and ckResult are zero-filled statics. *)
Init ==
  /\ gil = NoThread
  /\ ppc = [p \in Callers |-> "idle"]
  /\ ckEmpty = 1
  /\ ckFull = 0
  /\ ckData = [i \in Slot |-> NoPeer]
  /\ havecookie = [i \in Slot |-> FALSE]
  /\ gotcookie = [i \in Slot |-> FALSE]
  /\ ckResult = [i \in Slot |-> NoCookie]
  /\ spc = "away"
  /\ slot = 0
  /\ flying = {}
  /\ apc = "away"
  /\ seq = 0
  /\ round = 0
  /\ timeouts = 0
  /\ asked = [i \in Slot |-> NoPeer]
  /\ exited = FALSE

-----------------------------------------------------------------------------
(* bora_send_cookie                                                        *)

(* The interpreter runs the call: from here on the thread owns the GIL. *)
Call(p) ==
  /\ ppc[p] = "idle"
  /\ gil = NoThread
  /\ round < MaxRounds
  /\ gil' = p
  /\ ppc' = [ppc EXCEPT ![p] = "wait"]
  /\ UNCHANGED <<round, timeouts, asked, ckEmpty, ckFull, ckData, havecookie, gotcookie,
                 ckResult, senderVars, flying, apc>>

(* sem_wait(&ckEmpty), with the GIL held, and the copies of bogusData. *)
SendCookieWait(p) ==
  /\ ppc[p] = "wait"
  /\ ckEmpty > 0
  /\ ckEmpty' = ckEmpty - 1
  /\ ckData' = [i \in Slot |-> NoPeer]
  /\ ppc' = [ppc EXCEPT ![p] = "addr"]
  /\ round' = round + 1
  /\ asked' \in [Slot -> Peers]
  /\ UNCHANGED <<gil, timeouts, ckFull, havecookie, gotcookie, ckResult, senderVars,
                 flying, apc>>

SendCookieAddr(p) ==
  /\ ppc[p] = "addr"
  /\ ckData' = asked
  /\ ppc' = [ppc EXCEPT ![p] = "flags"]
  /\ UNCHANGED <<gil, round, timeouts, asked, ckEmpty, ckFull, havecookie, gotcookie,
                 ckResult, senderVars, flying, apc>>

(* Mutant: only the first cookie is marked as there. *)
SendCookieFlagsOne(p) ==
  /\ ppc[p] = "flags"
  /\ havecookie' = [i \in Slot |-> i = 0]
  /\ gotcookie' = [i \in Slot |-> FALSE]
  /\ ppc' = [ppc EXCEPT ![p] = "post"]
  /\ UNCHANGED <<gil, round, timeouts, asked, ckEmpty, ckFull, ckData, ckResult,
                 senderVars, flying, apc>>

SendCookieFlags(p) ==
  /\ ppc[p] = "flags"
  /\ havecookie' = [i \in Slot |-> TRUE]
  /\ gotcookie' = [i \in Slot |-> FALSE]
  /\ ppc' = [ppc EXCEPT ![p] = "post"]
  /\ UNCHANGED <<gil, round, timeouts, asked, ckEmpty, ckFull, ckData, ckResult,
                 senderVars, flying, apc>>

(* Two posts of ckFull; Py_BEGIN_ALLOW_THREADS gives the GIL away. *)
SendCookiePost(p) ==
  /\ ppc[p] = "post"
  /\ ckFull' = ckFull + 2
  /\ gil' = NoThread
  /\ ppc' = [ppc EXCEPT ![p] = "timed"]
  /\ UNCHANGED <<round, timeouts, asked, ckEmpty, ckData, havecookie, gotcookie,
                 ckResult, senderVars, flying, apc>>

(* sem_timedwait(&ckEmpty): the unit check_answers posts, *)
TimedWaitOk(p) ==
  /\ ppc[p] = "timed"
  /\ ckEmpty > 0
  /\ ckEmpty' = ckEmpty - 1
  /\ ppc' = [ppc EXCEPT ![p] = "answered"]
  /\ UNCHANGED <<gil, round, timeouts, asked, ckFull, ckData, havecookie, gotcookie,
                 ckResult, senderVars, flying, apc>>

(* or one second gone by while there is none. *)
TimedWaitExpires(p) ==
  /\ ppc[p] = "timed"
  /\ ckEmpty = 0
  /\ timeouts < MaxTimeouts
  /\ timeouts' = timeouts + 1
  /\ ppc' = [ppc EXCEPT ![p] = "expired"]
  /\ UNCHANGED <<gil, round, asked, ckEmpty, ckFull, ckData, havecookie, gotcookie,
                 ckResult, senderVars, flying, apc>>

(* Py_END_ALLOW_THREADS waits for the GIL. *)
Regain(p) ==
  /\ ppc[p] \in {"answered", "expired"}
  /\ gil = NoThread
  /\ gil' = p
  /\ ppc' = [ppc EXCEPT ![p] = IF @ = "answered" THEN "read" ELSE "cleanup"]
  /\ UNCHANGED <<round, timeouts, asked, ckEmpty, ckFull, ckData, havecookie, gotcookie,
                 ckResult, senderVars, flying, apc>>

Return(p) ==
  /\ gil' = NoThread
  /\ ppc' = [ppc EXCEPT ![p] = "idle"]
  /\ UNCHANGED <<round, timeouts, asked>>

(* Mutant: the unit is not given back. *)
ReadResultsKeep(p) ==
  /\ ppc[p] = "read"
  /\ Return(p)
  /\ UNCHANGED <<ckEmpty, ckFull, ckData, havecookie, gotcookie, ckResult, senderVars,
                 flying, apc>>

(* The two dictionaries are built from ckResult and ckEmpty is given back. *)
ReadResults(p) ==
  /\ ppc[p] = "read"
  /\ ckEmpty' = ckEmpty + 1
  /\ Return(p)
  /\ UNCHANGED <<ckFull, ckData, havecookie, gotcookie, ckResult, senderVars, flying, apc>>

(* cookie_cleanup.  ckFull keeps the units the sender has not yet taken. *)
CookieCleanup(p) ==
  /\ ppc[p] = "cleanup"
  /\ havecookie' = [i \in Slot |-> FALSE]
  /\ ckEmpty' = ckEmpty + 1
  /\ Return(p)
  /\ UNCHANGED <<ckFull, ckData, gotcookie, ckResult, senderVars, flying, apc>>

-----------------------------------------------------------------------------
(* The sender thread, in packet_send.                                       *)

(* Mutant: sem_trywait succeeds without a unit. *)
SenderTryWaitAlways ==
  /\ spc = "away"
  /\ ckFull' = ckFull - 1
  /\ spc' = "get"
  /\ UNCHANGED <<pyVars, ckEmpty, ckData, havecookie, gotcookie, ckResult, slot, seq,
                 exited, flying, apc>>

(* sem_trywait(&ckFull) *)
SenderTryWait ==
  /\ spc = "away"
  /\ ckFull > 0
  /\ ckFull' = ckFull - 1
  /\ spc' = "get"
  /\ UNCHANGED <<pyVars, ckEmpty, ckData, havecookie, gotcookie, ckResult, slot, seq,
                 exited, flying, apc>>

(* get_cookie_data: the first cookie still there, or exit(0). *)
GetCookieData ==
  /\ spc = "get"
  /\ \/ \E i \in Slot :
          /\ havecookie[i] /\ (i = 1 => ~havecookie[0])
          /\ havecookie' = [havecookie EXCEPT ![i] = FALSE]
          /\ slot' = i
          /\ spc' = "copy"
          /\ UNCHANGED exited
     \/ /\ \A i \in Slot : ~havecookie[i]
        /\ exited' = TRUE
        /\ spc' = "away"
        /\ UNCHANGED <<havecookie, slot>>
  /\ UNCHANGED <<pyVars, ckEmpty, ckFull, ckData, gotcookie, ckResult, seq, flying, apc>>

(* d = *get_cookie_data(), append_ack and sendto. *)
SendCookieData ==
  /\ spc = "copy"
  /\ seq' = seq + 1
  /\ flying' = flying \cup {[seq |-> seq + 1, to |-> ckData[slot], round |-> round]}
  /\ spc' = "away"
  /\ UNCHANGED <<pyVars, ckEmpty, ckFull, ckData, havecookie, gotcookie, ckResult, slot,
                 exited, apc>>

-----------------------------------------------------------------------------
(* The packet processor, in ack_received.                                   *)

(* The cookie an ack from peer h answers: the first one sent to h and not   *)
(* yet answered, if there is one.                                           *)
Answers(h) == {i \in Slot : /\ ~gotcookie[i]
                            /\ ckData[i] = h
                            /\ i = 1 => ~(~gotcookie[0] /\ ckData[0] = h)}

(* cookie_received up to check_answers; with no cookie to answer the ack is *)
(* a "BAD COOKIE".                                                          *)
CookieReceived ==
  /\ apc = "away"
  /\ \E k \in flying :
       /\ flying' = flying \ {k}
       /\ gotcookie' = [i \in Slot |-> gotcookie[i] \/ i \in Answers(k.to)]
       /\ ckResult' = [i \in Slot |-> IF i \in Answers(k.to) THEN k ELSE ckResult[i]]
       /\ apc' = IF Answers(k.to) # {} THEN "check" ELSE "away"
  /\ UNCHANGED <<pyVars, ckEmpty, ckFull, ckData, havecookie, senderVars>>

(* Mutant: one answer is enough. *)
CheckAnswersOr ==
  /\ apc = "check"
  /\ ckEmpty' = IF gotcookie[0] \/ gotcookie[1] THEN ckEmpty + 1 ELSE ckEmpty
  /\ apc' = "away"
  /\ UNCHANGED <<pyVars, ckFull, ckData, havecookie, gotcookie, ckResult, senderVars,
                 flying>>

(* check_answers: the second answer ends the call. *)
CheckAnswers ==
  /\ apc = "check"
  /\ ckEmpty' = IF gotcookie[1] /\ gotcookie[0] THEN ckEmpty + 1 ELSE ckEmpty
  /\ apc' = "away"
  /\ UNCHANGED <<pyVars, ckFull, ckData, havecookie, gotcookie, ckResult, senderVars,
                 flying>>

-----------------------------------------------------------------------------
Python(p) == \/ SendCookieWait(p) \/ SendCookieAddr(p) \/ SendCookieFlags(p)
             \/ SendCookiePost(p) \/ TimedWaitOk(p)    \/ TimedWaitExpires(p)
             \/ Regain(p)         \/ ReadResults(p)    \/ CookieCleanup(p)

Sender == SenderTryWait \/ GetCookieData \/ SendCookieData

Processor == CookieReceived \/ CheckAnswers

(* After exit(0) nothing runs. *)
Next == ~exited /\ (Sender \/ Processor \/ \E p \in Callers : Call(p) \/ Python(p))

Spec == Init /\ [][Next]_vars

(* A thread inside a function keeps running, and the timed wait of the     *)
(* call ends.  That the sender has a packet to send, and that acks come    *)
(* back, is not promised.                                                  *)
FairSpec ==
  /\ Spec
  /\ \A p \in Callers : WF_vars(~exited /\ Python(p))
  /\ WF_vars(~exited /\ (GetCookieData \/ SendCookieData))
  /\ WF_vars(~exited /\ CheckAnswers)

-----------------------------------------------------------------------------
(* Properties.                                                             *)

(* Every variable keeps its type: the semaphores never go below zero. *)
TypeOK ==
  /\ gil \in Callers \cup {NoThread}
  /\ ppc \in [Callers -> {"idle", "wait", "addr", "flags", "post", "timed", "answered",
                          "expired", "read", "cleanup"}]
  /\ ckEmpty \in Nat /\ ckFull \in Nat
  /\ ckData \in [Slot -> Peers \cup {NoPeer}]
  /\ havecookie \in [Slot -> BOOLEAN] /\ gotcookie \in [Slot -> BOOLEAN]
  /\ ckResult \in [Slot -> Cookie]
  /\ flying \subseteq Cookie
  /\ spc \in {"away", "get", "copy"} /\ apc \in {"away", "check"} /\ slot \in Slot
  /\ seq \in 0..(2 * MaxRounds)
  /\ round \in 0..MaxRounds
  /\ timeouts \in 0..MaxTimeouts
  /\ asked \in [Slot -> Peers \cup {NoPeer}]
  /\ exited \in BOOLEAN

(* As long as no call has timed out, what a call returns are the acks of   *)
(* its own two cookies, from the two peers it was asked for: the results   *)
(* of an earlier call never show through.                                  *)
FreshResults ==
  \A p \in Callers : (timeouts = 0 /\ ppc[p] = "read") =>
    /\ \A i \in Slot : ckResult[i].round = round /\ ckResult[i].to = asked[i]
    /\ ckResult[0].seq # ckResult[1].seq

(* ckEmpty, which starts at 1 to admit one exchange at a time, is 0 while  *)
(* an unanswered exchange is under way, and every call that times out can  *)
(* leave at most one unit too many: the late answers of that call.         *)
UnitsLeakedByTimeouts ==
  LET busy == Cardinality({p \in Callers : ppc[p] \notin {"idle", "wait"}})
  IN  /\ ckEmpty <= 1 + timeouts
      /\ timeouts = 0 /\ apc = "away" /\ ~(gotcookie[0] /\ gotcookie[1]) => ckEmpty + busy = 1

(* As long as no call has timed out, a unit of ckFull always stands for a  *)
(* cookie get_cookie_data can return, and it goes to a peer of this call.  *)
UnitsAreCookies ==
  timeouts = 0 =>
    /\ ~exited
    /\ \A k \in flying : k.to # NoPeer
    /\ spc = "away" => ckFull <= Cardinality({i \in Slot : havecookie[i]})

(* bora_send_cookie returns: the timed wait ends it when the peers or the  *)
(* sender do not, and it leaves ckEmpty at 1 or more for the next call.    *)
CookieCallReturns == \A p \in Callers : (ppc[p] # "idle") ~> (ppc[p] = "idle" \/ exited)
=============================================================================
