---------------------------- MODULE MCSendQueues ----------------------------
(* Instances of SendQueues for TLC: two callers of send_data (the packet   *)
(* processor and the application), two hosts, rings of N slots.            *)
EXTENDS SendQueues, TLC

CONSTANTS h1, h2, app, proc

MCHosts == {h1, h2}

MCThreads == {app, proc}

(* The processor sends acks and retransmits; the application sends blocks, *)
(* raw messages, bandwidth messages and, at bws_set, timed-out packets.    *)
MCSends == [t \in MCThreads |-> IF t = proc THEN {"ack", "retr"} ELSE Kinds]

(* No action tells one host from another. *)
HostSymmetry == Permutations(MCHosts)
=============================================================================
