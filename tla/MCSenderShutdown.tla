-------------------------- MODULE MCSenderShutdown --------------------------
(* Instances of SenderShutdown for TLC. *)
EXTENDS SenderShutdown

CONSTANTS h1, app, proc

MCHosts == {h1}

MCThreads == {app, proc}

(* The processor acknowledges and retransmits; the application sends blocks. *)
MCSends == [t \in MCThreads |-> IF t = proc THEN {"ack", "retr"} ELSE {"block"}]
=============================================================================
