------------------------------- MODULE NetMC -------------------------------
(* Small instances of Net.                                                 *)
EXTENDS Net
CONSTANTS a, b
AllCalls == [p \in Procs |-> IF p = a THEN {"resolve", "recvfrom"} ELSE {"resolve", "ping", "sendto"}]
SendCalls == [p \in Procs |-> {"sendto"}]
=============================================================================
