------------------------------- MODULE TcpMC -------------------------------
(* Small instances of Tcp.                                                 *)
EXTENDS Tcp

\* The client writes three bytes in one call, which is two buffers full.
ShortWrites == [h \in Hosts |-> IF h = Client THEN <<3>> ELSE <<>>]

\* The client makes one connection; the server has a listener and one child.
Blocks == [h \in Hosts |-> IF h = Client THEN 1 ELSE 2]
=============================================================================
