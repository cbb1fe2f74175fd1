-------------------------------- MODULE Tcp --------------------------------
(***************************************************************************)
(* TCP connections between two hosts that both run src/tcp.c, with the     *)
(* reassembly queue of src/tcp_reasm.c and the stream half of src/socket.c,*)
(* over a network that loses, duplicates and reorders segments.            *)
(*                                                                         *)
(* A blocking call is a loop around net_pump() and net_wait(); other       *)
(* threads run at net_wait() and any of them may pump, so each action is   *)
(* one pass of such a loop or one segment taken in by whoever pumps.       *)
(* Elapsed time is left open: a timeout may come at any pass.  So are the  *)
(* congestion window (a value of Cwnds in each pass) and whether a         *)
(* duplicate ACK is the third.                                             *)
(***************************************************************************)
EXTENDS Integers, Sequences, FiniteSets, FiniteSetsExt

CONSTANTS
    Client, Server,   \* the two hosts
    NCONN,            \* control blocks of each host
    TCP_RXBUF, TCP_SNDBUF, TCP_MSS, TCP_REASM_WIN,
    PORT,             \* the port the server listens on
    FirstPort,        \* next_lport at boot
    SeqMod,           \* sequence numbers are taken modulo this (2^32)
    IsnStep,          \* how far the clock, the source of ISNs, gets between two uses
    Writes,           \* lengths of the writes a program makes, in order
    Cwnds,            \* congestion windows considered
    Connects,         \* bound on the connections a client makes
    MaxNet,           \* bound on the segments under way
    MaxFaults,        \* bound on losses, copies and timeouts; an interrupted call is the last fault
    Junk              \* what lies before sndbuf in memory

ASSUME ConstAssumption ==
    /\ Client # Server
    /\ \A h \in {Client, Server} : NCONN[h] \in Nat \ {0}
    /\ {TCP_RXBUF, TCP_SNDBUF, TCP_MSS, TCP_REASM_WIN, PORT, FirstPort} \subseteq Nat \ {0}
    /\ SeqMod % TCP_REASM_WIN = 0 /\ TCP_MSS <= TCP_REASM_WIN /\ 2 * TCP_REASM_WIN < SeqMod
    /\ \A w \in Cwnds : w >= TCP_MSS

Hosts == {Client, Server}
Block == UNION {{h} \X (1..NCONN[h]) : h \in Hosts}
NoHost == "none"
NoByte == "empty"

\* Sequence numbers: signed distance, as (int32_t)(a - b).
Plus(a, n) == (a + n) % SeqMod
Dist(a, b) == ((a - b + SeqMod \div 2) % SeqMod) - SeqMod \div 2
SeqGt(a, b) == Dist(a, b) > 0
SeqGe(a, b) == Dist(a, b) >= 0

VARIABLES
    conn,        \* struct tcp_conn, the call a process is in, and the bytes its ring had
                 \* no room for and how far past snd_nxt retransmissions went
    nextPort,    \* next_lport of the client
    net,         \* segments under way
    clock,       \* where the next initial sequence number comes from
    faults,      \* losses, copies, timeouts and interrupted writes so far
    wrote,       \* bytes put into the stream that starts at an ISN
    shut,        \* streams whose FIN was sent
    spoiled      \* streams of which a retransmission read outside sndbuf, or sent what
                 \* snd_nxt did not count when the next chunk took its place

history == <<wrote, shut, spoiled>>
vars == <<conn, nextPort, net, clock, faults, history>>

EmptyHeld == [k \in 0..(TCP_REASM_WIN - 1) |-> NoByte]
Fresh == [used |-> FALSE, held |-> FALSE, call |-> "none", todo |-> 0, sends |-> 0, state |-> "CLOSED",
          lport |-> 0, rport |-> 0, rip |-> NoHost,
          isn |-> 0, irs |-> 0, snd_nxt |-> 0, snd_una |-> 0, snd_base |-> 0, sndbuf |-> <<>>,
          rcv_nxt |-> 0, snd_wnd |-> 0, last_adv |-> 0, rx |-> <<>>, got |-> <<>>, lost |-> {}, ahead |-> 0,
          base |-> 0, present |-> EmptyHeld, have_fin |-> FALSE, fin_seq |-> 0,
          peer_fin |-> FALSE, fin_sent |-> FALSE, reset |-> FALSE, accepted |-> FALSE]

\* What tcp_new leaves of the connection that had the block before.
Left(c) == [Fresh EXCEPT !.lport = c.lport, !.rip = c.rip, !.rport = c.rport]
New(c) == [Left(c) EXCEPT !.used = TRUE]

Synchronized == {"ESTABLISHED", "FIN_WAIT_1", "FIN_WAIT_2", "CLOSING", "CLOSE_WAIT",
                 "LAST_ACK", "TIME_WAIT"}

Init ==
    /\ conn = [b \in Block |-> Fresh]
    /\ nextPort = FirstPort
    /\ net = {}
    /\ clock = SeqMod - 2
    /\ faults = 0
    /\ wrote = [n \in 0..(SeqMod - 1) |-> 0]
    /\ shut = {} /\ spoiled = {}

----------------------------------------------------------------------------
(* Segments.                                                               *)

\* tcp_advertise_wnd(ring_free(c)).
Advertised(c) == Min({TCP_RXBUF - 1 - Len(c.rx), TCP_REASM_WIN})
Told(c) == [c EXCEPT !.last_adv = Advertised(c)]

\* tcp_xmit_seq from host h.
Seg(h, c, flags, seq, data) ==
    [to |-> c.rip, from |-> h, src |-> c.lport, dst |-> c.rport, seq |-> seq,
     ack |-> c.rcv_nxt, flags |-> flags, wnd |-> Advertised(c), data |-> data]

\* tcp_send_rst, with the fields of tcp_rst_fields.
Rst(s) ==
    [to |-> s.from, from |-> s.to, src |-> s.dst, dst |-> s.src, wnd |-> 0, data |-> <<>>,
     seq |-> IF "ACK" \in s.flags THEN s.ack ELSE 0,
     ack |-> IF "ACK" \in s.flags THEN 0
             ELSE Plus(s.seq, Len(s.data) + Cardinality(s.flags \cap {"SYN", "FIN"})),
     flags |-> {"RST"} \cup ({"ACK"} \ s.flags)]

Transmit(rest, out) ==
    /\ Cardinality(rest \cup out) <= MaxNet
    /\ net' = rest \cup out

\* tcp_next_seg: how much to send now, with Nagle's rule.
NextSeg(unsent, inflight, win) ==
    LET seg == Min({unsent, TCP_MSS, win - inflight})
    IN IF unsent <= 0 \/ win - inflight <= 0 \/ (seg < TCP_MSS /\ inflight > 0) THEN 0 ELSE seg

\* Mutant: the offset is counted from the oldest unacknowledged byte.
SndBytesFromUna(c, off, n) ==
    LET una == Dist(c.snd_una, c.snd_base)
    IN [i \in 1..n |-> IF una + i \in DOMAIN c.sndbuf THEN c.sndbuf[una + i] ELSE Junk]

\* n bytes of the send buffer from offset "off" on; sndbuf[-1] is another field.
SndBytes(c, off, n) == [i \in 1..n |-> IF off + i > 0 THEN c.sndbuf[off + i] ELSE Junk]

\* tcp_send_window: everything min(cwnd, peer window) allows, pipelined.
RECURSIVE SendWindow(_, _, _, _)
SendWindow(h, c, cwnd, out) ==
    LET unsent == Dist(Plus(c.snd_base, Len(c.sndbuf)), c.snd_nxt)
        seg == NextSeg(unsent, Dist(c.snd_nxt, c.snd_una), Min({c.snd_wnd, cwnd}))
        s == Seg(h, c, {"ACK"}, c.snd_nxt, SndBytes(c, Dist(c.snd_nxt, c.snd_base), seg))
    IN IF seg = 0 THEN <<c, out>>
       ELSE SendWindow(h, [Told(c) EXCEPT !.snd_nxt = Plus(@, seg), !.ahead = Max({0, @ - seg})],
                       cwnd, out \cup {s})

\* tcp_retx_oldest.
RetxOldest(h, c) ==
    LET off == Dist(c.snd_una, c.snd_base)
        remain == Len(c.sndbuf) - off
    IN IF remain <= 0 THEN {}
       ELSE {Seg(h, c, {"ACK"}, c.snd_una, SndBytes(c, off, Min({remain, TCP_MSS})))}

\* Into a closed window it sends what snd_nxt does not count (the FIN left aside).
Resent(c) ==
    LET remain == Dist(Plus(c.snd_base, Len(c.sndbuf)), c.snd_una)
        counted == IF c.fin_sent THEN c.snd_nxt - 1 ELSE c.snd_nxt
    IN [c EXCEPT !.ahead = Max({@, Dist(Plus(c.snd_una, Min({remain, TCP_MSS})), counted)})]

\* It spoils the stream when it reads before sndbuf: an earlier chunk is still
\* unacknowledged, its write having been given up; or nothing was ever written
\* and the first sequence number is, as a signed number, below snd_base = 0.
\* So it does when it sends, after the write was cut short, what that has not sent.
Wild(c) == Dist(c.snd_una, c.snd_base) < 0 \/ (c.call # "send" /\ Resent(c).ahead > 0)

----------------------------------------------------------------------------
(* Reassembly.                                                             *)

\* tcp_reasm_accept: slot k takes the byte whose sequence number lies in
\* [base, base + WIN) and is k modulo WIN, if the segment holds it.
ReasmAccept(c, seq, data) ==
    [k \in 0..(TCP_REASM_WIN - 1) |->
        LET i == Dist(Plus(c.base, (k - c.base) % TCP_REASM_WIN), seq) + 1
        IN IF i \in 1..Len(data) THEN data[i] ELSE c.present[k]]

Slot(c, j) == Plus(c.base, j) % TCP_REASM_WIN

\* The bytes at the front of the window that are there.
Run(c) ==
    Min({TCP_REASM_WIN} \cup {j \in 0..(TCP_REASM_WIN - 1) : c.present[Slot(c, j)] = NoByte})

\* Mutant: the last byte held counts, whatever is missing before it.
AckableHeld(c) ==
    Max({Run(c)} \cup {j + 1 : j \in {i \in 0..(TCP_REASM_WIN - 1) : c.present[Slot(c, i)] # NoByte}})

\* tcp_reasm_pos after the drain, counted from the front of the window.
Ackable(c) == Run(c)

\* tcp_reasm_read until it is empty, and ring_push of every byte: what the
\* ring has no room for is dropped.
Drain(c) ==
    LET n == Run(c)
        out == {Slot(c, j) : j \in 0..(n - 1)}
        fit == Min({n, TCP_RXBUF - 1 - Len(c.rx)})
    IN [c EXCEPT !.base = Plus(@, n), !.rcv_nxt = Plus(c.base, Ackable(c)),
                 !.present = [k \in DOMAIN @ |-> IF k \in out THEN NoByte ELSE @[k]],
                 !.rx = @ \o [j \in 1..fit |-> c.present[Slot(c, j - 1)]],
                 !.lost = @ \cup {c.present[Slot(c, j)] : j \in fit..(n - 1)}]

----------------------------------------------------------------------------
(* tcp_input.                                                              *)

\* A SYN for a listener: the first free block becomes a child in SYN_RCVD,
\* answered with SYN and ACK; with no block left the SYN is dropped.
FreeSlots(h) == {i \in 1..NCONN[h] : ~conn[<<h, i>>].used}
PassiveOpen(s, rest) ==
    LET h == s.to
        ch == [New(Fresh) EXCEPT !.lport = s.dst, !.rip = s.from, !.rport = s.src,
                            !.rcv_nxt = Plus(s.seq, 1), !.irs = s.seq,
                            !.isn = clock, !.snd_una = clock, !.snd_nxt = Plus(clock, 1),
                            !.snd_wnd = s.wnd, !.state = "SYN_RCVD"]
    IN IF FreeSlots(h) = {} THEN net' = rest /\ UNCHANGED <<conn, clock>>
       ELSE /\ conn' = [conn EXCEPT ![<<h, Min(FreeSlots(h))>>] = Told(ch)]
            /\ clock' = Plus(clock, IsnStep)
            /\ Transmit(rest, {Seg(h, ch, {"SYN", "ACK"}, clock, <<>>)})

\* Handshake states: the block after the segment and what is sent.
SynRcvd(h, c, s) ==
    IF "ACK" \in s.flags /\ s.ack = c.snd_nxt
    THEN <<[c EXCEPT !.snd_una = s.ack, !.snd_wnd = s.wnd, !.state = "ESTABLISHED",
                     !.base = c.rcv_nxt, !.present = EmptyHeld], {}>>
    ELSE IF "SYN" \in s.flags /\ "ACK" \notin s.flags
    THEN <<Told(c), {Seg(h, c, {"SYN", "ACK"}, c.snd_una, <<>>)}>>
    ELSE <<c, {}>>

SynSent(h, c, s) ==
    LET up == [c EXCEPT !.rcv_nxt = Plus(s.seq, 1), !.irs = s.seq, !.snd_una = s.ack,
                        !.snd_wnd = s.wnd, !.state = "ESTABLISHED",
                        !.base = Plus(s.seq, 1), !.present = EmptyHeld]
    IN IF {"SYN", "ACK"} \subseteq s.flags /\ s.ack = c.snd_nxt
       THEN <<Told(up), {Seg(h, up, {"ACK"}, up.snd_nxt, <<>>)}>>
       ELSE <<c, {}>>

\* Mutant: a FIN is consumed as soon as it is seen.
FinInOrderNow(c) == c.have_fin /\ ~c.peer_fin

\* The peer's FIN counts once every byte before it has arrived.
FinInOrder(c) == c.have_fin /\ ~c.peer_fin /\ c.rcv_nxt = c.fin_seq

\* The teardown transitions: ours is acknowledged, theirs has just come.
AfterFins(state, ours, theirs) ==
    LET st == IF ~ours THEN state
              ELSE CASE state = "FIN_WAIT_1" -> "FIN_WAIT_2"
                     [] state = "CLOSING" -> "TIME_WAIT"
                     [] state = "LAST_ACK" -> "CLOSED"
                     [] OTHER -> state
    IN IF ~theirs THEN st
       ELSE CASE st = "ESTABLISHED" -> "CLOSE_WAIT"
              [] st = "FIN_WAIT_2" -> "TIME_WAIT"
              [] st = "FIN_WAIT_1" -> "CLOSING"
              [] OTHER -> st

\* A segment in a synchronized state; "third" says that a pure duplicate ACK
\* is the third one.
PureDup(c, s) ==
    /\ "ACK" \in s.flags /\ s.ack = c.snd_una /\ s.data = <<>>
    /\ s.flags \cap {"SYN", "FIN"} = {} /\ s.wnd = c.snd_wnd /\ c.snd_una # c.snd_nxt
Sync(h, c, s, third) ==
    LET retx == IF third /\ PureDup(c, s) THEN RetxOldest(h, c) ELSE {}
        c0 == IF retx = {} THEN c ELSE Resent(c)
        c1 == IF "ACK" \in s.flags /\ SeqGt(s.ack, c.snd_una)
              THEN [c0 EXCEPT !.snd_una = s.ack] ELSE c0
        c2 == Drain([c1 EXCEPT !.snd_wnd = s.wnd, !.present = ReasmAccept(c1, s.seq, s.data)])
        c3 == IF "FIN" \in s.flags
              THEN [c2 EXCEPT !.have_fin = TRUE, !.fin_seq = Plus(s.seq, Len(s.data))] ELSE c2
        now == FinInOrder(c3)
        c4 == IF now THEN [c3 EXCEPT !.rcv_nxt = Plus(@, 1), !.peer_fin = TRUE] ELSE c3
        reply == IF s.data # <<>> \/ "FIN" \in s.flags
                 THEN {Seg(h, c4, {"ACK"}, c4.snd_nxt, <<>>)} ELSE {}
        c5 == [c4 EXCEPT !.state = AfterFins(@, c4.fin_sent /\ c4.snd_una = c4.snd_nxt, now)]
    IN <<IF reply \cup retx = {} THEN c5 ELSE Told(c5), reply \cup retx>>

Matches(b, s) ==
    /\ b[1] = s.to /\ conn[b].used
    /\ conn[b].lport = s.dst /\ conn[b].rip = s.from /\ conn[b].rport = s.src
Listeners(s) == {b \in Block : b[1] = s.to /\ conn[b].used /\ conn[b].state = "LISTEN"
                               /\ conn[b].lport = s.dst}

\* tcp_input: the segment is taken from the network, or a copy stays there.  One
\* step: that net_send may sleep over an answer (Net's TxWait) before the rest of
\* the segment is taken in, and another process pumps meanwhile, is left out.
Deliver(s, again) ==
    LET rest == IF again THEN net ELSE net \ {s}
    IN /\ s \in net
       /\ \/ \E b \in Block : \E third \in {FALSE, PureDup(conn[b], s)} :
               LET c == conn[b]
                   wild == third /\ c.state \in Synchronized /\ PureDup(c, s) /\ Wild(c)
                   answer == CASE c.state = "SYN_RCVD" -> SynRcvd(b[1], c, s)
                               [] c.state = "SYN_SENT" -> SynSent(b[1], c, s)
                               [] c.state \in Synchronized -> Sync(b[1], c, s, third)
                               [] OTHER -> <<c, {}>>
               IN /\ Matches(b, s)
                  /\ IF "RST" \in s.flags
                     THEN /\ conn' = [conn EXCEPT ![b].reset = TRUE, ![b].state = "CLOSED"]
                          /\ net' = rest
                     ELSE \E after \in {answer} :
                             conn' = [conn EXCEPT ![b] = after[1]] /\ Transmit(rest, after[2])
                  /\ spoiled' = spoiled \cup {x \in {c.isn} : wild}
                  /\ UNCHANGED clock
          \/ /\ (\A b \in Block : ~Matches(b, s)) /\ UNCHANGED spoiled
             /\ IF "SYN" \in s.flags /\ "ACK" \notin s.flags
                THEN IF Listeners(s) # {} THEN PassiveOpen(s, rest)
                     ELSE net' = rest /\ UNCHANGED <<conn, clock>>
                ELSE /\ Transmit(rest, IF "RST" \in s.flags THEN {} ELSE {Rst(s)})
                     /\ UNCHANGED <<conn, clock>>
       /\ UNCHANGED <<nextPort, wrote, shut>>

----------------------------------------------------------------------------
(* The calls of a program.                                                 *)

Idle(b) == conn[b].held /\ conn[b].call = "none"

\* socket(): tcp_new.
Socket(h) ==
    /\ FreeSlots(h) # {}
    /\ conn' = [conn EXCEPT ![<<h, Min(FreeSlots(h))>>] = [New(@) EXCEPT !.held = TRUE]]
    /\ UNCHANGED <<nextPort, net, clock, history>>

\* bind() and listen().
Listen(b) ==
    /\ Idle(b) /\ conn[b].state = "CLOSED"
    /\ conn' = [conn EXCEPT ![b].lport = PORT, ![b].rip = NoHost, ![b].rport = 0,
                            ![b].state = "LISTEN"]
    /\ UNCHANGED <<nextPort, net, clock, history>>

\* accept() returns the first child whose handshake is complete.
Ripe(l, i) ==
    LET ch == conn[<<l[1], i>>]
    IN ch.used /\ <<l[1], i>> # l /\ ch.lport = conn[l].lport /\ ch.rport # 0
       /\ ch.state = "ESTABLISHED" /\ ~ch.accepted
Accept(l) ==
    /\ Idle(l) /\ conn[l].state = "LISTEN"
    /\ \E i \in 1..NCONN[l[1]] :
         /\ Ripe(l, i) /\ \A j \in 1..(i - 1) : ~Ripe(l, j)
         /\ conn' = [conn EXCEPT ![<<l[1], i>>].accepted = TRUE, ![<<l[1], i>>].held = TRUE]
    /\ UNCHANGED <<nextPort, net, clock, history>>

\* connect(): the first SYN, its retransmissions, and the return, which comes
\* when the handshake is done, on a reset, on a signal or after five seconds.
Connect(b, to) ==
    LET c == [conn[b] EXCEPT !.rip = to, !.rport = PORT, !.lport = nextPort, !.isn = clock,
                             !.snd_una = clock, !.snd_nxt = clock, !.state = "SYN_SENT",
                             !.call = "connect"]
    IN /\ Idle(b) /\ conn[b].state = "CLOSED" /\ nextPort < FirstPort + Connects
       /\ conn' = [conn EXCEPT ![b] = [Told(c) EXCEPT !.snd_nxt = Plus(clock, 1)]]
       /\ nextPort' = nextPort + 1
       /\ clock' = Plus(clock, IsnStep)
       /\ Transmit(net, {Seg(b[1], c, {"SYN"}, clock, <<>>)})
       /\ UNCHANGED history

ConnectAgain(b) ==
    LET c == conn[b]
    IN /\ c.call = "connect" /\ c.state # "ESTABLISHED" /\ ~c.reset
       /\ conn' = [conn EXCEPT ![b] = Told(c)]
       /\ Transmit(net, {Seg(b[1], c, {"SYN"}, c.isn, <<>>)})
       /\ UNCHANGED <<nextPort, clock, history>>

ConnectOver(b) == conn[b].state = "ESTABLISHED" \/ conn[b].reset
ConnectReturn(b) ==
    /\ conn[b].call = "connect"
    /\ conn' = [conn EXCEPT ![b].call = "none"]
    /\ UNCHANGED <<nextPort, net, clock, history>>

\* The next chunk of a write of n bytes: sndbuf is filled anew.
Chunk(c, n) ==
    LET len == Min({n, TCP_SNDBUF})
    IN [c EXCEPT !.sndbuf = [i \in 1..len |-> <<c.isn, wrote[c.isn] + i>>],
                 !.snd_base = c.snd_nxt, !.todo = n - len, !.call = "send"]

\* The next chunk, or a FIN, takes the sequence numbers from snd_nxt on.
Uncounted(b) == spoiled' = spoiled \cup {x \in {conn[b].isn} : conn[b].ahead > 0}

\* The pass of tcp_flush_chunk that starts a chunk of c: copy, push.
StartChunk(b, n) ==
    \E cwnd \in Cwnds :
        LET c == Chunk(conn[b], n)
        IN /\ \E sent \in {SendWindow(b[1], c, cwnd, {})} :
                conn' = [conn EXCEPT ![b] = sent[1]] /\ Transmit(net, sent[2])
           /\ wrote' = [wrote EXCEPT ![c.isn] = @ + Len(c.sndbuf)]
           /\ Uncounted(b)
           /\ UNCHANGED <<nextPort, clock, shut>>

\* send(): refused unless ESTABLISHED.  Each program makes its writes in turn.
Send(b) ==
    /\ Idle(b) /\ conn[b].state = "ESTABLISHED"
    /\ conn[b].sends < Len(Writes[b[1]])
    /\ StartChunk(b, Writes[b[1]][conn[b].sends + 1])

\* The return of tcp_send: a stream holds what was sent of the chunk.
ChunkAcked(c) == SeqGe(c.snd_una, Plus(c.snd_base, Len(c.sndbuf)))
EndCall(b) ==
    /\ conn' = [conn EXCEPT ![b].call = "none", ![b].todo = 0, ![b].sends = @ + 1]
    /\ wrote' = [wrote EXCEPT ![conn[b].isn] = Dist(conn[b].snd_nxt, Plus(conn[b].isn, 1))]
    /\ Uncounted(b)
    /\ UNCHANGED <<nextPort, net, clock, shut>>

\* The whole chunk is acknowledged: the next one, or the return.
FlushDone(b) ==
    LET c == conn[b]
    IN /\ c.call = "send" /\ ChunkAcked(c)
       /\ IF c.todo > 0 THEN StartChunk(b, c.todo) ELSE EndCall(b)

\* A pass that goes on: perhaps a timeout, then whatever the window admits.
FlushPass(b, timeout) ==
    \E cwnd \in Cwnds :
        LET c == conn[b]
            retx == IF timeout THEN RetxOldest(b[1], c) ELSE {}
        IN /\ c.call = "send" /\ ~ChunkAcked(c) /\ ~c.reset
           /\ \E sent \in {SendWindow(b[1], IF timeout THEN Told(Resent(c)) ELSE c, cwnd, retx)} :
                conn' = [conn EXCEPT ![b] = sent[1]] /\ Transmit(net, sent[2])
           /\ spoiled' = spoiled \cup {x \in {c.isn} : timeout /\ Wild(c)}
           /\ UNCHANGED <<nextPort, clock, wrote, shut>>

\* A reset or a signal ends the write; after thirty seconds the chunk counts
\* as sent and the next one takes its place.
FlushBroken(b) == conn[b].call = "send" /\ ~ChunkAcked(conn[b]) /\ EndCall(b)
FlushGiveUp(b) ==
    LET c == conn[b]
    IN /\ c.call = "send" /\ ~ChunkAcked(c) /\ ~c.reset
       /\ c.todo > 0 /\ StartChunk(b, c.todo)

\* recv() of up to n bytes, with the window update.
Recv(b, n) ==
    LET c == conn[b]
        k == Min({n, Len(c.rx)})
        d == [c EXCEPT !.rx = SubSeq(@, k + 1, Len(@)), !.got = @ \o SubSeq(c.rx, 1, k)]
        update == d.state = "ESTABLISHED" /\ Advertised(d) >= d.last_adv + TCP_MSS
    IN /\ c.held /\ c.call \in {"none", "send"} /\ c.rx # <<>>
       /\ conn' = [conn EXCEPT ![b] = IF update THEN Told(d) ELSE d]
       /\ Transmit(net, IF update THEN {Seg(b[1], d, {"ACK"}, d.snd_nxt, <<>>)} ELSE {})
       /\ UNCHANGED <<nextPort, clock, history>>

\* The FIN of tcp_shutdown and tcp_close, and the state it leads to.
WithFin(c, state) ==
    [Told(c) EXCEPT !.snd_nxt = Plus(@, 1), !.fin_sent = TRUE, !.state = state]
SendFin(b, c, state, call) ==
    /\ conn' = [conn EXCEPT ![b] = [WithFin(c, state) EXCEPT !.call = call]]
    /\ Transmit(net, {Seg(b[1], c, {"FIN", "ACK"}, c.snd_nxt, <<>>)})
    /\ shut' = shut \cup {c.isn}
    /\ UNCHANGED <<nextPort, clock, wrote, spoiled>>

Shutdown(b) ==
    Idle(b) /\ conn[b].state = "ESTABLISHED" /\ SendFin(b, conn[b], "FIN_WAIT_1", "none")

\* close() of the last descriptor: our FIN if the stream is open, then the
\* loop that pumps until CLOSED, a reset or three seconds.
Close(b) ==
    LET c == conn[b]
    IN /\ Idle(b)
       /\ CASE c.state = "ESTABLISHED" -> SendFin(b, c, "FIN_WAIT_1", "close")
            [] c.state = "CLOSE_WAIT" -> SendFin(b, c, "LAST_ACK", "close")
            [] OTHER -> /\ conn' = [conn EXCEPT ![b].call = "close"]
                        /\ UNCHANGED <<nextPort, net, clock, history>>

\* TIME_WAIT has lasted 2 MSL; and the block is given back.
LingerEnd(b) ==
    /\ conn[b].call = "close" /\ conn[b].state = "TIME_WAIT"
    /\ conn' = [conn EXCEPT ![b].state = "CLOSED"]
    /\ UNCHANGED <<nextPort, net, clock, history>>
CloseOver(b) == conn[b].state = "CLOSED" \/ conn[b].reset
CloseReturn(b) ==
    /\ conn[b].call = "close"
    /\ conn' = [conn EXCEPT ![b] = Left(@)]
    /\ UNCHANGED <<nextPort, net, clock, history>>

----------------------------------------------------------------------------
\* The network loses a segment.
Lose(s) ==
    /\ net' = net \ {s}
    /\ UNCHANGED <<conn, nextPort, clock, history>>

Steps ==
    \/ \E s \in net : Deliver(s, FALSE)
    \/ Socket(Server) /\ \A i \in 1..NCONN[Server] : ~conn[<<Server, i>>].held
    \/ Socket(Client) /\ nextPort < FirstPort + Connects /\ \A i \in 1..NCONN[Client] : ~conn[<<Client, i>>].held
    \/ \E b \in Block :
        \/ b[1] = Server /\ (Listen(b) \/ Accept(b))
        \/ b[1] = Client /\ Connect(b, Server)
        \/ ConnectOver(b) /\ ConnectReturn(b)
        \/ Send(b) \/ FlushPass(b, FALSE) \/ FlushDone(b) \/ (conn[b].reset /\ FlushBroken(b))
        \/ Recv(b, TCP_RXBUF) \/ Shutdown(b) \/ Close(b)
        \/ LingerEnd(b) \/ (CloseOver(b) /\ CloseReturn(b))

\* What the network does wrong, and timeouts; calls that time or a signal ends.
Faults ==
    \/ \E s \in net : Lose(s) \/ Deliver(s, TRUE)
    \/ \E b \in Block : ConnectAgain(b) \/ FlushPass(b, TRUE)
Interruptions ==
    \E b \in Block :
        \/ ~ConnectOver(b) /\ ConnectReturn(b)
        \/ ~CloseOver(b) /\ CloseReturn(b)
        \/ (~conn[b].reset /\ FlushBroken(b)) \/ FlushGiveUp(b)

Next ==
    \/ Steps /\ UNCHANGED faults
    \/ Faults /\ faults < MaxFaults /\ faults' = faults + 1
    \/ Interruptions /\ faults < MaxFaults /\ faults' = MaxFaults

Spec == Init /\ [][Next]_vars

----------------------------------------------------------------------------
(* Properties.                                                             *)

Received(c) == c.got \o c.rx

\* With what a full ring dropped after it was acknowledged (tcp.c:101, 400).
Arrived(c) == {Received(c)[i] : i \in DOMAIN Received(c)} \cup c.lost

\* In order, exactly once: whatever the network loses, repeats and reorders,
\* and whichever write time or a signal cuts short, what a program reads, and
\* what waits in its ring, is the other side's bytes in their order, up to
\* some point and without a gap but for those that a full ring dropped, as
\* long as the other side retransmits from its buffer (tcp.c:392).
StreamPrefix ==
    \A b \in Block :
        LET c == conn[b] IN
        c.irs \notin spoiled =>
            /\ \A i, j \in DOMAIN Received(c) : i < j => Received(c)[i][2] < Received(c)[j][2]
            /\ Cardinality(Arrived(c)) = Len(Received(c)) + Cardinality(c.lost)
            /\ Arrived(c) = {<<c.irs, i>> : i \in 1..Cardinality(Arrived(c))}
            /\ Cardinality(Arrived(c)) <= wrote[c.irs]

\* End of file is told only after the last byte: a FIN that overtakes the
\* segments before it, or is all that comes of a write cut short, has to wait
\* for them (tcp.c:404); only what a full ring dropped is missing then.
EofComplete ==
    \A b \in Block :
        conn[b].peer_fin /\ conn[b].irs \notin spoiled =>
            /\ conn[b].irs \in shut
            /\ Cardinality(Arrived(conn[b])) = wrote[conn[b].irs]

\* A byte that counts as acknowledged has reached the ring of the other side
\* or its program, unless that ring was full when its turn came: tcp_send never
\* reports bytes that are still under way or wait behind a gap.  That a full
\* ring drops what has been acknowledged is the code's doing (tcp.c:400).
AckedReceived ==
    \A b, p \in Block :
        /\ conn[b].state \in Synchronized /\ conn[p].state \in Synchronized
        /\ conn[b].irs = conn[p].isn /\ conn[p].irs = conn[b].isn
        /\ conn[b].isn \notin spoiled
        => Dist(conn[b].snd_una, Plus(conn[b].isn, 1)) <=
              Cardinality(Arrived(conn[p])) + (IF conn[p].peer_fin THEN 1 ELSE 0)

\* The advertised window keeps the ring from overflowing: every byte taken out
\* of the reassembly queue is still there or was read.  The code says so at
\* ring_push (tcp.c:101) and does not keep it, because a retransmission into a
\* closed window is accepted as long as it lies in the reassembly window.
WindowBoundsRing ==
    \A b \in Block :
        conn[b].state \in Synchronized =>
            Dist(conn[b].base, Plus(conn[b].irs, 1)) = Len(Received(conn[b]))
=============================================================================
