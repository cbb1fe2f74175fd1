-------------------------------- MODULE Net --------------------------------
(***************************************************************************)
(* The network stack of src/netstack.c with the datagram sockets of        *)
(* src/socket.c and the queues of src/virtio_net.c, as used by several     *)
(* processes at once.                                                      *)
(*                                                                         *)
(* The kernel does not preempt a system call: a process keeps the CPU      *)
(* until it sleeps in net_wait().  A blocking call is a loop that pumps,   *)
(* looks at its condition and sleeps; whatever frame it pumps is handled   *)
(* on its own stack, and handling it may block again (an echo reply that   *)
(* needs an ARP exchange, a lease that wants renewing).  So each process   *)
(* has a stack of the waits it is in.  Timeouts and signals may end a wait *)
(* at any pass.  TCP has a module of its own; a frame here is ARP, ICMP,   *)
(* DNS, DHCP or a plain datagram.                                          *)
(***************************************************************************)
EXTENDS Naturals, Sequences, FiniteSets, SequencesExt, FiniteSetsExt

CONSTANTS
    Procs,      \* processes
    Calls,      \* the kinds of call each process makes
    Peers,      \* addresses of other hosts on our network
    Gateway, Dns,  \* the gateway (on our network) and the name server (beyond it)
    Names,      \* host names
    Addresses,  \* addresses the DHCP server may lease us
    ARPMAX,     \* entries of the ARP cache
    RXN,        \* receive buffers
    QDEPTH,     \* datagrams queued at a socket
    MaxCalls,   \* bound on the calls made
    MaxStray,   \* bound on the frames that come unasked: echo requests, datagrams, lease events
    MaxRenewals, \* bound on the DHCP exchanges
    MaxDepth    \* bound on nested waits

ASSUME NetAssumption ==
    /\ Gateway \in Peers /\ Dns \notin Peers
    /\ {ARPMAX, RXN, QDEPTH} \subseteq Nat \ {0}
    /\ IsFiniteSet(Addresses) /\ Addresses # {}

VARIABLES
    cpu,      \* the process inside a system call that has not gone to sleep, or "none"
    stack,    \* the waits each process is in, innermost last
    result,   \* what the last call of each process returned
    arp,      \* arp_cache: the addresses resolved
    seg, reply,        \* the static buffers of udp_send and icmp_input
    txbuf, txq,        \* virtio_net's buffer; chains the device has not done; used idx # last_used
    rx,                \* received frames, oldest first
    dns, ping, dhcp,   \* the one outstanding request of each kind; of ping_got the host is kept
    lease,    \* our_ip, what the lease clock asks for, in_renew, and the exchange that gave the address
    sock,     \* the bound socket's queue
    world     \* the other hosts: what they were told and how often they spoke

globals == <<arp, seg, reply, dns, ping, dhcp, lease, sock>>
vars == <<cpu, stack, result, txbuf, txq, rx, world, globals>>

NextHop(ip) == IF ip \in Peers THEN ip ELSE Gateway

Init ==
    /\ cpu = "none"
    /\ stack = [p \in Procs |-> <<>>]
    /\ result = [p \in Procs |-> [kind |-> "none"]]
    /\ arp = {}
    /\ seg = [kind |-> "none"] /\ reply = [kind |-> "none"]
    /\ txbuf = [kind |-> "none"] /\ txq = [pending |-> 0, new |-> FALSE]
    /\ rx = <<>>
    /\ dns = [waiting |-> FALSE, sport |-> 0, got |-> [kind |-> "none"], qid |-> 0]
    /\ ping = [id |-> 0, got |-> "none"]
    /\ dhcp = [waiting |-> FALSE, got |-> [kind |-> "none"], xid |-> 0]
    /\ lease = [ip |-> CHOOSE a \in Addresses : TRUE, xid |-> 0, due |-> "hold", renewing |-> FALSE]
    /\ sock = <<>>
    /\ world = [acked |-> {<<0, CHOOSE a \in Addresses : TRUE>>}, stray |-> 0, calls |-> 0]

----------------------------------------------------------------------------
(* The stack of a process.                                                 *)

Depth(p) == Len(stack[p])
Top(p) == Last(stack[p])
Running(p) == cpu \in {"none", p}
Go(p) == cpu' = p
SleepNow == cpu' = "none"

\* net_send and eth_send: copy the frame, give the chain, wait for the device.
\* "below" is the stack under the new wait.
EthSend(p, below, frame) ==
    /\ txbuf' = frame
    /\ txq' = [txq EXCEPT !.pending = @ + 1]
    /\ stack' = [stack EXCEPT ![p] = Append(below, [kind |-> "tx"])]

\* What ip_send puts on the wire: the payload of a static buffer is read now.
Packet(w) ==
    [kind |-> "ip", hop |-> w.hop, dst |-> w.dst,
     body |-> CASE w.buf = "seg" -> seg [] w.buf = "reply" -> reply [] OTHER -> w.body]

\* ip_send: the next hop's address is in the cache, or asked for and waited for.
\* "s" is the payload when it is in no static buffer.
IpSend(p, below, dst, buf, s) ==
    LET w == [kind |-> "arp", at |-> "pump", hop |-> NextHop(dst), dst |-> dst, buf |-> buf,
              body |-> IF buf = "own" THEN s ELSE [kind |-> "none"]]
        body == IF buf = "own" THEN s ELSE IF buf = "seg" THEN seg' ELSE reply'
    IN IF w.hop \in arp
       THEN EthSend(p, below, [kind |-> "ip", hop |-> w.hop, dst |-> dst, body |-> body])
       ELSE EthSend(p, Append(below, w), [kind |-> "who", ip |-> w.hop])

\* udp_send: the datagram is built in the static buffer.
UdpSend(p, below, dst, datagram) ==
    /\ seg' = datagram
    /\ IpSend(p, below, dst, "seg", datagram)

\* The loop at the end of net_send.
TxWait(p) ==
    /\ Top(p).kind = "tx"
    /\ IF txq.new
       THEN /\ txq' = [txq EXCEPT !.new = FALSE]
            /\ stack' = [stack EXCEPT ![p] = Front(@)]
            /\ Go(p)
       ELSE SleepNow /\ UNCHANGED <<txq, stack>>
    /\ UNCHANGED <<result, txbuf, rx, world, globals>>

----------------------------------------------------------------------------
(* System calls.                                                           *)

Call(p, kind) ==
    /\ Depth(p) = 0 /\ Running(p) /\ Go(p)
    /\ kind \in Calls[p] /\ world.calls < MaxCalls
    /\ world' = [world EXCEPT !.calls = @ + 1]

\* net_resolve up to its loop.
NetResolve(p, name) ==
    LET id == dns.qid + 1
    IN /\ Call(p, "resolve")
       /\ dns' = [waiting |-> TRUE, sport |-> id, got |-> [kind |-> "none"], qid |-> id]
       /\ UdpSend(p, <<[kind |-> "resolve", at |-> "pump", id |-> id, name |-> name]>>, Dns,
                  [kind |-> "query", sport |-> id, id |-> id, name |-> name])
       /\ UNCHANGED <<result, arp, reply, rx, ping, dhcp, lease, sock>>

\* net_ping up to its loop.
NetPing(p, ip) ==
    LET id == ping.id + 1
    IN /\ Call(p, "ping")
       /\ ping' = [id |-> id, got |-> "none"]
       /\ IpSend(p, <<[kind |-> "ping", at |-> "pump", ip |-> ip, id |-> id]>>, ip, "own",
                 [kind |-> "echo", id |-> id])
       /\ UNCHANGED <<result, arp, seg, reply, rx, dns, dhcp, lease, sock>>

\* socket_sendto.
SocketSendto(p, ip) ==
    /\ Call(p, "sendto")
    /\ UdpSend(p, <<[kind |-> "sendto"]>>, ip, [kind |-> "datagram", to |-> ip])
    /\ UNCHANGED <<result, arp, reply, rx, dns, ping, dhcp, lease, sock>>

\* socket_recvfrom up to its loop.
SocketRecvfrom(p) ==
    /\ Call(p, "recvfrom")
    /\ stack' = [stack EXCEPT ![p] = <<[kind |-> "recvfrom", at |-> "check"]>>]
    /\ UNCHANGED <<result, txbuf, txq, rx, globals>>

----------------------------------------------------------------------------
(* net_pump.                                                               *)

Looping(p) == Depth(p) > 0 /\ "at" \in DOMAIN Top(p)
At(p, where) == Looping(p) /\ Top(p).at = where
Moved(p, where) == [stack[p] EXCEPT ![Depth(p)].at = where]

\* dhcp_send_msg with a broadcast needs no ARP; a unicast one goes through ip_send.
DhcpSend(p, below, msg) ==
    IF msg.unicast THEN IpSend(p, below, Gateway, "own", msg)
    ELSE EthSend(p, below, [kind |-> "ip", hop |-> "all", dst |-> "all", body |-> msg])

\* dhcp_renew_check, at the start of net_pump: renew or rebind with a REQUEST,
\* or start over with a DISCOVER.  dhcp_wait_reply clears what was received.
Due(p) ==
    lease.due # "hold" /\ ~lease.renewing /\ ~dhcp.waiting /\ dhcp.xid < MaxRenewals
Renew(p) ==
    LET xid == dhcp.xid + 1
        w == [kind |-> "dhcp", at |-> "pump", xid |-> xid,
              want |-> IF lease.due = "expired" THEN "offer" ELSE "ack"]
    IN /\ At(p, "pump") /\ Due(p)
       /\ Depth(p) + 2 <= MaxDepth
       /\ lease' = [lease EXCEPT !.renewing = TRUE]
       /\ dhcp' = [waiting |-> TRUE, got |-> [kind |-> "none"], xid |-> xid]
       /\ DhcpSend(p, Append(Moved(p, "recv"), w),
                   [kind |-> IF lease.due = "expired" THEN "discover" ELSE "request", xid |-> xid,
                    ip |-> lease.ip, unicast |-> lease.due = "renew"])
       /\ Go(p)
       /\ UNCHANGED <<result, arp, seg, reply, rx, dns, ping, sock, world>>

\* socket_udp_input.
Queued(d) == IF Len(sock) >= QDEPTH THEN sock ELSE Append(sock, d)

\* Mutant: an echo reply is taken for ours whoever asked.
EchoIsOursAny(f) == TRUE
EchoIsOurs(f) == f.id = ping.id

\* What each protocol takes from a frame.  Only replies enter the ARP cache,
\* and a full cache keeps what it has.
ArpInput(f) ==
    arp' = IF f.kind = "is" /\ Cardinality(arp) < ARPMAX THEN arp \cup {f.ip} ELSE arp
IcmpInput(f) ==
    ping' = IF f.kind = "echoed" /\ EchoIsOurs(f) THEN [ping EXCEPT !.got = f.from] ELSE ping
UdpInput(f) ==
    /\ dns' = IF f.kind = "answer" /\ dns.waiting /\ f.dport = dns.sport
              THEN [dns EXCEPT !.got = f] ELSE dns
    /\ dhcp' = IF f.kind \in {"offer", "ack"} /\ dhcp.waiting THEN [dhcp EXCEPT !.got = f] ELSE dhcp
    /\ sock' = IF f.kind = "datagram" THEN Queued(f) ELSE sock

\* net_recv: the oldest frame, whose buffer is posted again.
NetRecv == rx' = Tail(rx)

\* net_input.  An echo request is answered from the static buffer, a who-has
\* with our hardware address.
Take(p, f, below) ==
    /\ NetRecv /\ ArpInput(f) /\ IcmpInput(f) /\ UdpInput(f)
    /\ CASE f.kind = "echo" ->
              /\ reply' = [kind |-> "echoed", id |-> f.id, to |-> f.src]
              /\ IpSend(p, below, f.src, "reply", f)
         [] f.kind = "who" ->
              /\ EthSend(p, below, [kind |-> "here", ip |-> f.src])
              /\ UNCHANGED reply
         [] OTHER ->
              /\ stack' = [stack EXCEPT ![p] = below]
              /\ UNCHANGED <<reply, txbuf, txq>>
    /\ UNCHANGED <<seg, lease>>

\* net_pump from dhcp_renew_check on; dhcp_wait_reply clears dhcp_got first.
Pump(p) ==
    /\ At(p, "recv") \/ (At(p, "pump") /\ ~Due(p) /\ Top(p).kind # "dhcp")
    /\ Go(p)
    /\ IF rx = <<>>
       THEN /\ stack' = [stack EXCEPT ![p] = Moved(p, "check")]
            /\ UNCHANGED <<rx, txbuf, txq, globals>>
       ELSE Depth(p) + 2 <= MaxDepth /\ Take(p, Head(rx), Moved(p, "check"))
    /\ UNCHANGED <<result, world>>
DhcpClear(p) ==
    /\ At(p, "pump") /\ Top(p).kind = "dhcp" /\ Go(p)
    /\ dhcp' = [dhcp EXCEPT !.got = [kind |-> "none"]]
    /\ stack' = [stack EXCEPT ![p] = Moved(p, "recv")]
    /\ UNCHANGED <<result, arp, seg, reply, txbuf, txq, rx, dns, ping, lease, sock, world>>

----------------------------------------------------------------------------
(* The conditions of the loops, and what follows a wait.                   *)

\* Mutant: a DHCP reply to any exchange is taken.
DhcpFitsAny(w) == dhcp.got.kind = w.want
DhcpFits(w) == dhcp.got.kind = w.want /\ dhcp.got.xid = w.xid

Ready(w) ==
    CASE w.kind = "arp" -> w.hop \in arp
      [] w.kind = "resolve" -> dns.got.kind # "none"
      [] w.kind = "ping" -> ping.got # "none"
      [] w.kind = "recvfrom" -> sock # <<>>
      [] w.kind = "dhcp" -> DhcpFits(w)

\* The condition does not hold: sleep, and pump again.
Wait(p) ==
    /\ At(p, "check") /\ ~Ready(Top(p))
    /\ stack' = [stack EXCEPT ![p] = Moved(p, "pump")]
    /\ SleepNow
    /\ UNCHANGED <<result, txbuf, txq, rx, world, globals>>

Returns(p, r) ==
    /\ result' = [result EXCEPT ![p] = r]
    /\ stack' = [stack EXCEPT ![p] = <<>>]

\* arp_resolve succeeds: ip_send goes on.
ArpDone(p) ==
    /\ At(p, "check") /\ Top(p).kind = "arp" /\ Ready(Top(p)) /\ Go(p)
    /\ EthSend(p, Front(stack[p]), Packet(Top(p)))
    /\ UNCHANGED <<result, rx, world, globals>>

\* Mutant: dns_parse_answer does not compare the identifiers.
AnswerForAny(w) == dns.got.name
AnswerFor(w) == IF dns.got.kind = "answer" /\ dns.got.id = w.id THEN dns.got.name ELSE "error"

\* The other loops end: the call returns, or the lease is applied.
ResolveDone(p) ==
    /\ At(p, "check") /\ Top(p).kind = "resolve" /\ Ready(Top(p)) /\ Go(p)
    /\ dns' = [dns EXCEPT !.waiting = FALSE]
    /\ Returns(p, [kind |-> "resolve", name |-> Top(p).name, answer |-> AnswerFor(Top(p))])
    /\ UNCHANGED <<txbuf, txq, rx, world, arp, seg, reply, ping, dhcp, lease, sock>>
PingDone(p) ==
    /\ At(p, "check") /\ Top(p).kind = "ping" /\ Ready(Top(p)) /\ Go(p)
    /\ Returns(p, [kind |-> "ping", ip |-> Top(p).ip, from |-> ping.got])
    /\ UNCHANGED <<txbuf, txq, rx, world, globals>>
RecvfromDone(p) ==
    /\ At(p, "check") /\ Top(p).kind = "recvfrom" /\ Ready(Top(p)) /\ Go(p)
    /\ sock' = Tail(sock)
    /\ Returns(p, [kind |-> "recvfrom", n |-> Head(sock).n])
    /\ UNCHANGED <<txbuf, txq, rx, world, arp, seg, reply, dns, ping, dhcp, lease>>
SendtoDone(p) ==
    /\ Depth(p) = 1 /\ Top(p).kind = "sendto" /\ Go(p)
    /\ Returns(p, [kind |-> "sendto"])
    /\ UNCHANGED <<txbuf, txq, rx, world, globals>>

\* An OFFER is answered with a REQUEST for the address in it; an ACK is applied.
OfferDone(p) ==
    LET w == Top(p)
    IN /\ At(p, "check") /\ w.kind = "dhcp" /\ w.want = "offer" /\ Ready(w) /\ Go(p)
       /\ DhcpSend(p, Append(Front(stack[p]), [w EXCEPT !.want = "ack", !.at = "pump"]),
                   [kind |-> "request", xid |-> w.xid, ip |-> dhcp.got.ip, unicast |-> FALSE])
       /\ UNCHANGED <<result, rx, world, globals>>
AckDone(p) ==
    LET w == Top(p)
    IN /\ At(p, "check") /\ w.kind = "dhcp" /\ w.want = "ack" /\ Ready(w) /\ Go(p)
       /\ lease' = [ip |-> dhcp.got.ip, xid |-> w.xid, due |-> "hold", renewing |-> FALSE]
       /\ dhcp' = [dhcp EXCEPT !.waiting = FALSE]
       /\ stack' = [stack EXCEPT ![p] = Front(@)]
       /\ UNCHANGED <<result, txbuf, txq, rx, world, arp, seg, reply, dns, ping, sock>>

\* A timeout or a signal ends the wait.  A failed arp_resolve fails ip_send: a
\* call that needed it returns an error, an echo reply or a renewal is dropped
\* by its caller, which goes on.
Failed(s) ==
    IF s # <<>> /\ Last(s).kind \in {"resolve", "ping", "sendto"} THEN <<>> ELSE s
GiveUp(p) ==
    LET w == Top(p)
        below == Front(stack[p])
    IN /\ At(p, "check") /\ ~Ready(w) /\ Go(p)
       /\ dns' = IF w.kind = "resolve" \/ (w.kind = "arp" /\ below # <<>> /\ Last(below).kind = "resolve"
                                           /\ w.buf = "seg")
                 THEN [dns EXCEPT !.waiting = FALSE] ELSE dns
       /\ dhcp' = IF w.kind = "dhcp" THEN [dhcp EXCEPT !.waiting = FALSE] ELSE dhcp
       /\ lease' = IF w.kind = "dhcp" THEN [lease EXCEPT !.renewing = FALSE] ELSE lease
       /\ stack' = [stack EXCEPT ![p] = IF w.kind = "arp" /\ w.buf # "reply" THEN Failed(below) ELSE below]
       /\ UNCHANGED <<result, txbuf, txq, rx, world, arp, seg, reply, ping, sock>>

----------------------------------------------------------------------------
(* The device and the other hosts.                                         *)

\* Answers to a frame: the host asked, the name server and the DHCP server may
\* answer, each with what it was told.
Answers(f) ==
    IF f.kind = "who" THEN {[kind |-> "is", ip |-> f.ip]}
    ELSE IF f.kind = "here" THEN {}
    ELSE CASE f.body.kind = "echo" -> {[kind |-> "echoed", id |-> f.body.id, from |-> f.dst]}
           [] f.body.kind = "query" -> {[kind |-> "answer", dport |-> f.body.sport, id |-> f.body.id, name |-> f.body.name]}
           [] f.body.kind = "discover" -> {[kind |-> "offer", xid |-> f.body.xid, ip |-> a] : a \in Addresses}
           [] f.body.kind = "request" -> {[kind |-> "ack", xid |-> f.body.xid, ip |-> f.body.ip]}
           [] OTHER -> {}

\* The device reads txbuf and reports the chain; perhaps somebody answers, or
\* several DHCP servers do, if receive buffers are free.
DeviceSends ==
    /\ txq.pending > 0
    /\ txq' = [pending |-> txq.pending - 1, new |-> TRUE]
    /\ \E out \in SUBSET Answers(txbuf) :
         /\ Len(rx) + Cardinality(out) <= RXN
         /\ rx' = rx \o SetToSeq(out)
         /\ world' = [world EXCEPT !.acked = @ \cup {<<f.xid, f.ip>> : f \in {g \in out : g.kind = "ack"}}]
    /\ UNCHANGED <<cpu, stack, result, txbuf, globals>>

\* A frame nobody asked for; the lease clock.
Stray ==
    /\ world.stray < MaxStray
    /\ world' = [world EXCEPT !.stray = @ + 1]
    /\ \/ /\ Len(rx) < RXN
          /\ \E f \in {[kind |-> "echo", id |-> 0, src |-> h] : h \in Peers}
                      \cup {[kind |-> "who", src |-> Gateway], [kind |-> "datagram", n |-> world.stray]} :
               rx' = Append(rx, f)
          /\ UNCHANGED lease
       \/ /\ \E due \in {"renew", "rebind", "expired"} : lease' = [lease EXCEPT !.due = due]
          /\ UNCHANGED rx
    /\ UNCHANGED <<cpu, stack, result, arp, seg, reply, txbuf, txq, dns, ping, dhcp, sock>>

Enter(p) ==
    \/ \E n \in Names : NetResolve(p, n)
    \/ \E ip \in Peers : NetPing(p, ip) \/ SocketSendto(p, ip)
    \/ SocketRecvfrom(p)
Continue(p) ==
    /\ Depth(p) > 0 /\ Running(p)
    /\ \/ TxWait(p) \/ Renew(p) \/ DhcpClear(p) \/ Pump(p) \/ Wait(p) \/ ArpDone(p)
       \/ ResolveDone(p) \/ PingDone(p) \/ RecvfromDone(p) \/ SendtoDone(p)
       \/ OfferDone(p) \/ AckDone(p) \/ GiveUp(p)

Next == (\E p \in Procs : Enter(p) \/ Continue(p)) \/ DeviceSends \/ Stray
Spec == Init /\ [][Next]_vars

----------------------------------------------------------------------------
(* Properties.                                                             *)

\* Whatever other process overwrites the one outstanding DNS request, a name is
\* never resolved to the address of another: late and foreign answers are told
\* by their identifier (netstack.c, dns_parse_answer).
ResolveIsOwn ==
    \A p \in Procs :
        result[p].kind = "resolve" => result[p].answer \in {result[p].name, "error"}

\* The only process that pings.
SolePinger(p) == \A q \in Procs : "ping" \in Calls[q] => q = p

\* A ping that succeeds was answered by the host pinged, and not by one whose
\* answer to an earlier ping was late (netstack.c, icmp_input).  It is said of
\* one pinging process: of two at once the earlier takes the answer to the
\* later for its own, ping_got being a flag and ping_id the last one given.
PingIsOwn ==
    \A p \in Procs : SolePinger(p) /\ result[p].kind = "ping" => result[p].from = result[p].ip

\* The address in use is one the DHCP server acknowledged in the very exchange that
\* adopted it: neither an offer nor a late answer to an earlier exchange, given up
\* meanwhile, is taken for its acknowledgement (netstack.c, dhcp_wait_reply, dhcp_parse).
AddressAcked == <<lease.xid, lease.ip>> \in world.acked

\* The transmit buffer is left alone until the device has read it, as the
\* comment in net_send says (virtio_net.c).  Two processes that send break it:
\* the second copies its frame over the first while the first is asleep.
TxbufStable == [][txq.pending > 0 => txbuf' = txbuf]_vars
=============================================================================
