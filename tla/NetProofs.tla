----------------------------- MODULE NetProofs -----------------------------
(***************************************************************************)
(* Proofs about Net for any number of processes, hosts and names and any   *)
(* bounds.  The invariant names the two histories the code keeps only the  *)
(* length of: A, the names asked so far, and H, the hosts pinged so far.   *)
(* A query is about the name that A has at its identifier, and an echo     *)
(* goes to the host that H has at its identifier, wherever the two are:    *)
(* in the wait of a process, in a static buffer, on the wire, in the       *)
(* receive queue or in the reply that the kernel holds.                    *)
(***************************************************************************)
EXTENDS Net, SequenceTheorems, FiniteSetTheorems, TLAPS

----------------------------------------------------------------------------
(* What may be where.                                                      *)

Where == {"pump", "recv", "check"}
Targets == Peers \cup {Dns}

Queries(A) == {q \in [kind : {"query"}, sport : Nat, id : 1 .. Len(A), name : Names] : A[q.id] = q.name}
SegBodies(A) == Queries(A) \cup [kind : {"datagram"}, to : Peers]
Replies == [kind : {"echoed"}, id : Nat, to : Peers]
Messages == [kind : {"discover", "request"}, xid : Nat, ip : Addresses, unicast : BOOLEAN]
Bodies(A) == [kind : {"none"}] \cup SegBodies(A) \cup Replies \cup Messages \cup [kind : {"echo"}, id : Nat]

\* A body on its way to dst: an echo goes to the host it was made for.
Carries(body, dst, A, H) ==
    /\ body \in Bodies(A)
    /\ body.kind = "echo" => body.id \in 1 .. Len(H) /\ H[body.id] = dst

IpFrames(A, H) ==
    {f \in [kind : {"ip"}, hop : Peers \cup {"all"}, dst : Targets \cup {"all"}, body : Bodies(A)] :
        Carries(f.body, f.dst, A, H)}
Sent(A, H) == [kind : {"who", "here"}, ip : Peers] \cup IpFrames(A, H)

Answered(A) ==
    {f \in [kind : {"answer"}, dport : Nat, id : 1 .. Len(A), name : Names] : A[f.id] = f.name}
Echoes(H) == {f \in [kind : {"echoed"}, id : 1 .. Len(H), from : Peers] : H[f.id] = f.from}
Offers == [kind : {"offer"}, xid : Nat, ip : Addresses]
Acks(acked) == {f \in [kind : {"ack"}, xid : Nat, ip : Addresses] : <<f.xid, f.ip>> \in acked}
Leases(acked) ==
    {l \in [ip : Addresses, xid : Nat, due : {"hold", "renew", "rebind", "expired"}, renewing : BOOLEAN] :
        <<l.xid, l.ip>> \in acked}
Unasked == [kind : {"echo"}, id : Nat, src : Peers] \cup [kind : {"who"}, src : Peers]
Datagrams == [kind : {"datagram"}, n : Nat]
Arrivals(A, H, acked) ==
    [kind : {"is"}, ip : Peers] \cup Answered(A) \cup Echoes(H) \cup Offers \cup Acks(acked)
        \cup Unasked \cup Datagrams

\* The waits of process p.  Who alone pings waits for the last ping.
ArpWaits(A, H) ==
    {w \in [kind : {"arp"}, at : Where, hop : Peers, dst : Targets,
            buf : {"seg", "reply", "own"}, body : Bodies(A)] : Carries(w.body, w.dst, A, H)}
ResolveWaits(A) ==
    {w \in [kind : {"resolve"}, at : Where, id : 1 .. Len(A), name : Names] : A[w.id] = w.name}
PingWaits(p, H) ==
    {w \in [kind : {"ping"}, at : Where, ip : Peers, id : 1 .. Len(H)] :
        H[w.id] = w.ip /\ (SolePinger(p) => w.id = Len(H))}
DhcpWaits == [kind : {"dhcp"}, at : Where, xid : Nat, want : {"offer", "ack"}]
Loops(p, A, H) ==
    ArpWaits(A, H) \cup ResolveWaits(A) \cup PingWaits(p, H) \cup DhcpWaits
        \cup [kind : {"recvfrom"}, at : Where]
Waits(p, A, H) == Loops(p, A, H) \cup [kind : {"tx", "sendto"}]

Resolved == {r \in [kind : {"resolve"}, name : Names, answer : Names \cup {"error"}] :
                r.answer \in {r.name, "error"}}
Pinged(p) == {r \in [kind : {"ping"}, ip : Peers, from : Peers] : SolePinger(p) => r.from = r.ip}
Results(p) == [kind : {"none", "sendto"}] \cup Resolved \cup Pinged(p) \cup [kind : {"recvfrom"}, n : Nat]

----------------------------------------------------------------------------
(* The invariant.                                                          *)

StackFits(A, H) ==
    /\ stack = [p \in Procs |-> stack[p]]
    /\ \A p \in Procs : stack[p] \in Seq(Waits(p, A, H))
ResultFits ==
    /\ result = [p \in Procs |-> result[p]]
    /\ \A p \in Procs : result[p] \in Results(p)
BufsFit(A) == seg \in [kind : {"none"}] \cup SegBodies(A) /\ reply \in [kind : {"none"}] \cup Replies
TxFits(A, H) ==
    /\ txq \in [pending : Nat, new : BOOLEAN]
    /\ txq.pending > 0 => txbuf \in Sent(A, H)
RxFits(A, H) == rx \in Seq(Arrivals(A, H, world.acked))
DnsFits(A) ==
    dns \in [waiting : BOOLEAN, sport : Nat, got : [kind : {"none"}] \cup Answered(A), qid : {Len(A)}]
PingFits(H) ==
    /\ ping \in [id : {Len(H)}, got : Peers \cup {"none"}]
    /\ ping.got # "none" => ping.id \in 1 .. Len(H) /\ ping.got = H[ping.id]
LeaseFits ==
    /\ world \in [acked : SUBSET (Nat \X Addresses), stray : Nat, calls : Nat]
    /\ dhcp \in [waiting : BOOLEAN, got : [kind : {"none"}] \cup Offers \cup Acks(world.acked), xid : Nat]
    /\ lease \in Leases(world.acked)
SockFits == sock \in Seq(Datagrams)

Fits(A, H) ==
    /\ A \in Seq(Names) /\ H \in Seq(Peers)
    /\ StackFits(A, H) /\ ResultFits /\ BufsFit(A) /\ TxFits(A, H) /\ RxFits(A, H)
    /\ DnsFits(A) /\ PingFits(H) /\ LeaseFits /\ SockFits
NetInv == \E A, H : Fits(A, H)

----------------------------------------------------------------------------
(* Waits and stacks.                                                       *)

\* A loop is a wait with a place in its pass; the place may change.
LEMMA LoopMoves ==
    ASSUME NEW p, NEW A, NEW H, NEW w \in Loops(p, A, H), NEW where \in Where
    PROVE  [w EXCEPT !.at = where] \in Loops(p, A, H)
<1>1. CASE w \in ArpWaits(A, H)
  <2>1. [w EXCEPT !.at = where] \in ArpWaits(A, H)
    BY <1>1 DEF ArpWaits
  <2> QED
    BY <2>1 DEF Loops
<1>2. CASE w \in ResolveWaits(A)
  <2>1. [w EXCEPT !.at = where] \in ResolveWaits(A)
    BY <1>2 DEF ResolveWaits
  <2> QED
    BY <2>1 DEF Loops
<1>3. CASE w \in PingWaits(p, H)
  <2>1. [w EXCEPT !.at = where] \in PingWaits(p, H)
    BY <1>3 DEF PingWaits
  <2> QED
    BY <2>1 DEF Loops
<1>4. CASE w \in DhcpWaits
  <2>1. [w EXCEPT !.at = where] \in DhcpWaits
    BY <1>4 DEF DhcpWaits
  <2> QED
    BY <2>1 DEF Loops
<1>5. CASE w \in [kind : {"recvfrom"}, at : Where]
  <2>1. [w EXCEPT !.at = where] \in [kind : {"recvfrom"}, at : Where]
    BY <1>5
  <2> QED
    BY <2>1 DEF Loops
<1> QED
  BY <1>1, <1>2, <1>3, <1>4, <1>5 DEF Loops

\* The kind of a wait tells what it is.
LEMMA WaitKinds ==
    ASSUME NEW p, NEW A, NEW H, NEW w \in Waits(p, A, H)
    PROVE  /\ "at" \in DOMAIN w => w \in Loops(p, A, H)
           /\ w.kind = "arp" => w \in ArpWaits(A, H)
           /\ w.kind = "resolve" => w \in ResolveWaits(A)
           /\ w.kind = "ping" => w \in PingWaits(p, H)
           /\ w.kind = "dhcp" => w \in DhcpWaits
<1>1. CASE w \in [kind : {"tx", "sendto"}]
  <2>1. w.kind \in {"tx", "sendto"} /\ DOMAIN w = {"kind"}
    BY <1>1
  <2> QED
    BY <2>1
<1>2. CASE w \in Loops(p, A, H)
  <2>1. CASE w \in ArpWaits(A, H)
    <3>1. w.kind = "arp"
      BY <2>1 DEF ArpWaits
    <3> QED
      BY <1>2, <2>1, <3>1
  <2>2. CASE w \in ResolveWaits(A)
    <3>1. w.kind = "resolve"
      BY <2>2 DEF ResolveWaits
    <3> QED
      BY <1>2, <2>2, <3>1
  <2>3. CASE w \in PingWaits(p, H)
    <3>1. w.kind = "ping"
      BY <2>3 DEF PingWaits
    <3> QED
      BY <1>2, <2>3, <3>1
  <2>4. CASE w \in DhcpWaits
    <3>1. w.kind = "dhcp"
      BY <2>4 DEF DhcpWaits
    <3> QED
      BY <1>2, <2>4, <3>1
  <2>5. CASE w \in [kind : {"recvfrom"}, at : Where]
    <3>1. w.kind = "recvfrom"
      BY <2>5
    <3> QED
      BY <1>2, <3>1
  <2> QED
    BY <1>2, <2>1, <2>2, <2>3, <2>4, <2>5 DEF Loops
<1> QED
  BY <1>1, <1>2 DEF Waits

LEMMA StackTop ==
    ASSUME NEW A, NEW H, StackFits(A, H), NEW p \in Procs, Depth(p) > 0
    PROVE  /\ stack[p] \in Seq(Waits(p, A, H)) /\ Top(p) \in Waits(p, A, H)
           /\ Front(stack[p]) \in Seq(Waits(p, A, H))
<1> DEFINE s == stack[p]
           W == Waits(p, A, H)
<1>1. s \in Seq(W) /\ Len(s) > 0
  BY DEF StackFits, Depth
<1> HIDE DEF s, W
<1>2. s[Len(s)] \in W /\ SubSeq(s, 1, Len(s) - 1) \in Seq(W)
  BY <1>1
<1> QED
  BY <1>1, <1>2 DEF s, W, Top, Front, Last

LEMMA TopLoops ==
    ASSUME NEW A, NEW H, StackFits(A, H), NEW p \in Procs, Looping(p)
    PROVE  Depth(p) > 0 /\ Top(p) \in Loops(p, A, H)
BY StackTop, WaitKinds DEF Looping

LEMMA MovedFits ==
    ASSUME NEW A, NEW H, StackFits(A, H), NEW p \in Procs, Looping(p), NEW where \in Where
    PROVE  Moved(p, where) \in Seq(Waits(p, A, H))
<1> DEFINE s == stack[p]
           W == Waits(p, A, H)
           n == Len(s)
           e == [s[n] EXCEPT !.at = where]
<1>1. s \in Seq(W) /\ n > 0 /\ s[n] \in Loops(p, A, H)
  BY StackTop, TopLoops DEF Depth, Top, Last
<1>2. e \in W
  <2>1. e \in Loops(p, A, H)
    BY <1>1, LoopMoves
  <2> QED
    BY <2>1 DEF Waits
<1>3. Moved(p, where) = [s EXCEPT ![n] = e]
  BY DEF Moved, Depth
<1> HIDE DEF s, W, e
<1>4. n \in 1 .. Len(s)
  BY <1>1
<1>5. [s EXCEPT ![n] = e] \in Seq(W)
  BY ONLY <1>1, <1>2, <1>4, ExceptSeq
<1> QED
  BY <1>3, <1>5 DEF s, W, e

\* A step of process p that leaves it with waits of its kind.
StackTo(p, A, H) == \E s \in Seq(Waits(p, A, H)) : stack' = [stack EXCEPT ![p] = s]

LEMMA StackMoves ==
    ASSUME NEW A, NEW H, StackFits(A, H), NEW p \in Procs, StackTo(p, A, H)
    PROVE  StackFits(A, H)'
<1>1. PICK s \in Seq(Waits(p, A, H)) : stack' = [stack EXCEPT ![p] = s]
  BY DEF StackTo
<1>2. stack = [q \in Procs |-> stack[q]] /\ \A q \in Procs : stack[q] \in Seq(Waits(q, A, H))
  BY DEF StackFits
<1>3. stack' = [q \in Procs |-> IF q = p THEN s ELSE stack[q]]
  BY ONLY <1>1, <1>2
<1>4. stack' = [q \in Procs |-> stack'[q]] /\ \A q \in Procs : stack'[q] \in Seq(Waits(q, A, H))
  BY ONLY <1>1, <1>2, <1>3
<1> QED
  BY ONLY <1>4 DEF StackFits

\* The histories grow: what fitted fits.
LEMMA NamesGrow ==
    ASSUME NEW A \in Seq(Names), NEW n \in Names, NEW H, NEW B, B = Append(A, n)
    PROVE  /\ B \in Seq(Names) /\ Len(B) = Len(A) + 1 /\ B[Len(A) + 1] = n
           /\ Queries(A) \subseteq Queries(B) /\ SegBodies(A) \subseteq SegBodies(B)
           /\ Bodies(A) \subseteq Bodies(B) /\ Answered(A) \subseteq Answered(B)
           /\ Sent(A, H) \subseteq Sent(B, H)
           /\ \A p : Waits(p, A, H) \subseteq Waits(p, B, H)
           /\ \A acked : Arrivals(A, H, acked) \subseteq Arrivals(B, H, acked)
<1>1. B \in Seq(Names) /\ Len(A) \in Nat /\ Len(B) = Len(A) + 1 /\ B[Len(A) + 1] = n
  BY AppendProperties
<1>2. \A i \in 1 .. Len(A) : i \in 1 .. Len(B) /\ B[i] = A[i]
  BY <1>1, AppendProperties
<1>3. Queries(A) \subseteq Queries(B)
  BY ONLY <1>2 DEF Queries
<1>4. Answered(A) \subseteq Answered(B)
  BY ONLY <1>2 DEF Answered
<1>5. ResolveWaits(A) \subseteq ResolveWaits(B)
  BY ONLY <1>2 DEF ResolveWaits
<1>6. SegBodies(A) \subseteq SegBodies(B) /\ Bodies(A) \subseteq Bodies(B)
  BY ONLY <1>3 DEF SegBodies, Bodies
<1>7. \A b, d : Carries(b, d, A, H) => Carries(b, d, B, H)
  BY ONLY <1>6 DEF Carries
<1>8. IpFrames(A, H) \subseteq IpFrames(B, H) /\ ArpWaits(A, H) \subseteq ArpWaits(B, H)
  BY ONLY <1>6, <1>7 DEF IpFrames, ArpWaits
<1>9. Sent(A, H) \subseteq Sent(B, H)
  BY ONLY <1>8 DEF Sent
<1>10. \A p : Waits(p, A, H) \subseteq Waits(p, B, H)
  BY ONLY <1>5, <1>8 DEF Waits, Loops
<1>11. \A acked : Arrivals(A, H, acked) \subseteq Arrivals(B, H, acked)
  BY ONLY <1>4 DEF Arrivals
<1> QED
  BY <1>1, <1>3, <1>4, <1>6, <1>9, <1>10, <1>11

\* Only the waits of a process that pings alone look at how many there are.
LEMMA HostsGrow ==
    ASSUME NEW H \in Seq(Peers), NEW h \in Peers, NEW A, NEW G, G = Append(H, h)
    PROVE  /\ G \in Seq(Peers) /\ Len(G) = Len(H) + 1 /\ G[Len(H) + 1] = h
           /\ Sent(A, H) \subseteq Sent(A, G)
           /\ \A p : ~SolePinger(p) => Waits(p, A, H) \subseteq Waits(p, A, G)
           /\ \A acked : Arrivals(A, H, acked) \subseteq Arrivals(A, G, acked)
<1>1. G \in Seq(Peers) /\ Len(H) \in Nat /\ Len(G) = Len(H) + 1 /\ G[Len(H) + 1] = h
  BY AppendProperties
<1>2. \A i \in 1 .. Len(H) : i \in 1 .. Len(G) /\ G[i] = H[i]
  BY <1>1, AppendProperties
<1>3. Echoes(H) \subseteq Echoes(G)
  BY ONLY <1>2 DEF Echoes
<1>4. \A b, d : Carries(b, d, A, H) => Carries(b, d, A, G)
  BY ONLY <1>2 DEF Carries
<1>5. IpFrames(A, H) \subseteq IpFrames(A, G) /\ ArpWaits(A, H) \subseteq ArpWaits(A, G)
  BY ONLY <1>4 DEF IpFrames, ArpWaits
<1>6. Sent(A, H) \subseteq Sent(A, G)
  BY ONLY <1>5 DEF Sent
<1>7. \A acked : Arrivals(A, H, acked) \subseteq Arrivals(A, G, acked)
  BY ONLY <1>3 DEF Arrivals
<1>8. \A p : ~SolePinger(p) => PingWaits(p, H) \subseteq PingWaits(p, G)
  BY ONLY <1>2 DEF PingWaits
<1>9. \A p : ~SolePinger(p) => Waits(p, A, H) \subseteq Waits(p, A, G)
  BY ONLY <1>5, <1>8 DEF Waits, Loops
<1> QED
  BY <1>1, <1>6, <1>7, <1>9

LEMMA MoreAcked ==
    ASSUME NEW A, NEW H, NEW S, NEW T, S \subseteq T
    PROVE  Acks(S) \subseteq Acks(T) /\ Arrivals(A, H, S) \subseteq Arrivals(A, H, T)
BY DEF Acks, Arrivals

LEMMA SeqGrows ==
    ASSUME NEW S, NEW T, S \subseteq T
    PROVE  Seq(S) \subseteq Seq(T)
OBVIOUS

----------------------------------------------------------------------------
(* Frames.                                                                 *)

\* net_send and eth_send put one frame in the buffer.
TxTo(A, H) == txbuf' \in Sent(A, H) /\ txq' = [txq EXCEPT !.pending = @ + 1]

LEMMA TxMoves ==
    ASSUME NEW A, NEW H, TxFits(A, H), TxTo(A, H)
    PROVE  TxFits(A, H)'
BY DEF TxFits, TxTo

LEMMA EthSendFits ==
    ASSUME NEW A, NEW H, NEW p \in Procs, NEW below \in Seq(Waits(p, A, H)),
           NEW frame \in Sent(A, H), EthSend(p, below, frame)
    PROVE  StackTo(p, A, H) /\ TxTo(A, H)
<1>1. /\ txbuf' = frame /\ txq' = [txq EXCEPT !.pending = @ + 1]
      /\ stack' = [stack EXCEPT ![p] = Append(below, [kind |-> "tx"])]
  BY DEF EthSend
<1>2. [kind |-> "tx"] \in Waits(p, A, H)
  BY DEF Waits
<1>3. Append(below, [kind |-> "tx"]) \in Seq(Waits(p, A, H))
  BY ONLY <1>2, below \in Seq(Waits(p, A, H)), AppendProperties
<1> QED
  BY <1>1, <1>3 DEF StackTo, TxTo

\* ip_send: what the packet carries is on its way to its host, at once or when
\* the address of the hop is known.
Payload(buf, s) == IF buf = "own" THEN s ELSE IF buf = "seg" THEN seg' ELSE reply'

LEMMA IpSendFits ==
    ASSUME NEW A, NEW H, NEW p \in Procs, NEW below \in Seq(Waits(p, A, H)),
           NEW dst \in Targets, NEW buf \in {"seg", "reply", "own"}, NEW s,
           IpSend(p, below, dst, buf, s), Carries(Payload(buf, s), dst, A, H)
    PROVE  StackTo(p, A, H) /\ TxTo(A, H)
<1> DEFINE hop == NextHop(dst)
           body == Payload(buf, s)
           kept == IF buf = "own" THEN s ELSE [kind |-> "none"]
           w == [kind |-> "arp", at |-> "pump", hop |-> hop, dst |-> dst, buf |-> buf, body |-> kept]
           frame == [kind |-> "ip", hop |-> hop, dst |-> dst, body |-> body]
           who == [kind |-> "who", ip |-> hop]
<1>1. hop \in Peers
  BY NetAssumption DEF NextHop
<1>2. IF hop \in arp THEN EthSend(p, below, frame) ELSE EthSend(p, Append(below, w), who)
  BY DEF IpSend, Payload
<1>3. frame \in Sent(A, H)
  <2>1. body \in Bodies(A) /\ Carries(body, dst, A, H)
    BY DEF Carries
  <2> HIDE DEF hop, body
  <2>2. frame \in IpFrames(A, H)
    BY ONLY <1>1, <2>1, dst \in Targets DEF IpFrames
  <2> QED
    BY <2>2 DEF Sent
<1>4. who \in Sent(A, H)
  BY <1>1 DEF Sent
<1>5. w \in Waits(p, A, H)
  <2>1. Carries(kept, dst, A, H)
    BY DEF Carries, Payload, Bodies
  <2>2. kept \in Bodies(A)
    BY <2>1 DEF Carries
  <2> HIDE DEF hop, kept
  <2>3. w \in ArpWaits(A, H)
    BY ONLY <1>1, <2>1, <2>2, dst \in Targets, buf \in {"seg", "reply", "own"} DEF ArpWaits, Where
  <2> QED
    BY <2>3 DEF Waits, Loops
<1> HIDE DEF hop, body, w, frame, who
<1>6. Append(below, w) \in Seq(Waits(p, A, H))
  BY ONLY <1>5, below \in Seq(Waits(p, A, H)), AppendProperties
<1>7. CASE hop \in arp
  BY <1>2, <1>3, <1>7, EthSendFits
<1>8. CASE hop \notin arp
  <2>1. EthSend(p, Append(below, w), who)
    BY <1>2, <1>8
  <2> QED
    BY ONLY p \in Procs, <1>4, <1>6, <2>1, EthSendFits
<1> QED
  BY <1>7, <1>8

\* dhcp_send_msg.
LEMMA DhcpSendFits ==
    ASSUME NEW A, NEW H, NEW p \in Procs, NEW below \in Seq(Waits(p, A, H)),
           NEW msg \in Messages, DhcpSend(p, below, msg)
    PROVE  StackTo(p, A, H) /\ TxTo(A, H)
<1>1. \A dst : Carries(msg, dst, A, H)
  <2>1. msg.kind # "echo"
    BY DEF Messages
  <2> QED
    BY <2>1 DEF Carries, Bodies
<1>2. CASE msg.unicast
  <2>1. IpSend(p, below, Gateway, "own", msg) /\ Gateway \in Targets
    BY <1>2, NetAssumption DEF DhcpSend, Targets
  <2>2. Carries(Payload("own", msg), Gateway, A, H)
    BY <1>1 DEF Payload
  <2> QED
    BY <2>1, <2>2, IpSendFits
<1>3. CASE ~msg.unicast
  <2> DEFINE frame == [kind |-> "ip", hop |-> "all", dst |-> "all", body |-> msg]
  <2>1. EthSend(p, below, frame)
    BY <1>3 DEF DhcpSend
  <2>2. frame \in Sent(A, H)
    <3>1. msg \in Bodies(A)
      BY DEF Bodies
    <3>2. frame \in IpFrames(A, H)
      BY ONLY <1>1, <3>1 DEF IpFrames
    <3> QED
      BY <3>2 DEF Sent
  <2> HIDE DEF frame
  <2> QED
    BY <2>1, <2>2, EthSendFits
<1> QED
  BY <1>2, <1>3

\* What a frame is, its kind tells.
LEMMA ArrivalKinds ==
    ASSUME NEW A, NEW H, NEW acked, NEW f \in Arrivals(A, H, acked)
    PROVE  /\ f.kind = "answer" => f \in Answered(A)
           /\ f.kind = "echoed" => f \in Echoes(H)
           /\ f.kind = "offer" => f \in Offers
           /\ f.kind = "ack" => f \in Acks(acked)
           /\ f.kind = "echo" => f \in [kind : {"echo"}, id : Nat, src : Peers]
           /\ f.kind = "who" => f.src \in Peers
           /\ f.kind = "datagram" => f \in Datagrams
<1>1. CASE f \in [kind : {"is"}, ip : Peers]
  <2>1. f.kind = "is"
    BY <1>1
  <2> QED
    BY <2>1
<1>2. CASE f \in Answered(A)
  <2>1. f.kind = "answer"
    BY <1>2 DEF Answered
  <2> QED
    BY <1>2, <2>1
<1>3. CASE f \in Echoes(H)
  <2>1. f.kind = "echoed"
    BY <1>3 DEF Echoes
  <2> QED
    BY <1>3, <2>1
<1>4. CASE f \in Offers
  <2>1. f.kind = "offer"
    BY <1>4 DEF Offers
  <2> QED
    BY <1>4, <2>1
<1>5. CASE f \in Acks(acked)
  <2>1. f.kind = "ack"
    BY <1>5 DEF Acks
  <2> QED
    BY <1>5, <2>1
<1>6. CASE f \in [kind : {"echo"}, id : Nat, src : Peers]
  <2>1. f.kind = "echo"
    BY <1>6
  <2> QED
    BY <1>6, <2>1
<1>7. CASE f \in [kind : {"who"}, src : Peers]
  <2>1. f.kind = "who" /\ f.src \in Peers
    BY <1>7
  <2> QED
    BY <2>1
<1>8. CASE f \in Datagrams
  <2>1. f.kind = "datagram"
    BY <1>8 DEF Datagrams
  <2> QED
    BY <1>8, <2>1
<1> QED
  BY <1>1, <1>2, <1>3, <1>4, <1>5, <1>6, <1>7, <1>8 DEF Arrivals, Unasked

\* The same of what is on the wire.
LEMMA BodyKinds ==
    ASSUME NEW A, NEW b \in Bodies(A)
    PROVE  /\ b.kind = "query" => b \in Queries(A)
           /\ b.kind \in {"discover", "request"} => b \in Messages
<1>1. CASE b \in [kind : {"none"}]
  <2>1. b.kind = "none"
    BY <1>1
  <2> QED
    BY <2>1
<1>2. CASE b \in Queries(A)
  <2>1. b.kind = "query"
    BY <1>2 DEF Queries
  <2> QED
    BY <1>2, <2>1
<1>3. CASE b \in [kind : {"datagram"}, to : Peers]
  <2>1. b.kind = "datagram"
    BY <1>3
  <2> QED
    BY <2>1
<1>4. CASE b \in Replies
  <2>1. b.kind = "echoed"
    BY <1>4 DEF Replies
  <2> QED
    BY <2>1
<1>5. CASE b \in Messages
  <2>1. b.kind \in {"discover", "request"}
    BY <1>5 DEF Messages
  <2> QED
    BY <1>5, <2>1
<1>6. CASE b \in [kind : {"echo"}, id : Nat]
  <2>1. b.kind = "echo"
    BY <1>6
  <2> QED
    BY <2>1
<1> QED
  BY <1>1, <1>2, <1>3, <1>4, <1>5, <1>6 DEF Bodies, SegBodies

\* Whatever answers a frame sent, a server or a host, tells what it was told.
LEMMA AnswersArrive ==
    ASSUME NEW A, NEW H \in Seq(Peers), NEW f \in Sent(A, H), NEW g \in Answers(f),
           NEW acked, g.kind = "ack" => <<g.xid, g.ip>> \in acked
    PROVE  g \in Arrivals(A, H, acked) /\ (g.kind = "ack" => <<g.xid, g.ip>> \in Nat \X Addresses)
<1>1. CASE f \in [kind : {"who", "here"}, ip : Peers]
  <2>1. f.kind \in {"who", "here"} /\ f.ip \in Peers
    BY <1>1
  <2>2. g = [kind |-> "is", ip |-> f.ip]
    <3>1. CASE f.kind = "who"
      <4>1. Answers(f) = {[kind |-> "is", ip |-> f.ip]}
        BY ONLY <3>1 DEF Answers
      <4> QED
        BY <4>1
    <3>2. CASE f.kind = "here"
      <4>1. Answers(f) = {}
        BY ONLY <3>2 DEF Answers
      <4> QED
        BY <4>1
    <3> QED
      BY <2>1, <3>1, <3>2
  <2>3. g \in [kind : {"is"}, ip : Peers] /\ g.kind = "is"
    BY ONLY <2>1, <2>2
  <2> QED
    BY <2>3 DEF Arrivals
<1>2. CASE f \in IpFrames(A, H)
  <2> DEFINE b == f.body
  <2>1. f.kind = "ip" /\ b \in Bodies(A) /\ Carries(b, f.dst, A, H)
    BY <1>2 DEF IpFrames
  <2>2. g \in CASE b.kind = "echo" -> {[kind |-> "echoed", id |-> b.id, from |-> f.dst]}
                [] b.kind = "query" -> {[kind |-> "answer", dport |-> b.sport, id |-> b.id, name |-> b.name]}
                [] b.kind = "discover" -> {[kind |-> "offer", xid |-> b.xid, ip |-> a] : a \in Addresses}
                [] b.kind = "request" -> {[kind |-> "ack", xid |-> b.xid, ip |-> b.ip]}
                [] OTHER -> {}
    BY <2>1 DEF Answers
  <2> HIDE DEF b
  <2>3. CASE b.kind = "echo"
    <3>1. g = [kind |-> "echoed", id |-> b.id, from |-> f.dst]
      BY ONLY <2>2, <2>3
    <3>2. b.id \in 1 .. Len(H) /\ H[b.id] = f.dst /\ f.dst \in Peers
      BY <2>1, <2>3 DEF Carries
    <3>3. g \in Echoes(H) /\ g.kind = "echoed"
      BY ONLY <3>1, <3>2 DEF Echoes
    <3> QED
      BY <3>3 DEF Arrivals
  <2>4. CASE b.kind = "query"
    <3>1. g = [kind |-> "answer", dport |-> b.sport, id |-> b.id, name |-> b.name]
      BY ONLY <2>2, <2>4
    <3>2. b.sport \in Nat /\ b.id \in 1 .. Len(A) /\ b.name \in Names /\ A[b.id] = b.name
      <4>1. b \in Queries(A)
        BY <2>1, <2>4, BodyKinds
      <4> QED
        BY <4>1 DEF Queries
    <3>3. g \in Answered(A) /\ g.kind = "answer"
      BY ONLY <3>1, <3>2 DEF Answered
    <3> QED
      BY <3>3 DEF Arrivals
  <2>5. CASE b.kind = "discover"
    <3>1. PICK a \in Addresses : g = [kind |-> "offer", xid |-> b.xid, ip |-> a]
      BY ONLY <2>2, <2>5
    <3>2. b.xid \in Nat
      <4>1. b \in Messages
        BY <2>1, <2>5, BodyKinds
      <4> QED
        BY <4>1 DEF Messages
    <3>3. g \in Offers /\ g.kind = "offer"
      BY ONLY <3>1, <3>2 DEF Offers
    <3> QED
      BY <3>3 DEF Arrivals
  <2>6. CASE b.kind = "request"
    <3>1. g = [kind |-> "ack", xid |-> b.xid, ip |-> b.ip]
      BY ONLY <2>2, <2>6
    <3>2. b.xid \in Nat /\ b.ip \in Addresses
      <4>1. b \in Messages
        BY <2>1, <2>6, BodyKinds
      <4> QED
        BY <4>1 DEF Messages
    <3>3. g.kind = "ack" /\ g.xid = b.xid /\ g.ip = b.ip
      BY ONLY <3>1
    <3>4. g \in Acks(acked)
      BY <3>1, <3>2, <3>3 DEF Acks
    <3> QED
      BY <3>2, <3>3, <3>4 DEF Arrivals
  <2> QED
    BY <2>2, <2>3, <2>4, <2>5, <2>6
<1> QED
  BY <1>1, <1>2 DEF Sent

\* A set of frames is put in some order.
LEMMA InOrder ==
    ASSUME NEW S, IsFiniteSet(S)
    PROVE  SetToSeq(S) \in Seq(S)
<1> DEFINE n == Cardinality(S)
<1>1. n \in Nat /\ ExistsBijection(1 .. n, S)
  BY FS_CardinalityType
<1>2. PICK g \in Bijection(1 .. n, S) : TRUE
  BY <1>1 DEF ExistsBijection
<1>3. g \in [1 .. n -> S] /\ IsInjective(g)
  BY <1>2 DEF Bijection, Injection
<1>4. SetToSeq(S) \in [1 .. n -> S]
  BY <1>3 DEF SetToSeq
<1> QED
  BY <1>1, <1>4

\* Every frame has finitely many answers.
LEMMA AnswersFinite ==
    ASSUME NEW f, NEW S \in SUBSET Answers(f)
    PROVE  IsFiniteSet(S)
<1> DEFINE Tells(a) == [kind |-> "offer", xid |-> f.body.xid, ip |-> a]
           T == {Tells(a) : a \in Addresses}
<1>1. IsFiniteSet(T)
  <2>1. IsFiniteSet(Addresses)
    BY NetAssumption
  <2> DEFINE g == [a \in Addresses |-> Tells(a)]
  <2>2. g \in Surjection(Addresses, T)
    BY DEF Surjection
  <2> HIDE DEF g, T
  <2> QED
    BY <2>1, <2>2, FS_Surjection
<1>2. Answers(f) = {} \/ (\E g : Answers(f) = {g}) \/ Answers(f) = T
  BY DEF Answers
<1> HIDE DEF T
<1>3. IsFiniteSet(Answers(f))
  <2>1. CASE Answers(f) = {}
    BY ONLY <2>1, FS_EmptySet
  <2>2. ASSUME NEW g, Answers(f) = {g} PROVE IsFiniteSet(Answers(f))
    <3>1. IsFiniteSet({g})
      BY ONLY FS_Singleton, Zenon
    <3> QED
      BY ONLY <2>2, <3>1
  <2>3. CASE Answers(f) = T
    BY ONLY <1>1, <2>3
  <2> QED
    BY ONLY <1>2, <2>1, <2>2, <2>3
<1> QED
  BY <1>3, FS_Subset

----------------------------------------------------------------------------
(* The steps of a process.                                                 *)

\* Both histories and the stacks in them: what every step starts from.
LEMMA Fitting ==
    ASSUME NEW A, NEW H, Fits(A, H)
    PROVE  /\ A \in Seq(Names) /\ H \in Seq(Peers) /\ Len(A) \in Nat /\ Len(H) \in Nat
           /\ StackFits(A, H) /\ ResultFits /\ BufsFit(A) /\ TxFits(A, H) /\ RxFits(A, H)
           /\ DnsFits(A) /\ PingFits(H) /\ LeaseFits /\ SockFits
BY DEF Fits

\* What a step leaves alone still fits.
LEMMA Unchanged ==
    ASSUME NEW A, NEW H, Fits(A, H)
    PROVE  /\ UNCHANGED stack => StackFits(A, H)'
           /\ UNCHANGED result => ResultFits'
           /\ UNCHANGED <<seg, reply>> => BufsFit(A)'
           /\ UNCHANGED <<txq, txbuf>> => TxFits(A, H)'
           /\ UNCHANGED <<rx, world>> => RxFits(A, H)'
           /\ UNCHANGED dns => DnsFits(A)'
           /\ UNCHANGED ping => PingFits(H)'
           /\ UNCHANGED <<world, dhcp, lease>> => LeaseFits'
           /\ UNCHANGED sock => SockFits'
<1> USE DEF Fits
<1>1. UNCHANGED stack => StackFits(A, H)'
  BY DEF StackFits
<1>2. UNCHANGED result => ResultFits'
  BY DEF ResultFits
<1>3. UNCHANGED <<seg, reply>> => BufsFit(A)'
  BY DEF BufsFit
<1>4. UNCHANGED <<txq, txbuf>> => TxFits(A, H)'
  BY DEF TxFits
<1>5. UNCHANGED <<rx, world>> => RxFits(A, H)'
  BY DEF RxFits
<1>6. UNCHANGED dns => DnsFits(A)'
  BY DEF DnsFits
<1>7. UNCHANGED ping => PingFits(H)'
  BY DEF PingFits
<1>8. UNCHANGED <<world, dhcp, lease>> => LeaseFits'
  BY DEF LeaseFits
<1>9. UNCHANGED sock => SockFits'
  BY DEF SockFits
<1> QED
  BY <1>1, <1>2, <1>3, <1>4, <1>5, <1>6, <1>7, <1>8, <1>9

LEMMA ResultMoves ==
    ASSUME ResultFits, NEW p \in Procs, NEW r \in Results(p), result' = [result EXCEPT ![p] = r]
    PROVE  ResultFits'
<1>1. result = [q \in Procs |-> result[q]] /\ \A q \in Procs : result[q] \in Results(q)
  BY DEF ResultFits
<1>2. result' = [q \in Procs |-> IF q = p THEN r ELSE result[q]]
  BY ONLY <1>1, result' = [result EXCEPT ![p] = r]
<1>3. result' = [q \in Procs |-> result'[q]] /\ \A q \in Procs : result'[q] \in Results(q)
  BY ONLY <1>1, <1>2, r \in Results(p)
<1> QED
  BY ONLY <1>3 DEF ResultFits

LEMMA NoWaits ==
    ASSUME NEW p, NEW A, NEW H
    PROVE  <<>> \in Seq(Waits(p, A, H))
OBVIOUS

\* What the lease clock asks for, and whether somebody renews, says nothing of the address.
LEMMA LeaseStays ==
    \A acked : \A l \in Leases(acked) :
        /\ \A due \in {"hold", "renew", "rebind", "expired"} : [l EXCEPT !.due = due] \in Leases(acked)
        /\ \A b \in BOOLEAN : [l EXCEPT !.renewing = b] \in Leases(acked)
BY DEF Leases

\* A call counts itself.
LEMMA CallCounts ==
    ASSUME LeaseFits, NEW p, NEW kind, Call(p, kind)
    PROVE  world' \in [acked : SUBSET (Nat \X Addresses), stray : Nat, calls : Nat] /\ world'.acked = world.acked
BY DEF LeaseFits, Call

LEMMA CallKeeps ==
    ASSUME NEW A, NEW H, Fits(A, H), NEW p, NEW kind, Call(p, kind), UNCHANGED <<rx, dhcp, lease>>
    PROVE  RxFits(A, H)' /\ LeaseFits'
<1>1. /\ world' \in [acked : SUBSET (Nat \X Addresses), stray : Nat, calls : Nat] /\ world'.acked = world.acked
  BY Fitting, CallCounts
<1>2. RxFits(A, H) /\ LeaseFits
  BY Fitting
<1> QED
  BY ONLY <1>1, <1>2, UNCHANGED <<rx, dhcp, lease>> DEF RxFits, LeaseFits

\* net_resolve asks for a name at a new identifier.
LEMMA ResolveStep ==
    ASSUME NEW A, NEW H, Fits(A, H), NEW p \in Procs, NEW n \in Names, NetResolve(p, n)
    PROVE  Fits(Append(A, n), H)'
<1> DEFINE B == Append(A, n)
           id == dns.qid + 1
           w == [kind |-> "resolve", at |-> "pump", id |-> id, name |-> n]
           q == [kind |-> "query", sport |-> id, id |-> id, name |-> n]
<1>1. /\ Call(p, "resolve") /\ UdpSend(p, <<w>>, Dns, q)
      /\ dns' = [waiting |-> TRUE, sport |-> id, got |-> [kind |-> "none"], qid |-> id]
      /\ UNCHANGED <<result, arp, reply, rx, ping, dhcp, lease, sock>>
  BY DEF NetResolve
<1>2. A \in Seq(Names) /\ Len(A) \in Nat /\ dns.qid = Len(A)
  BY Fitting DEF DnsFits
<1>3. B = Append(A, n)
  OBVIOUS
<1> HIDE DEF B
<1>4. /\ B \in Seq(Names) /\ Len(B) = Len(A) + 1 /\ B[Len(A) + 1] = n
      /\ SegBodies(A) \subseteq SegBodies(B) /\ Answered(A) \subseteq Answered(B)
      /\ Sent(A, H) \subseteq Sent(B, H)
      /\ \A x : Waits(x, A, H) \subseteq Waits(x, B, H)
      /\ \A acked : Arrivals(A, H, acked) \subseteq Arrivals(B, H, acked)
  BY ONLY <1>2, <1>3, n \in Names, NamesGrow
<1>5. id \in Nat /\ id \in 1 .. Len(B) /\ id = Len(B) /\ B[id] = n
  BY ONLY <1>2, <1>4
<1> HIDE DEF id
<1>6. w \in Waits(p, B, H)
  <2>1. w \in ResolveWaits(B)
    BY ONLY <1>5, n \in Names DEF ResolveWaits, Where
  <2> QED
    BY <2>1 DEF Waits, Loops
<1>7. q \in SegBodies(B) /\ q.kind # "echo"
  BY ONLY <1>5, n \in Names DEF SegBodies, Queries
<1> HIDE DEF w, q
<1>8. seg' = q /\ IpSend(p, <<w>>, Dns, "seg", q)
  BY <1>1 DEF UdpSend
<1>9. Carries(Payload("seg", q), Dns, B, H)
  <2>1. Payload("seg", q) = q
    BY <1>8 DEF Payload
  <2> QED
    BY ONLY <1>7, <2>1 DEF Carries, Bodies
<1>10. <<w>> \in Seq(Waits(p, B, H)) /\ Dns \in Targets
  BY <1>6 DEF Targets
<1>11. StackTo(p, B, H) /\ TxTo(B, H)
  BY ONLY <1>8, <1>9, <1>10, p \in Procs, IpSendFits
<1>12. StackFits(B, H)
  <2>1. StackFits(A, H) /\ \A x : Seq(Waits(x, A, H)) \subseteq Seq(Waits(x, B, H))
    BY <1>4, Fitting, SeqGrows
  <2> QED
    BY ONLY <2>1 DEF StackFits
<1>13. TxFits(B, H)
  <2>1. TxFits(A, H)
    BY Fitting
  <2> QED
    BY ONLY <1>4, <2>1 DEF TxFits
<1>14. StackFits(B, H)' /\ TxFits(B, H)'
  BY ONLY <1>11, <1>12, <1>13, p \in Procs, StackMoves, TxMoves
<1>15. BufsFit(B)'
  BY <1>1, <1>7, <1>8, Fitting DEF BufsFit
<1>16. RxFits(A, H)' /\ LeaseFits'
  BY <1>1, CallKeeps
<1>17. RxFits(B, H)'
  <2>1. rx' \in Seq(Arrivals(A, H, world'.acked))
    BY <1>16 DEF RxFits
  <2>2. Seq(Arrivals(A, H, world'.acked)) \subseteq Seq(Arrivals(B, H, world'.acked))
    BY ONLY <1>4, SeqGrows
  <2> QED
    BY <2>1, <2>2 DEF RxFits
<1>18. DnsFits(B)'
  BY ONLY <1>1, <1>5 DEF DnsFits
<1>19. ResultFits' /\ PingFits(H)' /\ SockFits' /\ H \in Seq(Peers)
  BY <1>1, Unchanged, Fitting
<1> QED
  BY ONLY <1>3, <1>4, <1>14, <1>15, <1>16, <1>17, <1>18, <1>19 DEF Fits

\* net_ping pings a host at a new identifier; it has no other wait.
LEMMA PingStep ==
    ASSUME NEW A, NEW H, Fits(A, H), NEW p \in Procs, NEW h \in Peers, NetPing(p, h)
    PROVE  Fits(A, Append(H, h))'
<1> DEFINE G == Append(H, h)
           id == ping.id + 1
           w == [kind |-> "ping", at |-> "pump", ip |-> h, id |-> id]
           e == [kind |-> "echo", id |-> id]
<1>1. /\ Call(p, "ping") /\ ping' = [id |-> id, got |-> "none"]
      /\ IpSend(p, <<w>>, h, "own", e)
      /\ UNCHANGED <<result, arp, seg, reply, rx, dns, dhcp, lease, sock>>
  BY DEF NetPing
<1>2. H \in Seq(Peers) /\ Len(H) \in Nat /\ ping.id = Len(H)
  BY Fitting DEF PingFits
<1>3. G = Append(H, h)
  OBVIOUS
<1> HIDE DEF G
<1>4. /\ G \in Seq(Peers) /\ Len(G) = Len(H) + 1 /\ G[Len(H) + 1] = h
      /\ Sent(A, H) \subseteq Sent(A, G)
      /\ \A x : ~SolePinger(x) => Waits(x, A, H) \subseteq Waits(x, A, G)
      /\ \A acked : Arrivals(A, H, acked) \subseteq Arrivals(A, G, acked)
  BY ONLY <1>2, <1>3, h \in Peers, HostsGrow
<1>5. id \in Nat /\ id \in 1 .. Len(G) /\ id = Len(G) /\ G[id] = h
  BY ONLY <1>2, <1>4
<1> HIDE DEF id
<1>6. w \in Waits(p, A, G)
  <2>1. w \in PingWaits(p, G)
    BY ONLY <1>5, h \in Peers DEF PingWaits, Where
  <2> QED
    BY <2>1 DEF Waits, Loops
<1>7. Carries(Payload("own", e), h, A, G)
  <2>1. Payload("own", e) = e
    BY DEF Payload
  <2>2. e \in Bodies(A) /\ e.id = id
    BY ONLY <1>5 DEF Bodies
  <2> HIDE DEF e
  <2> QED
    BY ONLY <1>5, <2>1, <2>2 DEF Carries
<1> HIDE DEF w, e
<1>8. <<w>> \in Seq(Waits(p, A, G)) /\ h \in Targets
  BY <1>6 DEF Targets
<1>9. StackTo(p, A, G) /\ TxTo(A, G)
  BY ONLY <1>1, <1>7, <1>8, p \in Procs, IpSendFits
<1>10. StackFits(A, G)
  <2>1. "ping" \in Calls[p] /\ Depth(p) = 0
    BY <1>1 DEF Call
  <2>2. StackFits(A, H)
    BY Fitting
  <2>3. ASSUME NEW x \in Procs PROVE stack[x] \in Seq(Waits(x, A, G))
    <3>1. stack[x] \in Seq(Waits(x, A, H))
      BY <2>2 DEF StackFits
    <3>2. CASE x = p
      <4>1. stack[x] = <<>>
        BY <2>1, <3>1, <3>2 DEF Depth
      <4> QED
        BY <4>1, NoWaits
    <3>3. CASE x # p
      <4>1. ~SolePinger(x)
        BY <2>1, <3>3 DEF SolePinger
      <4>2. Seq(Waits(x, A, H)) \subseteq Seq(Waits(x, A, G))
        BY ONLY <1>4, <4>1, SeqGrows
      <4> QED
        BY <3>1, <4>2
    <3> QED
      BY <3>2, <3>3
  <2> QED
    BY <2>2, <2>3 DEF StackFits
<1>11. TxFits(A, G)
  <2>1. TxFits(A, H)
    BY Fitting
  <2> QED
    BY ONLY <1>4, <2>1 DEF TxFits
<1>12. StackFits(A, G)' /\ TxFits(A, G)'
  BY ONLY <1>9, <1>10, <1>11, p \in Procs, StackMoves, TxMoves
<1>13. RxFits(A, H)' /\ LeaseFits'
  BY <1>1, CallKeeps
<1>14. RxFits(A, G)'
  <2>1. rx' \in Seq(Arrivals(A, H, world'.acked))
    BY <1>13 DEF RxFits
  <2>2. Seq(Arrivals(A, H, world'.acked)) \subseteq Seq(Arrivals(A, G, world'.acked))
    BY ONLY <1>4, SeqGrows
  <2> QED
    BY <2>1, <2>2 DEF RxFits
<1>15. PingFits(G)'
  BY ONLY <1>1, <1>5 DEF PingFits
<1>16. ResultFits' /\ BufsFit(A)' /\ DnsFits(A)' /\ SockFits' /\ A \in Seq(Names)
  BY <1>1, Unchanged, Fitting
<1> QED
  BY ONLY <1>3, <1>4, <1>12, <1>13, <1>14, <1>15, <1>16 DEF Fits

\* socket_sendto.
LEMMA SendtoStep ==
    ASSUME NEW A, NEW H, Fits(A, H), NEW p \in Procs, NEW h \in Peers, SocketSendto(p, h)
    PROVE  Fits(A, H)'
<1> DEFINE w == [kind |-> "sendto"]
           d == [kind |-> "datagram", to |-> h]
<1>1. /\ Call(p, "sendto") /\ UdpSend(p, <<w>>, h, d)
      /\ UNCHANGED <<result, arp, reply, rx, dns, ping, dhcp, lease, sock>>
  BY DEF SocketSendto
<1>2. d \in SegBodies(A) /\ d.kind # "echo" /\ w \in Waits(p, A, H)
  BY DEF SegBodies, Waits
<1> HIDE DEF w, d
<1>3. seg' = d /\ IpSend(p, <<w>>, h, "seg", d)
  BY <1>1 DEF UdpSend
<1>4. Carries(Payload("seg", d), h, A, H)
  <2>1. Payload("seg", d) = d
    BY <1>3 DEF Payload
  <2> QED
    BY ONLY <1>2, <2>1 DEF Carries, Bodies
<1>5. <<w>> \in Seq(Waits(p, A, H)) /\ h \in Targets
  BY <1>2 DEF Targets
<1>6. StackTo(p, A, H) /\ TxTo(A, H)
  BY ONLY <1>3, <1>4, <1>5, p \in Procs, IpSendFits
<1>7. StackFits(A, H)' /\ TxFits(A, H)'
  BY <1>6, Fitting, StackMoves, TxMoves
<1>8. BufsFit(A)'
  BY <1>1, <1>2, <1>3, Fitting DEF BufsFit
<1>9. RxFits(A, H)' /\ LeaseFits'
  BY <1>1, CallKeeps
<1>10. ResultFits' /\ DnsFits(A)' /\ PingFits(H)' /\ SockFits' /\ A \in Seq(Names) /\ H \in Seq(Peers)
  BY <1>1, Unchanged, Fitting
<1> QED
  BY ONLY <1>7, <1>8, <1>9, <1>10 DEF Fits

\* socket_recvfrom.
LEMMA RecvfromStep ==
    ASSUME NEW A, NEW H, Fits(A, H), NEW p \in Procs, SocketRecvfrom(p)
    PROVE  Fits(A, H)'
<1> DEFINE w == [kind |-> "recvfrom", at |-> "check"]
<1>1. /\ Call(p, "recvfrom") /\ stack' = [stack EXCEPT ![p] = <<w>>]
      /\ UNCHANGED <<result, txbuf, txq, rx, globals>>
  BY DEF SocketRecvfrom
<1>2. w \in Waits(p, A, H)
  BY DEF Waits, Loops, Where
<1> HIDE DEF w
<1>3. <<w>> \in Seq(Waits(p, A, H))
  BY <1>2
<1>4. StackFits(A, H)'
  BY <1>1, <1>3, Fitting, StackMoves DEF StackTo
<1>5. RxFits(A, H)' /\ LeaseFits'
  BY <1>1, CallKeeps DEF globals
<1>6. /\ ResultFits' /\ BufsFit(A)' /\ TxFits(A, H)' /\ DnsFits(A)' /\ PingFits(H)' /\ SockFits'
      /\ A \in Seq(Names) /\ H \in Seq(Peers)
  BY <1>1, Unchanged, Fitting DEF globals
<1> QED
  BY ONLY <1>4, <1>5, <1>6 DEF Fits

\* The end of net_send's wait.
LEMMA TxWaitStep ==
    ASSUME NEW A, NEW H, Fits(A, H), NEW p \in Procs, Depth(p) > 0, TxWait(p)
    PROVE  Fits(A, H)'
<1>1. /\ \/ txq' = [txq EXCEPT !.new = FALSE] /\ stack' = [stack EXCEPT ![p] = Front(stack[p])]
         \/ UNCHANGED <<txq, stack>>
      /\ UNCHANGED <<result, txbuf, rx, world, globals>>
  BY DEF TxWait
<1>2. StackFits(A, H)'
  <2>1. CASE stack' = [stack EXCEPT ![p] = Front(stack[p])]
    <3>1. StackTo(p, A, H)
      BY <2>1, Fitting, StackTop DEF StackTo
    <3> QED
      BY <3>1, Fitting, StackMoves
  <2>2. CASE UNCHANGED <<txq, stack>>
    BY <2>2, Unchanged
  <2> QED
    BY <1>1, <2>1, <2>2
<1>3. TxFits(A, H)'
  BY <1>1, Fitting DEF TxFits
<1>4. /\ ResultFits' /\ BufsFit(A)' /\ RxFits(A, H)' /\ DnsFits(A)' /\ PingFits(H)' /\ LeaseFits'
      /\ SockFits' /\ A \in Seq(Names) /\ H \in Seq(Peers)
  BY <1>1, Unchanged, Fitting DEF globals
<1> QED
  BY ONLY <1>2, <1>3, <1>4 DEF Fits

\* dhcp_renew_check.
LEMMA RenewStep ==
    ASSUME NEW A, NEW H, Fits(A, H), NEW p \in Procs, Renew(p)
    PROVE  Fits(A, H)'
<1> DEFINE xid == dhcp.xid + 1
           w == [kind |-> "dhcp", at |-> "pump", xid |-> xid,
                 want |-> IF lease.due = "expired" THEN "offer" ELSE "ack"]
           msg == [kind |-> IF lease.due = "expired" THEN "discover" ELSE "request", xid |-> xid,
                   ip |-> lease.ip, unicast |-> lease.due = "renew"]
           below == Append(Moved(p, "recv"), w)
<1>1. /\ At(p, "pump") /\ lease' = [lease EXCEPT !.renewing = TRUE]
      /\ dhcp' = [waiting |-> TRUE, got |-> [kind |-> "none"], xid |-> xid]
      /\ DhcpSend(p, below, msg)
      /\ UNCHANGED <<result, arp, seg, reply, rx, dns, ping, sock, world>>
  BY DEF Renew
<1>2. LeaseFits /\ xid \in Nat /\ lease.ip \in Addresses
  <2>1. LeaseFits
    BY Fitting
  <2>2. dhcp.xid \in Nat /\ lease \in Leases(world.acked)
    BY <2>1 DEF LeaseFits
  <2>3. lease.ip \in Addresses
    BY ONLY <2>2 DEF Leases
  <2> QED
    BY <2>1, <2>2, <2>3
<1> HIDE DEF xid
<1>3. w \in Waits(p, A, H)
  <2>1. w \in DhcpWaits
    BY ONLY <1>2 DEF DhcpWaits, Where
  <2> QED
    BY <2>1 DEF Waits, Loops
<1>4. msg \in Messages
  BY ONLY <1>2 DEF Messages
<1>5. Moved(p, "recv") \in Seq(Waits(p, A, H))
  BY <1>1, Fitting, MovedFits DEF At, Where
<1> HIDE DEF w, msg
<1>6. below \in Seq(Waits(p, A, H))
  BY ONLY <1>3, <1>5, AppendProperties
<1> HIDE DEF below
<1>7. StackTo(p, A, H) /\ TxTo(A, H)
  BY ONLY <1>1, <1>4, <1>6, p \in Procs, DhcpSendFits
<1>8. StackFits(A, H)' /\ TxFits(A, H)'
  BY <1>7, Fitting, StackMoves, TxMoves
<1>9. LeaseFits'
  BY ONLY <1>1, <1>2, LeaseStays DEF LeaseFits
<1>10. /\ ResultFits' /\ BufsFit(A)' /\ RxFits(A, H)' /\ DnsFits(A)' /\ PingFits(H)' /\ SockFits'
       /\ A \in Seq(Names) /\ H \in Seq(Peers)
  BY <1>1, Unchanged, Fitting
<1> QED
  BY ONLY <1>8, <1>9, <1>10 DEF Fits

\* dhcp_wait_reply forgets what came before.
LEMMA DhcpClearStep ==
    ASSUME NEW A, NEW H, Fits(A, H), NEW p \in Procs, DhcpClear(p)
    PROVE  Fits(A, H)'
<1>1. /\ At(p, "pump") /\ dhcp' = [dhcp EXCEPT !.got = [kind |-> "none"]]
      /\ stack' = [stack EXCEPT ![p] = Moved(p, "recv")]
      /\ UNCHANGED <<result, arp, seg, reply, txbuf, txq, rx, dns, ping, lease, sock, world>>
  BY DEF DhcpClear
<1>2. Moved(p, "recv") \in Seq(Waits(p, A, H))
  BY <1>1, Fitting, MovedFits DEF At, Where
<1>3. StackFits(A, H)'
  BY <1>1, <1>2, Fitting, StackMoves DEF StackTo
<1>4. LeaseFits'
  BY <1>1, Fitting DEF LeaseFits
<1>5. /\ ResultFits' /\ BufsFit(A)' /\ TxFits(A, H)' /\ RxFits(A, H)' /\ DnsFits(A)' /\ PingFits(H)'
      /\ SockFits' /\ A \in Seq(Names) /\ H \in Seq(Peers)
  BY <1>1, Unchanged, Fitting
<1> QED
  BY ONLY <1>3, <1>4, <1>5 DEF Fits

\* net_input: a reply taken is kept as what it answers, and what is sent back
\* is a reply.
LEMMA TakeStep ==
    ASSUME NEW A, NEW H, Fits(A, H), NEW p \in Procs, rx # <<>>,
           NEW below \in Seq(Waits(p, A, H)), Take(p, Head(rx), below), UNCHANGED <<result, world>>
    PROVE  Fits(A, H)'
<1> DEFINE f == Head(rx)
<1>1. f \in Arrivals(A, H, world.acked) /\ Tail(rx) \in Seq(Arrivals(A, H, world.acked))
  <2>1. rx \in Seq(Arrivals(A, H, world.acked))
    BY Fitting DEF RxFits
  <2> QED
    BY <2>1
<1>2. /\ rx' = Tail(rx) /\ IcmpInput(f) /\ UdpInput(f) /\ UNCHANGED <<seg, lease, result, world>>
      /\ \/ /\ f.kind = "echo" /\ reply' = [kind |-> "echoed", id |-> f.id, to |-> f.src]
            /\ IpSend(p, below, f.src, "reply", f)
         \/ /\ f.kind = "who" /\ EthSend(p, below, [kind |-> "here", ip |-> f.src])
            /\ UNCHANGED reply
         \/ stack' = [stack EXCEPT ![p] = below] /\ UNCHANGED <<reply, txbuf, txq>>
  BY DEF Take, NetRecv
<1> HIDE DEF f
<1>3. /\ f.kind = "answer" => f \in Answered(A)
      /\ f.kind = "echoed" => f \in Echoes(H)
      /\ f.kind = "offer" => f \in Offers
      /\ f.kind = "ack" => f \in Acks(world.acked)
      /\ f.kind = "echo" => f \in [kind : {"echo"}, id : Nat, src : Peers]
      /\ f.kind = "who" => f.src \in Peers
      /\ f.kind = "datagram" => f \in Datagrams
  BY ONLY <1>1, ArrivalKinds
<1>4. RxFits(A, H)'
  BY ONLY <1>1, <1>2 DEF RxFits
<1>5. PingFits(H)'
  <2>1. PingFits(H) /\ H \in Seq(Peers)
    BY Fitting
  <2>2. CASE f.kind = "echoed" /\ f.id = ping.id
    <3>1. f.id \in 1 .. Len(H) /\ f.from \in Peers /\ H[f.id] = f.from
      BY <1>3, <2>2 DEF Echoes
    <3>2. ping' = [ping EXCEPT !.got = f.from]
      BY <1>2, <2>2 DEF IcmpInput, EchoIsOurs
    <3> QED
      BY ONLY <2>1, <2>2, <3>1, <3>2 DEF PingFits
  <2>3. CASE ~(f.kind = "echoed" /\ f.id = ping.id)
    <3>1. ping' = ping
      BY <1>2, <2>3 DEF IcmpInput, EchoIsOurs
    <3> QED
      BY <3>1, Unchanged
  <2> QED
    BY <2>2, <2>3
<1>6. DnsFits(A)'
  <2>1. DnsFits(A)
    BY Fitting
  <2>2. dns' = dns \/ (f.kind = "answer" /\ dns' = [dns EXCEPT !.got = f])
    BY <1>2 DEF UdpInput
  <2> QED
    BY ONLY <1>3, <2>1, <2>2 DEF DnsFits
<1>7. LeaseFits'
  <2>1. LeaseFits
    BY Fitting
  <2>2. dhcp' = dhcp \/ (f.kind \in {"offer", "ack"} /\ dhcp' = [dhcp EXCEPT !.got = f])
    BY <1>2 DEF UdpInput
  <2> QED
    BY ONLY <1>2, <1>3, <2>1, <2>2 DEF LeaseFits
<1>8. SockFits'
  <2>1. sock \in Seq(Datagrams)
    BY Fitting DEF SockFits
  <2>2. sock' = sock \/ (f.kind = "datagram" /\ sock' = Append(sock, f))
    BY <1>2 DEF UdpInput, Queued
  <2>3. f \in Datagrams => Append(sock, f) \in Seq(Datagrams)
    BY ONLY <2>1, AppendProperties
  <2> QED
    BY ONLY <1>3, <2>1, <2>2, <2>3 DEF SockFits
<1>9. StackFits(A, H)' /\ TxFits(A, H)' /\ BufsFit(A)'
  <2>0. BufsFit(A) /\ StackFits(A, H) /\ TxFits(A, H)
    BY Fitting
  <2>1. CASE /\ f.kind = "echo" /\ reply' = [kind |-> "echoed", id |-> f.id, to |-> f.src]
             /\ IpSend(p, below, f.src, "reply", f)
    <3>1. f.src \in Peers /\ f.id \in Nat /\ f.src \in Targets
      BY <1>3, <2>1 DEF Targets
    <3>2. reply' \in Replies /\ reply'.kind # "echo"
      BY ONLY <2>1, <3>1 DEF Replies
    <3>3. Payload("reply", f) = reply'
      BY DEF Payload
    <3>4. Carries(Payload("reply", f), f.src, A, H)
      BY ONLY <3>2, <3>3 DEF Carries, Bodies
    <3>5. StackTo(p, A, H) /\ TxTo(A, H)
      BY ONLY <2>1, <3>1, <3>4, p \in Procs, below \in Seq(Waits(p, A, H)), IpSendFits
    <3>6. StackFits(A, H)' /\ TxFits(A, H)'
      BY ONLY <2>0, <3>5, p \in Procs, StackMoves, TxMoves
    <3>7. BufsFit(A)'
      BY ONLY <1>2, <2>0, <3>2 DEF BufsFit
    <3> QED
      BY <3>6, <3>7
  <2>2. CASE /\ f.kind = "who" /\ EthSend(p, below, [kind |-> "here", ip |-> f.src])
             /\ UNCHANGED reply
    <3> DEFINE frame == [kind |-> "here", ip |-> f.src]
    <3>1. frame \in Sent(A, H)
      BY <1>3, <2>2 DEF Sent
    <3>2. EthSend(p, below, frame)
      BY <2>2
    <3> HIDE DEF frame
    <3>3. StackTo(p, A, H) /\ TxTo(A, H)
      BY ONLY <3>1, <3>2, p \in Procs, below \in Seq(Waits(p, A, H)), EthSendFits
    <3>4. StackFits(A, H)' /\ TxFits(A, H)'
      BY ONLY <2>0, <3>3, p \in Procs, StackMoves, TxMoves
    <3>5. BufsFit(A)'
      BY ONLY <1>2, <2>0, <2>2 DEF BufsFit
    <3> QED
      BY <3>4, <3>5
  <2>3. CASE stack' = [stack EXCEPT ![p] = below] /\ UNCHANGED <<reply, txbuf, txq>>
    <3>1. StackTo(p, A, H)
      BY <2>3 DEF StackTo
    <3>2. StackFits(A, H)'
      BY ONLY <2>0, <3>1, p \in Procs, StackMoves
    <3>3. TxFits(A, H)' /\ BufsFit(A)'
      BY ONLY <1>2, <2>0, <2>3 DEF TxFits, BufsFit
    <3> QED
      BY <3>2, <3>3
  <2> QED
    BY <1>2, <2>1, <2>2, <2>3
<1>10. ResultFits' /\ A \in Seq(Names) /\ H \in Seq(Peers)
  BY <1>2, Unchanged, Fitting
<1> QED
  BY ONLY <1>4, <1>5, <1>6, <1>7, <1>8, <1>9, <1>10 DEF Fits

\* net_pump.
LEMMA PumpStep ==
    ASSUME NEW A, NEW H, Fits(A, H), NEW p \in Procs, Pump(p)
    PROVE  Fits(A, H)'
<1> DEFINE below == Moved(p, "check")
<1>1. Looping(p) /\ UNCHANGED <<result, world>>
  BY DEF Pump, At
<1>2. below \in Seq(Waits(p, A, H))
  BY <1>1, Fitting, MovedFits DEF Where
<1>3. CASE rx = <<>>
  <2>1. stack' = [stack EXCEPT ![p] = below] /\ UNCHANGED <<rx, txbuf, txq, globals>>
    BY <1>3 DEF Pump
  <2> HIDE DEF below
  <2>2. StackFits(A, H)'
    BY <1>2, <2>1, Fitting, StackMoves DEF StackTo
  <2>3. /\ ResultFits' /\ BufsFit(A)' /\ TxFits(A, H)' /\ RxFits(A, H)' /\ DnsFits(A)' /\ PingFits(H)'
        /\ LeaseFits' /\ SockFits' /\ A \in Seq(Names) /\ H \in Seq(Peers)
    BY <1>1, <2>1, Unchanged, Fitting DEF globals
  <2> QED
    BY ONLY <2>2, <2>3 DEF Fits
<1>4. CASE rx # <<>>
  <2>1. Take(p, Head(rx), below)
    BY <1>4 DEF Pump
  <2> HIDE DEF below
  <2> QED
    BY <1>1, <1>2, <1>4, <2>1, TakeStep
<1> QED
  BY <1>3, <1>4

\* A wait that sleeps and starts its next pass.
LEMMA WaitStep ==
    ASSUME NEW A, NEW H, Fits(A, H), NEW p \in Procs, Wait(p)
    PROVE  Fits(A, H)'
<1>1. /\ Looping(p) /\ stack' = [stack EXCEPT ![p] = Moved(p, "pump")]
      /\ UNCHANGED <<result, txbuf, txq, rx, world, globals>>
  BY DEF Wait, At
<1>2. Moved(p, "pump") \in Seq(Waits(p, A, H))
  BY <1>1, Fitting, MovedFits DEF Where
<1>3. StackFits(A, H)'
  BY <1>1, <1>2, Fitting, StackMoves DEF StackTo
<1>4. /\ ResultFits' /\ BufsFit(A)' /\ TxFits(A, H)' /\ RxFits(A, H)' /\ DnsFits(A)' /\ PingFits(H)'
      /\ LeaseFits' /\ SockFits' /\ A \in Seq(Names) /\ H \in Seq(Peers)
  BY <1>1, Unchanged, Fitting DEF globals
<1> QED
  BY ONLY <1>3, <1>4 DEF Fits

\* The packet of an address wait: the static buffers never hold an echo of
\* ours, and what is in no buffer is what it was made with.
LEMMA PacketSent ==
    ASSUME NEW A, NEW H, BufsFit(A), NEW w \in ArpWaits(A, H)
    PROVE  Packet(w) \in Sent(A, H)
<1> DEFINE body == CASE w.buf = "seg" -> seg [] w.buf = "reply" -> reply [] OTHER -> w.body
           frame == [kind |-> "ip", hop |-> w.hop, dst |-> w.dst, body |-> body]
<1>1. w.hop \in Peers /\ w.dst \in Targets /\ Carries(w.body, w.dst, A, H) /\ w.buf \in {"seg", "reply", "own"}
  BY DEF ArpWaits
<1>2. Carries(seg, w.dst, A, H)
  <2>1. seg \in Bodies(A) /\ seg.kind # "echo"
    BY DEF BufsFit, Bodies, SegBodies, Queries
  <2> QED
    BY <2>1 DEF Carries
<1>3. Carries(reply, w.dst, A, H)
  <2>1. reply \in Bodies(A) /\ reply.kind # "echo"
    BY DEF BufsFit, Bodies, Replies
  <2> QED
    BY <2>1 DEF Carries
<1>4. Carries(body, w.dst, A, H)
  <2>1. body = seg \/ body = reply \/ body = w.body
    BY <1>1
  <2> HIDE DEF body
  <2> QED
    BY ONLY <1>1, <1>2, <1>3, <2>1
<1>5. Packet(w) = frame
  BY DEF Packet
<1>6. body \in Bodies(A)
  BY ONLY <1>4 DEF Carries
<1> HIDE DEF body
<1>7. frame \in IpFrames(A, H)
  BY ONLY <1>1, <1>4, <1>6 DEF IpFrames
<1> QED
  BY <1>5, <1>7 DEF Sent

\* arp_resolve succeeds.
LEMMA ArpDoneStep ==
    ASSUME NEW A, NEW H, Fits(A, H), NEW p \in Procs, ArpDone(p)
    PROVE  Fits(A, H)'
<1> DEFINE below == Front(stack[p])
           frame == Packet(Top(p))
<1>1. /\ Depth(p) > 0 /\ Top(p).kind = "arp" /\ EthSend(p, below, frame)
      /\ UNCHANGED <<result, rx, world, globals>>
  BY DEF ArpDone, At, Looping
<1>2. below \in Seq(Waits(p, A, H)) /\ Top(p) \in Waits(p, A, H)
  BY <1>1, Fitting, StackTop
<1>3. Top(p) \in ArpWaits(A, H)
  BY <1>1, <1>2, WaitKinds
<1>4. frame \in Sent(A, H)
  BY <1>3, Fitting, PacketSent
<1> HIDE DEF below, frame
<1>5. StackTo(p, A, H) /\ TxTo(A, H)
  BY ONLY <1>1, <1>2, <1>4, p \in Procs, EthSendFits
<1>6. StackFits(A, H)' /\ TxFits(A, H)'
  BY <1>5, Fitting, StackMoves, TxMoves
<1>7. /\ ResultFits' /\ BufsFit(A)' /\ RxFits(A, H)' /\ DnsFits(A)' /\ PingFits(H)'
      /\ LeaseFits' /\ SockFits' /\ A \in Seq(Names) /\ H \in Seq(Peers)
  BY <1>1, Unchanged, Fitting DEF globals
<1> QED
  BY ONLY <1>6, <1>7 DEF Fits

\* A call that returns leaves no wait.
LEMMA ReturnsFits ==
    ASSUME NEW A, NEW H, Fits(A, H), NEW p \in Procs, NEW r \in Results(p), Returns(p, r)
    PROVE  StackFits(A, H)' /\ ResultFits'
<1>1. result' = [result EXCEPT ![p] = r] /\ stack' = [stack EXCEPT ![p] = <<>>]
  BY DEF Returns
<1>2. StackTo(p, A, H)
  BY <1>1, NoWaits DEF StackTo
<1> QED
  BY <1>1, <1>2, Fitting, StackMoves, ResultMoves

\* net_resolve returns: an answer with its identifier is about its name.
LEMMA ResolveDoneStep ==
    ASSUME NEW A, NEW H, Fits(A, H), NEW p \in Procs, ResolveDone(p)
    PROVE  Fits(A, H)'
<1> DEFINE w == Top(p)
           r == [kind |-> "resolve", name |-> w.name, answer |-> AnswerFor(w)]
<1>1. /\ Depth(p) > 0 /\ w.kind = "resolve" /\ dns' = [dns EXCEPT !.waiting = FALSE] /\ Returns(p, r)
      /\ UNCHANGED <<txbuf, txq, rx, world, arp, seg, reply, ping, dhcp, lease, sock>>
  BY DEF ResolveDone, At, Looping
<1>2. w \in ResolveWaits(A)
  BY <1>1, Fitting, StackTop, WaitKinds
<1>3. w.name \in Names /\ w.id \in 1 .. Len(A) /\ A[w.id] = w.name
  BY <1>2 DEF ResolveWaits
<1>4. AnswerFor(w) \in {w.name, "error"}
  <2>1. CASE dns.got.kind = "answer" /\ dns.got.id = w.id
    <3>1. dns.got \in Answered(A)
      BY <2>1, Fitting DEF DnsFits
    <3>2. dns.got.name = A[dns.got.id]
      BY <3>1 DEF Answered
    <3> QED
      BY <1>3, <2>1, <3>2 DEF AnswerFor
  <2>2. CASE ~(dns.got.kind = "answer" /\ dns.got.id = w.id)
    BY <2>2 DEF AnswerFor
  <2> QED
    BY <2>1, <2>2
<1>5. r \in Results(p)
  <2>1. r \in Resolved
    BY ONLY <1>3, <1>4 DEF Resolved
  <2> QED
    BY <2>1 DEF Results
<1> HIDE DEF w, r
<1>6. StackFits(A, H)' /\ ResultFits'
  BY ONLY Fits(A, H), <1>1, <1>5, p \in Procs, ReturnsFits
<1>7. DnsFits(A)'
  BY <1>1, Fitting DEF DnsFits
<1>8. /\ BufsFit(A)' /\ TxFits(A, H)' /\ RxFits(A, H)' /\ PingFits(H)' /\ LeaseFits' /\ SockFits'
      /\ A \in Seq(Names) /\ H \in Seq(Peers)
  BY <1>1, Unchanged, Fitting
<1> QED
  BY ONLY <1>6, <1>7, <1>8 DEF Fits

\* net_ping returns: the flag was raised by the answer to the last ping, which
\* is this one when nobody else pings.
LEMMA PingDoneStep ==
    ASSUME NEW A, NEW H, Fits(A, H), NEW p \in Procs, PingDone(p)
    PROVE  Fits(A, H)'
<1> DEFINE w == Top(p)
           r == [kind |-> "ping", ip |-> w.ip, from |-> ping.got]
<1>1. /\ Depth(p) > 0 /\ w.kind = "ping" /\ ping.got # "none" /\ Returns(p, r)
      /\ UNCHANGED <<txbuf, txq, rx, world, globals>>
  BY DEF PingDone, At, Looping, Ready
<1>2. w \in PingWaits(p, H)
  BY <1>1, Fitting, StackTop, WaitKinds
<1>3. w.ip \in Peers /\ H[w.id] = w.ip /\ (SolePinger(p) => w.id = Len(H))
  BY <1>2 DEF PingWaits
<1>4. ping.got \in Peers /\ ping.id = Len(H) /\ ping.got = H[ping.id]
  BY <1>1, Fitting DEF PingFits
<1>5. r \in Results(p)
  <2>1. r \in Pinged(p)
    BY ONLY <1>3, <1>4 DEF Pinged
  <2> QED
    BY <2>1 DEF Results
<1> HIDE DEF w, r
<1>6. StackFits(A, H)' /\ ResultFits'
  BY ONLY Fits(A, H), <1>1, <1>5, p \in Procs, ReturnsFits
<1>7. /\ BufsFit(A)' /\ TxFits(A, H)' /\ RxFits(A, H)' /\ DnsFits(A)' /\ PingFits(H)' /\ LeaseFits'
      /\ SockFits' /\ A \in Seq(Names) /\ H \in Seq(Peers)
  BY <1>1, Unchanged, Fitting DEF globals
<1> QED
  BY ONLY <1>6, <1>7 DEF Fits

LEMMA RecvfromDoneStep ==
    ASSUME NEW A, NEW H, Fits(A, H), NEW p \in Procs, RecvfromDone(p)
    PROVE  Fits(A, H)'
<1> DEFINE r == [kind |-> "recvfrom", n |-> Head(sock).n]
<1>1. /\ sock # <<>> /\ sock' = Tail(sock) /\ Returns(p, r)
      /\ UNCHANGED <<txbuf, txq, rx, world, arp, seg, reply, dns, ping, dhcp, lease>>
  BY DEF RecvfromDone, Ready
<1>2. Head(sock) \in Datagrams /\ Tail(sock) \in Seq(Datagrams)
  BY <1>1, Fitting DEF SockFits
<1>3. r \in Results(p)
  BY ONLY <1>2 DEF Datagrams, Results
<1> HIDE DEF r
<1>4. StackFits(A, H)' /\ ResultFits'
  BY ONLY Fits(A, H), <1>1, <1>3, p \in Procs, ReturnsFits
<1>5. SockFits'
  BY ONLY <1>1, <1>2 DEF SockFits
<1>6. /\ BufsFit(A)' /\ TxFits(A, H)' /\ RxFits(A, H)' /\ DnsFits(A)' /\ PingFits(H)' /\ LeaseFits'
      /\ A \in Seq(Names) /\ H \in Seq(Peers)
  BY <1>1, Unchanged, Fitting
<1> QED
  BY ONLY <1>4, <1>5, <1>6 DEF Fits

LEMMA SendtoDoneStep ==
    ASSUME NEW A, NEW H, Fits(A, H), NEW p \in Procs, SendtoDone(p)
    PROVE  Fits(A, H)'
<1> DEFINE r == [kind |-> "sendto"]
<1>1. Returns(p, r) /\ UNCHANGED <<txbuf, txq, rx, world, globals>>
  BY DEF SendtoDone
<1>2. r \in Results(p)
  BY DEF Results
<1> HIDE DEF r
<1>3. StackFits(A, H)' /\ ResultFits'
  BY ONLY Fits(A, H), <1>1, <1>2, p \in Procs, ReturnsFits
<1>4. /\ BufsFit(A)' /\ TxFits(A, H)' /\ RxFits(A, H)' /\ DnsFits(A)' /\ PingFits(H)' /\ LeaseFits'
      /\ SockFits' /\ A \in Seq(Names) /\ H \in Seq(Peers)
  BY <1>1, Unchanged, Fitting DEF globals
<1> QED
  BY ONLY <1>3, <1>4 DEF Fits

\* An offer is asked for, an acknowledgement applied.
LEMMA OfferDoneStep ==
    ASSUME NEW A, NEW H, Fits(A, H), NEW p \in Procs, OfferDone(p)
    PROVE  Fits(A, H)'
<1> DEFINE w == Top(p)
           next == [w EXCEPT !.want = "ack", !.at = "pump"]
           below == Append(Front(stack[p]), next)
           msg == [kind |-> "request", xid |-> w.xid, ip |-> dhcp.got.ip, unicast |-> FALSE]
<1>1. /\ Depth(p) > 0 /\ w.kind = "dhcp" /\ dhcp.got.kind = "offer"
      /\ DhcpSend(p, below, msg) /\ UNCHANGED <<result, rx, world, globals>>
  BY DEF OfferDone, At, Looping, Ready, DhcpFits
<1>2. w \in DhcpWaits /\ Front(stack[p]) \in Seq(Waits(p, A, H))
  BY <1>1, Fitting, StackTop, WaitKinds
<1>3. msg \in Messages
  <2>1. dhcp.got \in Offers
    BY <1>1, Fitting DEF LeaseFits, Acks
  <2>2. dhcp.got.ip \in Addresses /\ w.xid \in Nat
    BY <1>2, <2>1 DEF Offers, DhcpWaits
  <2> QED
    BY ONLY <2>2 DEF Messages
<1>4. next \in Waits(p, A, H)
  <2>1. next \in DhcpWaits
    BY ONLY <1>2 DEF DhcpWaits, Where
  <2> QED
    BY <2>1 DEF Waits, Loops
<1> HIDE DEF next, msg
<1>5. below \in Seq(Waits(p, A, H))
  BY ONLY <1>2, <1>4, AppendProperties
<1> HIDE DEF below, w
<1>6. StackTo(p, A, H) /\ TxTo(A, H)
  BY ONLY <1>1, <1>3, <1>5, p \in Procs, DhcpSendFits
<1>7. StackFits(A, H)' /\ TxFits(A, H)'
  BY <1>6, Fitting, StackMoves, TxMoves
<1>8. /\ ResultFits' /\ BufsFit(A)' /\ RxFits(A, H)' /\ DnsFits(A)' /\ PingFits(H)' /\ LeaseFits'
      /\ SockFits' /\ A \in Seq(Names) /\ H \in Seq(Peers)
  BY <1>1, Unchanged, Fitting DEF globals
<1> QED
  BY ONLY <1>7, <1>8 DEF Fits

LEMMA AckDoneStep ==
    ASSUME NEW A, NEW H, Fits(A, H), NEW p \in Procs, AckDone(p)
    PROVE  Fits(A, H)'
<1>1. /\ Depth(p) > 0 /\ dhcp.got.kind = "ack"
      /\ lease' = [ip |-> dhcp.got.ip, xid |-> dhcp.got.xid, due |-> "hold", renewing |-> FALSE]
      /\ dhcp' = [dhcp EXCEPT !.waiting = FALSE]
      /\ stack' = [stack EXCEPT ![p] = Front(stack[p])]
      /\ UNCHANGED <<result, txbuf, txq, rx, world, arp, seg, reply, dns, ping, sock>>
  BY DEF AckDone, At, Looping, Ready, DhcpFits
<1>2. StackTo(p, A, H)
  BY <1>1, Fitting, StackTop DEF StackTo
<1>3. StackFits(A, H)'
  BY <1>2, Fitting, StackMoves
<1>4. LeaseFits'
  <2>1. LeaseFits
    BY Fitting
  <2>2. dhcp.got \in Acks(world.acked)
    BY <1>1, <2>1 DEF LeaseFits, Offers
  <2>3. dhcp.got \in [kind : {"ack"}, xid : Nat, ip : Addresses] /\ <<dhcp.got.xid, dhcp.got.ip>> \in world.acked
    BY <2>2 DEF Acks
  <2>4. lease' \in Leases(world.acked)
    BY ONLY <1>1, <2>3 DEF Leases
  <2> QED
    BY ONLY <1>1, <2>1, <2>4 DEF LeaseFits
<1>5. /\ ResultFits' /\ BufsFit(A)' /\ TxFits(A, H)' /\ RxFits(A, H)' /\ DnsFits(A)' /\ PingFits(H)'
      /\ SockFits' /\ A \in Seq(Names) /\ H \in Seq(Peers)
  BY <1>1, Unchanged, Fitting
<1> QED
  BY ONLY <1>3, <1>4, <1>5 DEF Fits

\* A timeout or a signal.
LEMMA GiveUpStep ==
    ASSUME NEW A, NEW H, Fits(A, H), NEW p \in Procs, GiveUp(p)
    PROVE  Fits(A, H)'
<1>1. /\ Depth(p) > 0
      /\ dns' = [dns EXCEPT !.waiting = FALSE] \/ dns' = dns
      /\ dhcp' = [dhcp EXCEPT !.waiting = FALSE] \/ dhcp' = dhcp
      /\ lease' = [lease EXCEPT !.renewing = FALSE] \/ lease' = lease
      /\ \/ stack' = [stack EXCEPT ![p] = Failed(Front(stack[p]))]
         \/ stack' = [stack EXCEPT ![p] = Front(stack[p])]
      /\ UNCHANGED <<result, txbuf, txq, rx, world, arp, seg, reply, ping, sock>>
  BY DEF GiveUp, At, Looping
<1>2. Front(stack[p]) \in Seq(Waits(p, A, H)) /\ Failed(Front(stack[p])) \in Seq(Waits(p, A, H))
  BY <1>1, Fitting, StackTop, NoWaits DEF Failed
<1>3. StackFits(A, H)'
  BY <1>1, <1>2, Fitting, StackMoves DEF StackTo
<1>4. DnsFits(A)'
  BY <1>1, Fitting DEF DnsFits
<1>5. LeaseFits'
  <2>1. LeaseFits
    BY Fitting
  <2>2. lease' \in Leases(world.acked)
    <3>1. lease \in Leases(world.acked)
      BY ONLY <2>1 DEF LeaseFits
    <3>2. [lease EXCEPT !.renewing = FALSE] \in Leases(world.acked)
      BY ONLY <3>1, LeaseStays, Zenon
    <3> QED
      BY ONLY <1>1, <3>1, <3>2
  <2> QED
    BY ONLY <1>1, <2>1, <2>2 DEF LeaseFits
<1>6. /\ ResultFits' /\ BufsFit(A)' /\ TxFits(A, H)' /\ RxFits(A, H)' /\ PingFits(H)' /\ SockFits'
      /\ A \in Seq(Names) /\ H \in Seq(Peers)
  BY <1>1, Unchanged, Fitting
<1> QED
  BY ONLY <1>3, <1>4, <1>5, <1>6 DEF Fits

----------------------------------------------------------------------------
(* The device, the other hosts and the lease clock.                        *)

LEMMA DeviceStep ==
    ASSUME NEW A, NEW H, Fits(A, H), DeviceSends
    PROVE  Fits(A, H)'
<1>1. /\ txq.pending > 0 /\ txq' = [pending |-> txq.pending - 1, new |-> TRUE]
      /\ UNCHANGED <<cpu, stack, result, txbuf, globals>>
  BY DEF DeviceSends
<1>2. PICK out \in SUBSET Answers(txbuf) :
         /\ rx' = rx \o SetToSeq(out)
         /\ world' = [world EXCEPT !.acked = @ \cup {<<f.xid, f.ip>> : f \in {g \in out : g.kind = "ack"}}]
  BY DEF DeviceSends
<1>3. TxFits(A, H) /\ txbuf \in Sent(A, H) /\ H \in Seq(Peers) /\ LeaseFits
  BY <1>1, Fitting DEF TxFits
<1> DEFINE new == {<<f.xid, f.ip>> : f \in {g \in out : g.kind = "ack"}}
<1>4. new \subseteq Nat \X Addresses
  BY <1>3, AnswersArrive
<1>5. /\ world' \in [acked : SUBSET (Nat \X Addresses), stray : Nat, calls : Nat]
      /\ world'.acked = world.acked \cup new
  <2>1. world' = [world EXCEPT !.acked = @ \cup new]
    BY <1>2
  <2> HIDE DEF new
  <2> QED
    BY ONLY <1>3, <1>4, <2>1 DEF LeaseFits
<1>6. \A g \in out : g \in Arrivals(A, H, world'.acked)
  <2>1. ASSUME NEW g \in out PROVE g \in Arrivals(A, H, world'.acked)
    <3>1. g.kind = "ack" => <<g.xid, g.ip>> \in world'.acked
      BY <1>5
    <3> QED
      BY <1>3, <3>1, AnswersArrive
  <2> QED
    BY <2>1
<1> HIDE DEF new
<1>7. SetToSeq(out) \in Seq(Arrivals(A, H, world'.acked))
  <2>1. SetToSeq(out) \in Seq(out)
    BY AnswersFinite, InOrder
  <2>2. Seq(out) \subseteq Seq(Arrivals(A, H, world'.acked))
    BY ONLY <1>6, SeqGrows
  <2> QED
    BY <2>1, <2>2
<1>8. rx \in Seq(Arrivals(A, H, world'.acked))
  <2>1. rx \in Seq(Arrivals(A, H, world.acked))
    BY Fitting DEF RxFits
  <2>2. Arrivals(A, H, world.acked) \subseteq Arrivals(A, H, world'.acked)
    BY ONLY <1>5, MoreAcked
  <2>3. Seq(Arrivals(A, H, world.acked)) \subseteq Seq(Arrivals(A, H, world'.acked))
    BY ONLY <2>2, SeqGrows
  <2> QED
    BY <2>1, <2>3
<1>9. RxFits(A, H)'
  <2>1. rx \o SetToSeq(out) \in Seq(Arrivals(A, H, world'.acked))
    BY ONLY <1>7, <1>8, ConcatProperties
  <2> QED
    BY <1>2, <2>1 DEF RxFits
<1>10. TxFits(A, H)'
  BY ONLY <1>1, <1>3 DEF TxFits
<1>11. LeaseFits'
  <2>1. world.acked \subseteq world'.acked
    BY <1>5
  <2>2. Acks(world.acked) \subseteq Acks(world'.acked)
    BY ONLY <2>1, MoreAcked
  <2>3. UNCHANGED <<dhcp, lease>>
    BY <1>1 DEF globals
  <2> QED
    BY ONLY <1>3, <1>5, <2>1, <2>2, <2>3 DEF LeaseFits, Leases
<1>12. /\ StackFits(A, H)' /\ ResultFits' /\ BufsFit(A)' /\ DnsFits(A)' /\ PingFits(H)' /\ SockFits'
       /\ A \in Seq(Names) /\ H \in Seq(Peers)
  BY <1>1, Unchanged, Fitting DEF globals
<1> QED
  BY ONLY <1>9, <1>10, <1>11, <1>12 DEF Fits

LEMMA StrayStep ==
    ASSUME NEW A, NEW H, Fits(A, H), Stray
    PROVE  Fits(A, H)'
<1> DEFINE Frames == {[kind |-> "echo", id |-> 0, src |-> h] : h \in Peers}
                     \cup {[kind |-> "who", src |-> Gateway], [kind |-> "datagram", n |-> world.stray]}
<1>1. /\ world' = [world EXCEPT !.stray = @ + 1]
      /\ \/ (\E f \in Frames : rx' = Append(rx, f)) /\ UNCHANGED lease
         \/ /\ \E due \in {"renew", "rebind", "expired"} : lease' = [lease EXCEPT !.due = due]
            /\ UNCHANGED rx
      /\ UNCHANGED <<cpu, stack, result, arp, seg, reply, txbuf, txq, dns, ping, dhcp, sock>>
  BY DEF Stray
<1>2. LeaseFits /\ rx \in Seq(Arrivals(A, H, world.acked))
  BY Fitting DEF RxFits
<1>3. \A f \in Frames : f \in Arrivals(A, H, world.acked)
  <2>1. world.stray \in Nat /\ Gateway \in Peers
    BY <1>2, NetAssumption DEF LeaseFits
  <2>2. \A f \in Frames : f \in Unasked \cup Datagrams
    BY ONLY <2>1 DEF Unasked, Datagrams
  <2> QED
    BY ONLY <2>2 DEF Arrivals
<1> HIDE DEF Frames
<1>4. world' \in [acked : SUBSET (Nat \X Addresses), stray : Nat, calls : Nat] /\ world'.acked = world.acked
  BY <1>1, <1>2 DEF LeaseFits
<1>5. RxFits(A, H)'
  <2>1. ASSUME NEW f \in Frames, rx' = Append(rx, f) PROVE RxFits(A, H)'
    <3>1. Append(rx, f) \in Seq(Arrivals(A, H, world.acked))
      BY ONLY <1>2, <1>3, <2>1, AppendProperties
    <3> QED
      BY <1>4, <2>1, <3>1 DEF RxFits
  <2>2. CASE UNCHANGED rx
    BY <1>2, <1>4, <2>2 DEF RxFits
  <2> QED
    BY <1>1, <2>1, <2>2
<1>6. LeaseFits'
  <2>1. UNCHANGED dhcp
    BY <1>1
  <2>2. lease' = lease \/ \E due \in {"renew", "rebind", "expired"} : lease' = [lease EXCEPT !.due = due]
    BY <1>1
  <2> QED
    <3>1. lease' \in Leases(world.acked)
      <4>1. lease \in Leases(world.acked)
        BY ONLY <1>2 DEF LeaseFits
      <4>2. \A due \in {"renew", "rebind", "expired"} : [lease EXCEPT !.due = due] \in Leases(world.acked)
        BY ONLY <4>1, LeaseStays, Zenon
      <4> QED
        BY ONLY <2>2, <4>1, <4>2
    <3> QED
      BY ONLY <1>2, <1>4, <2>1, <3>1 DEF LeaseFits
<1>7. /\ StackFits(A, H)' /\ ResultFits' /\ BufsFit(A)' /\ TxFits(A, H)' /\ DnsFits(A)' /\ PingFits(H)'
      /\ SockFits' /\ A \in Seq(Names) /\ H \in Seq(Peers)
  BY <1>1, Unchanged, Fitting
<1> QED
  BY ONLY <1>5, <1>6, <1>7 DEF Fits

----------------------------------------------------------------------------
(* The theorems.                                                           *)

LEMMA NetStart ==
    ASSUME Init
    PROVE  NetInv
<1> DEFINE A == <<>>
           H == <<>>
<1>1. A \in Seq(Names) /\ H \in Seq(Peers) /\ Len(A) = 0 /\ Len(H) = 0
  OBVIOUS
<1> HIDE DEF A, H
<1>2. StackFits(A, H) /\ ResultFits
  BY NoWaits DEF Init, StackFits, ResultFits, Results
<1>3. BufsFit(A) /\ TxFits(A, H) /\ RxFits(A, H) /\ SockFits
  BY DEF Init, BufsFit, TxFits, RxFits, SockFits
<1>4. DnsFits(A) /\ PingFits(H)
  BY <1>1 DEF Init, DnsFits, PingFits
<1>5. LeaseFits
  <2>1. (CHOOSE a \in Addresses : TRUE) \in Addresses
    BY NetAssumption
  <2> QED
    BY <2>1 DEF Init, LeaseFits, Leases
<1> QED
  BY <1>1, <1>2, <1>3, <1>4, <1>5 DEF NetInv, Fits

LEMMA NetStep ==
    ASSUME NetInv, [Next]_vars
    PROVE  NetInv'
<1>1. PICK A, H : Fits(A, H)
  BY DEF NetInv
<1>2. ASSUME NEW B, NEW G, Fits(B, G)' PROVE NetInv'
  BY <1>2 DEF NetInv
<1>3. ASSUME NEW p \in Procs, Enter(p) PROVE NetInv'
  <2>1. ASSUME NEW n \in Names, NetResolve(p, n) PROVE NetInv'
    BY <1>1, <1>2, <2>1, ResolveStep
  <2>2. ASSUME NEW h \in Peers, NetPing(p, h) PROVE NetInv'
    BY <1>1, <1>2, <2>2, PingStep
  <2>3. ASSUME NEW h \in Peers, SocketSendto(p, h) PROVE NetInv'
    BY <1>1, <1>2, <2>3, SendtoStep
  <2>4. CASE SocketRecvfrom(p)
    BY <1>1, <1>2, <2>4, RecvfromStep
  <2> QED
    BY <1>3, <2>1, <2>2, <2>3, <2>4 DEF Enter
<1>4. ASSUME NEW p \in Procs, Continue(p) PROVE NetInv'
  <2>1. CASE TxWait(p)
    BY <1>1, <1>2, <1>4, <2>1, TxWaitStep DEF Continue
  <2>2. CASE Renew(p)
    BY <1>1, <1>2, <2>2, RenewStep
  <2>3. CASE DhcpClear(p)
    BY <1>1, <1>2, <2>3, DhcpClearStep
  <2>4. CASE Pump(p)
    BY <1>1, <1>2, <2>4, PumpStep
  <2>5. CASE Wait(p)
    BY <1>1, <1>2, <2>5, WaitStep
  <2>6. CASE ArpDone(p)
    BY <1>1, <1>2, <2>6, ArpDoneStep
  <2>7. CASE ResolveDone(p)
    BY <1>1, <1>2, <2>7, ResolveDoneStep
  <2>8. CASE PingDone(p)
    BY <1>1, <1>2, <2>8, PingDoneStep
  <2>9. CASE RecvfromDone(p)
    BY <1>1, <1>2, <2>9, RecvfromDoneStep
  <2>10. CASE SendtoDone(p)
    BY <1>1, <1>2, <2>10, SendtoDoneStep
  <2>11. CASE OfferDone(p)
    BY <1>1, <1>2, <2>11, OfferDoneStep
  <2>12. CASE AckDone(p)
    BY <1>1, <1>2, <2>12, AckDoneStep
  <2>13. CASE GiveUp(p)
    BY <1>1, <1>2, <2>13, GiveUpStep
  <2> QED
    BY <1>4, <2>1, <2>2, <2>3, <2>4, <2>5, <2>6, <2>7, <2>8, <2>9, <2>10, <2>11, <2>12, <2>13
    DEF Continue
<1>5. CASE DeviceSends
  BY <1>1, <1>2, <1>5, DeviceStep
<1>6. CASE Stray
  BY <1>1, <1>2, <1>6, StrayStep
<1>7. CASE UNCHANGED vars
  <2>1. UNCHANGED <<stack, result, seg, reply, txq, txbuf, rx, world, dns, ping, dhcp, lease, sock>>
    BY <1>7 DEF vars, globals
  <2>2. Fits(A, H)'
    BY <1>1, <2>1, Unchanged, Fitting DEF Fits
  <2> QED
    BY <1>2, <2>2
<1> QED
  BY <1>3, <1>4, <1>5, <1>6, <1>7 DEF Next

\* Queries, echoes and acknowledgements are what the calls made of them,
\* wherever they are held (netstack.c).
THEOREM NetCorrect == Spec => []NetInv
BY NetStart, NetStep, PTL DEF Spec

\* A resolved name is the one asked for, of any number of processes that
\* overwrite each other's query (netstack.c, dns_parse_answer).
THEOREM ResolveIsOwnAlways == Spec => []ResolveIsOwn
<1>1. NetInv => ResolveIsOwn
  <2>1. SUFFICES ASSUME NEW A, NEW H, Fits(A, H), NEW p \in Procs, result[p].kind = "resolve"
                 PROVE  result[p].answer \in {result[p].name, "error"}
    BY DEF NetInv, ResolveIsOwn
  <2>2. result[p] \in Results(p)
    BY <2>1, Fitting DEF ResultFits
  <2>3. result[p] \in Resolved
    BY <2>1, <2>2 DEF Results, Pinged
  <2> QED
    BY <2>3 DEF Resolved
<1> QED
  BY <1>1, NetCorrect, PTL

\* The host pinged answered, however late the answers to earlier pings come
\* and whoever else calls, if one process pings (netstack.c, icmp_input).
THEOREM PingIsOwnAlways == Spec => []PingIsOwn
<1>1. NetInv => PingIsOwn
  <2>1. SUFFICES ASSUME NEW A, NEW H, Fits(A, H), NEW p \in Procs, SolePinger(p), result[p].kind = "ping"
                 PROVE  result[p].from = result[p].ip
    BY DEF NetInv, PingIsOwn
  <2>2. result[p] \in Results(p)
    BY <2>1, Fitting DEF ResultFits
  <2>3. result[p] \in Pinged(p)
    BY <2>1, <2>2 DEF Results, Resolved
  <2> QED
    BY <2>1, <2>3 DEF Pinged
<1> QED
  BY <1>1, NetCorrect, PTL

\* No address is adopted that no server acknowledged, of any number of
\* exchanges nested in any waits (netstack.c, dhcp_wait_reply).
THEOREM AddressAckedAlways == Spec => []AddressAcked
<1>1. NetInv => AddressAcked
  BY Fitting DEF NetInv, AddressAcked, LeaseFits, Leases
<1> QED
  BY <1>1, NetCorrect, PTL
============================================================================
