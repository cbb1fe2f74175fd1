SPECIFICATION Spec
CONSTANTS
    Procs = {a, b}
    a = a
    b = b
    Calls <- AllCalls
    Peers = {gw, pc}
    Gateway = gw
    Dns = ns
    Names = {n1, n2}
    Addresses = {ip1, ip2}
    ARPMAX = 2
    RXN = 2
    QDEPTH = 2
    MaxCalls = 2
    MaxStray = 1
    MaxRenewals = 2
    MaxDepth = 4
CHECK_DEADLOCK FALSE
INVARIANTS ResolveIsOwn PingIsOwn AddressAcked
