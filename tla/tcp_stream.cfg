SPECIFICATION Spec
CONSTANTS
    Client = cli
    Server = srv
    NCONN <- Blocks
    TCP_RXBUF = 3
    TCP_SNDBUF = 2
    TCP_MSS = 1
    TCP_REASM_WIN = 4
    PORT = 80
    FirstPort = 1
    SeqMod = 32
    IsnStep = 10
    Writes <- ShortWrites
    Cwnds = {2}
    Connects = 1
    MaxNet = 2
    MaxFaults = 2
    Junk = junk
CHECK_DEADLOCK FALSE
INVARIANTS StreamPrefix EofComplete AckedReceived
