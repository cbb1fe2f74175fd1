INIT PartsInit
NEXT PartsNext
CHECK_DEADLOCK FALSE
SYMMETRY AddressSymmetry
INVARIANTS HeapWhole Coalesced PtyNoLostWakeup EchoShowsLine ScreenFollowsSeat WindowTree NothingReachableFreed ScreenIsText
PROPERTIES IsStyled IsRow
CONSTANTS
    HeaderSize = 1
    PageSize = 4
    RamStart = 4
    RamEnd = 24
    Requests = {1, 5}
    MaxHeld = 1
    MasterReaders = {"m"}
    SlaveReaders = {"s", "t"}
    Keys = {"a", "b", "nl", "erase", "eof", "intr"}
    Prints = {"a", "nl"}
    Modes = {{"ISIG", "ICANON", "ECHO", "ONLCR"}, {}}
    PTY_BUF = 3
    PTY_LINE = 2
    MaxTyped = 3
    Clients = {"p", "q", "r"}
    SEAT_MAX = 2
    MaxFbs = 3
    Chars = {"a", "b"}
    MaxInsert = 1
    PropKeys = {"face", "k"}
    PropVals = {1}
    CAP = 3
    RD_MAX_INTERVALS = 2
    Buffers = {"x", "y"}
    RD_MAX_WIN = 8
    Addresses = {a1, a2, a3}
    gc_threshold = 2
    MaxSymbols = 1
    MaxPlists = 1
    MaxLocals = 2
    Glyphs = {"a", "nl"}
    COLS = 3
    ROWS = 4
    EchoLines = {1, 2}
    MaxText = 4
    RD_MAX_RECTS = 2
