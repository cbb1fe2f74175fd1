SPECIFICATION Spec
CONSTANTS
    Slots = {a1, a2}
    Boot = boot
    NoThread = nothread
    Chans = {c1}
    NoChan = nochan
    Sigs = {2}
    Prios = {0, 1}
    PgidArgs = {1}
    SleepTicks = {1}
    SLICE = 1
    MaxId = 2
SYMMETRY SlotSymmetry
INVARIANTS OneRunning NoStaleChan
PROPERTIES PriorityRespected
