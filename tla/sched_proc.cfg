SPECIFICATION Spec
CONSTANTS
    Slots = {a1, a2, a3}
    Boot = boot
    NoThread = nothread
    Chans = {}
    NoChan = nochan
    Sigs = {}
    Prios = {2}
    PgidArgs = {0}
    SleepTicks = {2}
    SLICE = 2
    MaxId = 4
SYMMETRY SlotSymmetry
INVARIANTS TypeOK IdleReady NoLostExit ForegroundAlive
