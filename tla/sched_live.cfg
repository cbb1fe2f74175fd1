SPECIFICATION FairSpec
CONSTANTS
    Slots = {a1, a2}
    Boot = boot
    NoThread = nothread
    Chans = {c1}
    NoChan = nochan
    Sigs = {9}
    Prios = {2}
    PgidArgs = {0}
    SleepTicks = {1}
    SLICE = 2
    MaxId = 2
PROPERTIES NoStarvation SleepEnds WaitReaps KillLands
