SPECIFICATION FairSpec
CONSTANTS
    Procs = {t1, t2}
    First = t1
    Pipes = {p1}
    Fds = {3, 4}
    NoFile = nofile
    Console = console
    Bytes = {x, y}
    ReadLens = {1}
    Data <- TwoBytes
    x = x
    y = y
    PIPE_SIZE = 2
CHECK_DEADLOCK FALSE
PROPERTIES IsChannel EofReachesReaders BrokenReachesWriters
