SPECIFICATION Spec
CONSTANTS
    Procs = {t1, t2, t3}
    First = t1
    Pipes = {p1}
    Fds = {3, 4}
    NoFile = nofile
    Console = console
    Bytes = {x}
    ReadLens = {1}
    Data <- Same
    x = x
    y = y
    PIPE_SIZE = 1
CHECK_DEADLOCK FALSE
SYMMETRY PipeSymmetry
VIEW WithoutAnswer
INVARIANTS RefsAreDescriptors CallHoldsPipe NoLostWakeup
