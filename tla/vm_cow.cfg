SPECIFICATION Spec
CONSTANTS
    Spaces = {s1, s2}
    Frames = {f1, f2, f3}
    Objs = {o1}
    Values = {z, a}
    Zero = z
    Segments <- OneData
    HeapBase = 2
    MmapBase = 3
    LastVa = 3
    Lens = {1}
    ASID_MAX = 3
    ASID_FREE_MAX = 3
    TlbSize = 1
    NoFrame = noframe
SYMMETRY VmSymmetry
INVARIANTS RefsAreOwners TlbCoherent
PROPERTY IsMemory
