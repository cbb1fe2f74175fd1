CONSTANTS
  Blocks <- MCBlocks
  Inodes <- MCInodes
  Names = {"a", "b"}
  Targets = {"a"}
  Spans <- MCSpans
  Word <- MCNarrow
  Unrefused = {}
  NDIR = 2
  PTRS = 2
  SLOTS = 3
  HALF = 2
  MaxCrashes = 0
  CrashCalls = {}
SPECIFICATION Spec
INVARIANT OwnedOnce
