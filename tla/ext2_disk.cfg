CONSTANTS
  Blocks <- MCBlocks
  Inodes <- MCInodes
  Names = {"a", "b"}
  Targets = {"a"}
  Spans <- MCSpans
  Word <- MCWide
  Unrefused = {}
  NDIR = 1
  PTRS = 2
  SLOTS = 3
  HALF = 2
  MaxCrashes = 1
  CrashCalls = {"create", "mkdir", "symlink", "write", "unlink"}
SPECIFICATION Spec
INVARIANTS OwnedOnce LinksCoverNames WriteThrough
PROPERTY IsStore
VIEW View
CONSTRAINT Followed
