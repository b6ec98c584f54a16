CONSTANTS
  DAYS = 3
  FILES = 2
  TRIES = 1
  BOOTS = 1
SPECIFICATION Spec
INVARIANT NothingLost
INVARIANT DirExplained
INVARIANT AllArchived
PROPERTY OpenDirKept
PROPERTY TodayKept
