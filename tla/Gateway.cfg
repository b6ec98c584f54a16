CONSTANTS
  BRAMERR_NUM = 1
  ERRNUM = 2
  LIFE = 2
  TURN = 2
SPECIFICATION FairSpec
INVARIANT MvbErrRow
INVARIANT RecordWhole
PROPERTY MvbLatchRow
PROPERTY ImplementsSharedRecord
PROPERTY MvbDeadShows
