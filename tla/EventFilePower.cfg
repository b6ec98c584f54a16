CONSTANTS
  PowDebug = TRUE
  OpenFails = TRUE
  RecToTalNum = 5
  FILE_SYNC_NUM = 2
  FILETRY_NUM = 3
  POWDOW_FILT = 2
SPECIFICATION FairSpec
INVARIANT SyncBound
INVARIANT PowerSyncCovers
PROPERTY SaverDiesWarned
PROPERTY PowerErrDebounced
PROPERTY PowerErrFollows
CHECK_DEADLOCK FALSE
