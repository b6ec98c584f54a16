CONSTANTS
  SENSORS = 2
  WARM = 2
  TRIES = 3
  FILTER = 3
SPECIFICATION FairSpec
INVARIANT ShutDownFiltered
INVARIANT ShutDownFinal
INVARIANT NoStaleEntry
INVARIANT ControlUnstarted
INVARIANT LeakFound
PROPERTY DeadChannelEnds
