CONSTANTS
  Id = {"status", "analog"}
  LifeId = {"status"}
  Analog = {"analog"}
  None = "none"
  SLOTS = 3
  FRAMES = 2
  ERRNUM = 2
  LIFE = 2
  QUEUE = 1
SPECIFICATION FairSpec
INVARIANT AlarmMeansNoChange
INVARIANT FullRoundNewest
PROPERTY DeadShows
