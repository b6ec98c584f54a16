CONSTANTS
  Thread = {"blvds"}
  Frame = {"f1", "f2", "zero", "bare"}
  Content = {"f1", "f2", "zero", "bare", "short", "bad"}
  Blank = "short"
  Bare = {"bare"}
  ZeroCrc = {"zero"}
  BRAMERR_NUM = 5
  U8 = 256
SPECIFICATION Spec
INVARIANT StandstillShows
