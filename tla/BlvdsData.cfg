CONSTANTS
  Thread = {"blvds"}
  Frame = {"f1", "f2", "zero", "bare"}
  Content = {"f1", "f2", "zero", "bare", "short", "bad"}
  Blank = "short"
  Bare = {"bare"}
  ZeroCrc = {"zero"}
  BRAMERR_NUM = 2
  U8 = 4
SPECIFICATION Spec
INVARIANT WholeRecord
INVARIANT RdErrTells
PROPERTY ImplementsSharedRecord
