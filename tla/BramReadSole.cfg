\* The default build: BlvdsThreadFunc is the only reader.
CONSTANTS
  blvds = blvds
  mvb = mvb
  Thread = {blvds}
  FlagByteOf <- MCFlagByteOf
  Zeroes = {blvds}
  Frame = {"f1", "f2"}
  Refresh = {"f1", "f2", "short", "bad"}
  RD_CRCERR_NUM = 5
  U8 = 256
SPECIFICATION FairSpec
INVARIANT ErrorEarned
INVARIANT AttemptsBounded
PROPERTY CallReturns
