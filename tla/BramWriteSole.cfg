\* The default build: BlvdsThreadFunc is the only writer.
CONSTANTS
  blvds = blvds
  mvb = mvb
  can0 = can0
  Thread = {blvds}
  FlagByteOf <- MCFlagByteOf
  WR_CRCERR_NUM = 5
  U8 = 256
SPECIFICATION FairSpec
INVARIANT ErrorEarned
INVARIANT NoSilentRefusal
INVARIANT AttemptsBounded
PROPERTY CallReturns
