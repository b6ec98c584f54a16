\* A build with MVB_FUNCTION: two readers, each with a flag byte of its own; only
\* BLVDS zeroes its buffer for every call.
CONSTANTS
  blvds = blvds
  mvb = mvb
  Thread = {blvds, mvb}
  FlagByteOf <- MCFlagByteOf
  Zeroes = {blvds}
  Frame = {"f1"}
  Refresh = {"f1", "bad"}
  RD_CRCERR_NUM = 2
  U8 = 3
VIEW MCView
SPECIFICATION Spec
INVARIANT OkMeansIntact
PROPERTY ImplementsReadLink
