\* A build with MVB_FUNCTION: two writers, each with a flag byte of its own.
CONSTANTS
  blvds = blvds
  mvb = mvb
  can0 = can0
  Thread = {blvds, mvb}
  FlagByteOf <- MCFlagByteOf
  WR_CRCERR_NUM = 2
  U8 = 4
SPECIFICATION Spec
PROPERTY FrameStable
PROPERTY FlagClearedByFpga
