\* Byte accesses, as GCC makes them for ARM at -O0: main and led share a byte,
\* blvds has its field in the other one.
CONSTANTS
  Thread = {"main", "blvds", "led"}
  UnitOf <- ByteOf
SPECIFICATION FairErrSpec
INVARIANT WordHonest
PROPERTY PowerHeals
