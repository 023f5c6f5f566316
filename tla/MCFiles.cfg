SPECIFICATION GroupSpec
CONSTANTS
  Thread = {"t1"}
  Name = {"a", "b", "c"}
  NumSectors = 11
  NumDirEntries = 2
  Straddling = 1
  NumDirect = 2
  SectorSize = 2
  Size = {1, 4, 5}
  MaxCrashes = 2
CHECK_DEADLOCK FALSE
INVARIANTS   SectorsAccounted RequestsTimed
PROPERTIES ImplementsFiles ImplementsBitSet ImplementsByteFile PrintedIsHost
