SPECIFICATION Spec
CONSTANTS
  Parts = {"OneProgram", "ManyPrograms", "Loader", "UserMemory", "UserCopy", "Coff2Noff"}
  p0 = p0
  c1 = c1
  c2 = c2
  nobody = nobody
  v0 = v0
  v1 = v1
  hole = hole
  ManyValues = {v0}
SYMMETRY Symmetric
CHECK_DEADLOCK FALSE
INVARIANTS FramesAccounted ImageLoaded  ConvertedIsImage
PROPERTY ImplementsMemory
