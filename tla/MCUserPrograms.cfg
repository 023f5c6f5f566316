CONSTANTS
  Thread = {p1, p2, p3}
  NoThread = nobody
  Lock = {p1, p2, p3, pm}
  Condition = {p1, p2, p3}
  Semaphore = {}
  Main = p1
  MaxProcesses = 5
  pmLock = pm
  Ghost = ghost
  Name = {"a", "b"}
  TableSize = 2
  MaxFiles = 3
  None = None
  Null = Null
SPECIFICATION GroupSpec
SYMMETRY Symmetric
CHECK_DEADLOCK FALSE
INVARIANTS NumbersExclusive   CallsAnswered
