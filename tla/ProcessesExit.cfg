CONSTANTS
  Thread = {p1, p2}
  NoThread = nobody
  Lock = {p1, p2, pm}
  Condition = {p1, p2}
  Semaphore = {}
  Main = p1
  MaxProcesses = 2
  pmLock = pm
  Ghost = ghost
SPECIFICATION FairSpec
CHECK_DEADLOCK FALSE
PROPERTY ExitFinishes
