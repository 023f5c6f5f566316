CONSTANTS
  Thread = {main, t1, t2}
  Main = main
  NoThread = null
  Semaphore = {sem}
  Lock = {lock}
  Condition = {cond}
  InitialValues = {0, 1}
  MaxValue = 2
SPECIFICATION FairSpec
INVARIANT StateMatchesCallers
PROPERTIES ImplementsKernel ImplementsMonitors FreeIsTaken
