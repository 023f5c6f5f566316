CONSTANTS
  Parts = {"SynchList", "SynchDisk", "Console", "List", "Interrupt"}
  Thread = {main, t1, t2}
  Main = main
  NoThread = null
  Semaphore = {semaphore, readAvail, writeDone}
  Lock = {lock}
  Condition = {listEmpty}
  listLock = lock
  diskLock = lock
  listEmpty = listEmpty
  MaxAppends = 3
  semaphore = semaphore
  Sector = {0}
  Data = {"d0", "d1"}
  readAvail = readAvail
  writeDone = writeDone
  Char = {"x", "q"}
  EOF = EOF
  MaxTyped = 3
  Element = {e1, e2, e3}
  Item = {a, b}
  Key = {0, 1}
  NULL = null
  SystemTick = 2
  UserTick = 1
  TimerDelay = {2, 3}
  DeviceDelay = {1, 3}
  MaxRequests = 2
SPECIFICATION Spec
INVARIANTS
  NoItemLost CharactersKept NoInterruptLost StatusFollowsThread
PROPERTIES
  ImplementsStore ImplementsSequence
