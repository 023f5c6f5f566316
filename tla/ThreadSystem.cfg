CONSTANTS
  Thread = {main, t1, t2, t3}
  Main = main
  NoThread = null
SPECIFICATION FairSpec
INVARIANTS ReadyListExact NoThreadForgotten CarcassSafe
PROPERTIES FinishedStaysFinished ReadyEventuallyRuns
