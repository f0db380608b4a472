SPECIFICATION Spec
CONSTANTS
  main = main
  helper = helper
  MaxThreads = 2
  InitThreads = 1
  QueueSlots = 2
  Clients = {main, helper}
  Calls <- MCCalls
  Sizes = {1, 2}
  MaxJobs = 5
  MaxResizes = 2
INVARIANT QueueIsFifo
PROPERTIES WaitersSeeAllDone EveryJobRuns EveryCallReturns
