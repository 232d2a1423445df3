SPECIFICATION FairSpec
CONSTANTS
  Keys = {a, b}
  Entries = {e1, e2}
  NumQueues = 3
  QueueCap = 2
  MaxEvents = 3
  None = None
INVARIANTS TypeOK OneQueuePerObject RefcountIsInFlight NoEntryLeak DrainedOnShutdown
PROPERTIES ImplementsKeyedFIFO EventsHandled WorkersReturn
CHECK_DEADLOCK FALSE
