SPECIFICATION Spec
CONSTANTS
  Threads = {t1, t2}
  NoOne = NoOne
  MaxDepth = 3
  MaxSessions = 2
  MaxCalls = 3
  MaxStarts = 3
  Devices = {d1, d2}
  NoError = NoError
  ScanError = ScanError
  MaxGeneration = 2
  Threshold = 2
  Stall = 2
INVARIANTS TypeOK OwnSession AtRest BuffersConserved ShowsLastScan WakesMonitor HandleCloses
PROPERTIES CallsReturn WatcherStops DeadSourceRecovered GoodFrameDelivered
CHECK_DEADLOCK FALSE
