SPECIFICATION FairSpec
CONSTANTS
  w1 = w1
  w2 = w2
  Workers <- MCWorkers
  OrdersPerClient = 3
  BufferSize = 2
INVARIANTS
  ReportAfterLastOrder
PROPERTIES
  TestEnds
CHECK_DEADLOCK FALSE
