SPECIFICATION SnapshotSpec
CONSTANTS
  c1 = c1
  ClientIds <- MCClientIds
  Prices <- MCPrices
  Quantities <- MCQuantities
  MaxOrders = 4
  TradeWindow = 1
  IntBits = 3
  Latencies <- MCLatencies
  MaxSamples = 21
CONSTRAINT
  ZeroIsFirst
INVARIANTS
  TopIsBest
  TablesListBook
  DepthAgrees
  TotalsCountTheTape
  VwapWithinPrices
  P95IsQuantile
PROPERTIES
  HeapsImplementExchange
