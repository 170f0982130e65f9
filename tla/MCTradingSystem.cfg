SPECIFICATION FairSystemSpec
CONSTANTS
  c1 = c1
  c2 = c2
  ClientIds <- MCClientIds
  Prices <- MCPrices
  Quantities <- MCQuantities
  MaxEntered = 2
  MaxCancels = 1
  MaxQueued = 2
INVARIANTS
  CancelMeansWhatWasSeen
PROPERTIES
  OrdersNeverReturn
  ViewsConverge
