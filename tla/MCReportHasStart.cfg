SPECIFICATION Spec
CONSTANTS
  c1 = c1
  c2 = c2
  Nobody = Nobody
  NoOrder = NoOrder
  ClientIds <- MCClientIds
  Prices <- MCPrices
  Quantities <- MCQuantities
  ReportAt = 2
  MaxOrders = 3
INVARIANTS
  ReportHasStart
