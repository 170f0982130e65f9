SPECIFICATION AuditSpec
CONSTANTS
  c1 = c1
  c2 = c2
  Nobody = Nobody
  NoOrder = NoOrder
  ClientIds <- MCClientIds
  Prices <- MCPrices
  Quantities <- MCQuantities
  ReportAt = 9
  MaxOrders = 3
SYMMETRY Symmetry
INVARIANTS
  NoQuantityLost
  PositionsMatchFills
  LimitsHonoured
  CostBasisIdentity
PROPERTIES
  ImplementsExchange
  CancelIsFinal
