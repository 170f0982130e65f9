SPECIFICATION FairAuditSpec
CONSTANTS
  c1 = c1
  c2 = c2
  Nobody = Nobody
  NoOrder = NoOrder
  ClientIds <- MCClientIds
  Prices <- OnePrice
  Quantities <- SignedQuantities
  ReportAt = 9
  MaxOrders = 3
PROPERTIES
  ExchangeProgress
  OrderHandled
