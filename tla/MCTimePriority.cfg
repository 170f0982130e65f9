SPECIFICATION Spec
CONSTANTS
  c1 = c1
  ClientIds <- MCClientIds
  Prices <- MCPrices
  Quantities <- MCQuantities
  MaxOrders = 4
PROPERTIES
  TimePriority
