\* The matching engine against price-time priority.
CONSTANTS
  MaxPrice = 3
  Prices <- MCPrices
  Quantities <- MCQuantities
  MaxId = 4
SPECIFICATION FairSpec
INVARIANTS TypeOK BookConsistent Uncrossed TimePriority SweepInOrder
PROPERTIES MarketAllOrNothing SubmitTerminates ImplementsPriority
