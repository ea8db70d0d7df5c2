\* Cancel of an order that was filled in part.
CONSTANTS
  alice = alice
  bob = bob
  carol = carol
  base = base
  quote = quote
  Users = {alice, bob}
  Tokens <- MCTokens
  base_token <- base
  quote_token <- quote
  Word = 100
  MaxPrice = 3
  Prices <- MCPrices
  Quantities <- MCQuantities
  MaxId = 2
  Scale = 1
  Requests <- UnevenRequests
  Cancels <- UnevenCancels
  Deposits <- PartialDeposits
  NonceExpiry = 9
  DbMayFail = FALSE
  MaxCrashes = 0
  MaxTime = 0
SPECIFICATION Spec
INVARIANT NothingReservedWithoutOrders
CHECK_DEADLOCK FALSE
