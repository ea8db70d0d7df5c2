\* A market order and the price it names.
CONSTANTS
  alice = alice
  bob = bob
  carol = carol
  base = base
  quote = quote
  Users = {alice, bob}
  Tokens <- MCTokens
  base_token <- base
  quote_token <- quote
  Word = 100
  MaxPrice = 3
  Prices <- MCPrices
  Quantities <- MCQuantities
  MaxId = 2
  Scale = 1
  Requests <- MarketRequests
  Cancels <- NoCancels
  Deposits <- PartialDeposits
  NonceExpiry = 9
  DbMayFail = FALSE
  MaxCrashes = 0
  MaxTime = 0
SPECIFICATION Spec
INVARIANT MarketPriceProtected
CHECK_DEADLOCK FALSE
