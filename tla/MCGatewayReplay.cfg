\* A nonce that expires before its order.
CONSTANTS
  alice = alice
  bob = bob
  carol = carol
  base = base
  quote = quote
  Users = {alice, bob}
  Tokens <- MCTokens
  base_token <- base
  quote_token <- quote
  Word = 100
  MaxPrice = 3
  Prices <- MCPrices
  Quantities <- MCQuantities
  MaxId = 3
  Scale = 1
  Requests <- UnevenRequests
  Cancels <- NoCancels
  Deposits <- PartialDeposits
  NonceExpiry = 0
  DbMayFail = FALSE
  MaxCrashes = 1
  MaxTime = 1
SPECIFICATION Spec
INVARIANT AcceptedOnce
CHECK_DEADLOCK FALSE
