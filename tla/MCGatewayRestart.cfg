\* Crashes at any step, recovery, expired orders.
CONSTANTS
  alice = alice
  bob = bob
  carol = carol
  base = base
  quote = quote
  Users = {alice, bob}
  Tokens <- MCTokens
  base_token <- base
  quote_token <- quote
  Word = 100
  MaxPrice = 3
  Prices <- MCPrices
  Quantities <- MCQuantities
  MaxId = 5
  Scale = 1
  Requests <- RestartRequests
  Cancels <- RestartCancels
  Deposits <- RestartDeposits
  NonceExpiry = 1
  DbMayFail = FALSE
  MaxCrashes = 2
  MaxTime = 2
SPECIFICATION Spec
INVARIANTS TypeOK MakersKnown FundsConserved ReservedCoversBook NoOverfill AcceptedOnce Durable
PROPERTIES EngineContract
CHECK_DEADLOCK FALSE
