\* Partial fills and rounding, without a restart.
CONSTANTS
  alice = alice
  bob = bob
  carol = carol
  base = base
  quote = quote
  Users = {alice, bob, carol}
  Tokens <- MCTokens
  base_token <- base
  quote_token <- quote
  Word = 100
  MaxPrice = 3
  Prices <- MCPrices
  Quantities <- MCQuantities
  MaxId = 6
  Scale = 2
  Requests <- PartialRequests
  Cancels <- PartialCancels
  Deposits <- PartialDeposits
  NonceExpiry = 9
  DbMayFail = TRUE
  MaxCrashes = 0
  MaxTime = 0
SPECIFICATION Spec
INVARIANTS MakersKnown FundsConserved ReservedCoversBook NoOverfill
CHECK_DEADLOCK FALSE
