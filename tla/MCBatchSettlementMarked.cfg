\* A batch that reverts is taken for settled.
CONSTANTS
  alice = alice
  bob = bob
  base = base
  quote = quote
  Users = {alice, bob}
  Tokens <- MCTokens
  Word = 100
  Scale = 1
  Deposited <- MCDeposited
  Transfers <- MCTransfers
  MaxHeld = 4
  MaxTime = 1
  Trades <- MCTrades
  Cancels <- MCCancels
  MaxFaults = 0
SPECIFICATION Spec
INVARIANT MarkedIsSettled
CHECK_DEADLOCK FALSE
