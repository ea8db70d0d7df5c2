\* Batches, failures and crashes in front of a contract.
CONSTANTS
  alice = alice
  bob = bob
  base = base
  quote = quote
  Users = {alice, bob}
  Tokens <- MCTokens
  Word = 100
  Scale = 1
  Deposited <- MCDeposited
  Transfers <- MCTransfers
  MaxHeld = 4
  MaxTime = 1
  Trades <- MCTrades
  Cancels <- MCCancels
  MaxFaults = 2
SPECIFICATION Spec
INVARIANTS TypeOK NoOrderSettledTwice TradesAccounted NothingForgotten Solvent CancelsReachChain
PROPERTIES ImplementsLifecycle BatchesDrained
CHECK_DEADLOCK FALSE
