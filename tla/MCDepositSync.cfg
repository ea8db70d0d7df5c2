\* Historical and live deposits, with failures and crashes.
CONSTANTS
  alice = alice
  bob = bob
  base = base
  Users = {alice, bob}
  Tokens = {base}
  Word = 100
  Chains <- MCChains
  CHUNK_SIZE = 2
  contract_deploy_block = 1
  OrderSize = 1
  MaxLag = 1
  MaxFaults = 2
SPECIFICATION Spec
INVARIANTS TypeOK EachDepositOnce CursorMatchesRows
PROPERTIES CursorMovesForward EventuallyCredited
CHECK_DEADLOCK FALSE
