\* A live deposit beside submissions, without a fault.
CONSTANTS
  alice = alice
  bob = bob
  base = base
  Users = {alice, bob}
  Tokens = {base}
  Word = 100
  Chains <- OneChain
  CHUNK_SIZE = 2
  contract_deploy_block = 1
  OrderSize = 1
  MaxLag = 1
  MaxFaults = 0
SPECIFICATION Spec
INVARIANT BalancesStored
CHECK_DEADLOCK FALSE
