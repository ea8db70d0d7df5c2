\* Three connections, one with a client that does not read, and two requests.
CONSTANTS
  alice = alice
  bob = bob
  one = one
  two = two
  three = three
  Addresses = {alice, bob}
  Sockets = {one, two, three}
  Signer <- MCSigner
  Stalled = {two}
  Requests <- MCRequests
SPECIFICATION Spec
INVARIANTS TypeOK RegistryExact FeedExact
PROPERTIES Delivered LockPasses
CHECK_DEADLOCK FALSE
