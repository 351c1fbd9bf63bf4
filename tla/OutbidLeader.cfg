SPECIFICATION MCSpec
CONSTANTS
  None = None
  Runs = {r1}
  r1 = r1
  REORG_REPLAY = 1
  MaxBlock = 3
  Wallets = {alice, bob}
  alice = alice
  bob = bob
  Positions = {p1}
  p1 = p1
  beneficiary = alice
  owner = bob
  Bidders = {alice, bob}
  MaxBids = 1
  Journeys = {"auction"}
  MaxFaults = 0
INVARIANTS
  OutbidIsOutbid
CHECK_DEADLOCK FALSE
