SPECIFICATION MCLive
CONSTANTS
  None = None
  Runs = {r1, r2}
  r1 = r1
  r2 = r2
  REORG_REPLAY = 1
  MaxBlock = 3
  Wallets = {alice, bob}
  alice = alice
  bob = bob
  Positions = {p1}
  p1 = p1
  beneficiary = alice
  owner = bob
  Bidders = {alice, bob}
  MaxBids = 1
  Journeys = {"overlap", "reorg", "auction"}
  MaxFaults = 1
INVARIANTS
  
  LapsedIsWarned
  

  
  
CHECK_DEADLOCK FALSE
