SPECIFICATION MCSpec
CONSTANTS
  c1 = c1
  c2 = c2
  c3 = c3
  t1 = t1
  t2 = t2
  alice = alice
  bob = bob
  r1 = r1
  r2 = r2
  Cards = {c1, c2, c3}
  Tokens = {t1, t2}
  TokenOf <- SharedToken
  SenderOf <- SentByAlice
  LegacyCards = {}
  LiveCards = {c3}
  Users = {alice, bob}
  Escrow = Escrow
  Reqs = {r1, r2}
  None = None
  Other = Other
  Orphan = Orphan
  Handlers = {"prepare", "confirm", "resume", "claim", "cancel"}
  Faults = {"crash", "drop", "other", "expire"}
  MaxStarts = 3
  MaxTxs = 2
  Journeys = {"setup", "handoff"}
  MaxCodes = 2
SYMMETRY Setups
INVARIANTS
  TypeOK
  ActiveIsBacked
  ClaimedIsDelivered
PROPERTIES
  FinishedStays
  LiveCodeStays
CHECK_DEADLOCK FALSE
