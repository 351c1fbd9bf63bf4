SPECIFICATION MCPatient
CONSTANTS
  c1 = c1
  c2 = c2
  c3 = c3
  t1 = t1
  t2 = t2
  alice = alice
  bob = bob
  r1 = r1
  r2 = r2
  Cards = {c1}
  Tokens = {t1}
  TokenOf <- OneToken
  SenderOf <- SentByAlice
  LegacyCards = {}
  LiveCards = {c1}
  Users = {alice, bob}
  Escrow = Escrow
  Reqs = {r1, r2}
  None = None
  Other = Other
  Orphan = Orphan
  Handlers = {"claim", "cancel"}
  Faults = {"crash"}
  MaxStarts = 2
  MaxTxs = 1
  Journeys = {"claim"}
  MaxCodes = 1
PROPERTIES
  UnsubmittedIsReopened
CHECK_DEADLOCK FALSE
