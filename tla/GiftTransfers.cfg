SPECIFICATION MCSpec
CONSTANTS
  c1 = c1
  c2 = c2
  c3 = c3
  t1 = t1
  t2 = t2
  alice = alice
  bob = bob
  r1 = r1
  r2 = r2
  Cards = {c1, c2}
  Tokens = {t1, t2}
  TokenOf <- OwnToken
  SenderOf <- SentByAlice
  LegacyCards = {c2}
  LiveCards = {c1, c2}
  Users = {alice, bob}
  Escrow = Escrow
  Reqs = {r1, r2}
  None = None
  Other = Other
  Orphan = Orphan
  Handlers = {"claim", "cancel"}
  Faults = {"crash", "straggler", "lock", "move", "revoke"}
  MaxStarts = 3
  MaxTxs = 2
  Journeys = {"escrow", "approval"}
  MaxCodes = 1
SYMMETRY Interchangeable
INVARIANTS
  AbandonedNeverBroadcasts
  EscrowIsExplained
  HashIsOwnTransfer
  OneMovableNonce
CHECK_DEADLOCK FALSE
