SPECIFICATION MCSpec
CONSTANTS
  None = None
  Absent = Absent
  Nobody = Nobody
  Runs = {r1, r2}
  r1 = r1
  r2 = r2
  REORG_REPLAY = 1
  MaxBlock = 4
  Bids = {a, b}
  a = a
  b = b
  Tabs = {t1}
  t1 = t1
  Scans = {s1, s2}
  s1 = s1
  s2 = s2
  Tokens = {k1}
  k1 = k1
  MaxListings = 1
  MaxEvents = 3
  Profiles = {p1, p2}
  p1 = p1
  p2 = p2
  Wallets = {w1, w2, w3}
  w1 = w1
  w2 = w2
  w3 = w3
  Nonces = {n1, n2, n3}
  n1 = n1
  n2 = n2
  n3 = n3
  Requests = {v1, v2}
  v1 = v1
  v2 = v2
  Journeys = {"ingest", "reorged", "tab", "review", "wallet"}
  MaxFaults = 1
INVARIANTS
  
  DiscoveryIsMarkets
  VerdictIsLatest
  NonceOnce
PROPERTIES
  ApprovalStands
CHECK_DEADLOCK FALSE
