SPECIFICATION MCSpec
CONSTANTS
  None = None
  Absent = Absent
  Nobody = Nobody
  Runs = {r1}
  r1 = r1
  REORG_REPLAY = 1
  MaxBlock = 4
  Bids = {a}
  a = a
  Tabs = {t1, t2}
  t1 = t1
  t2 = t2
  Scans = {s1, s2}
  s1 = s1
  s2 = s2
  Tokens = {k1}
  k1 = k1
  MaxListings = 1
  MaxEvents = 1
  Profiles = {p1}
  p1 = p1
  Wallets = {w1}
  w1 = w1
  Nonces = {n1}
  n1 = n1
  Requests = {v1}
  v1 = v1
  Journeys = {"tabs"}
  MaxFaults = 0
INVARIANTS
  PrefixIsWhole
CHECK_DEADLOCK FALSE
