SPECIFICATION MCSpec
CONSTANTS
  r1 = r1
  r2 = r2
  o1 = o1
  o2 = o2
  e1 = e1
  e2 = e2
  a1 = a1
  a2 = a2
  p1 = p1
  w1 = w1
  w2 = w2
  s1 = s1
  s2 = s2
  None = None
  Requests = {r1, r2}
  Orgs = {o1, o2}
  Evidence = {e1}
  Approvers = {a1, a2}
  Proxies = {}
  Workers = {w1, w2}
  Sessions = {s1, s2}
  MaxVersion = 7
  MaxAttempts = 1
  subject = r1
  MaxCodes = 2
  MaxLag = 1
  Journeys = {"release"}
CONSTRAINT FewStale
INVARIANTS
  ApprovalBindsChain
CHECK_DEADLOCK FALSE
