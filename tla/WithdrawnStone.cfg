SPECIFICATION MCSpec
CONSTANTS
  None = None
  s1 = s1
  s2 = s2
  k1 = k1
  k2 = k2
  b1 = b1
  w1 = w1
  w2 = w2
  ann = ann
  bob = bob
  cyd = cyd
  x = x
  y = y
  Users = {ann, bob, cyd}
  Stones = {x, y}
  Refusers = {bob}
  Prices = {1, 2}
  MaxOffers = 2
  MaxSwaps = 2
  MaxTime = 2
  Submissions = {s1, s2}
  Workers = {w1, w2}
  Keys = {k1, k2}
  Bidders = {b1}
  DailyLimit = 1
  Stamps = {1, 2, 3}
  MaxAttempts = 3
  MaxRounds = 2
  MaxSent = 2
  MaxOpened = 4
  Journeys = {"leaving"}
PROPERTIES
  WithdrawnIsRefused
CHECK_DEADLOCK FALSE
