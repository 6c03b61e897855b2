SPECIFICATION FairSpec
CONSTANTS
  d1 = d1
  d2 = d2
  demo = demo
  n1 = n1
  n2 = n2
  n3 = n3
  uni = uni
  u1 = u1
  s1 = s1
  s2 = s2
  Nothing = Nothing
  Clients = {c1}
  Events = {1, 2, 3, 4, 5}
  Diplomas = {d1, d2, demo}
  Logins = {n1, n2, n3, uni}
  Universities = {u1}
  Diploma <- MCDiploma
  Number <- MCNumber
  Complete <- MCComplete
  Seeds <- MCSeeds
  SeedIds = {s1, s2}
  TokenTTL = 2
  MaxTime = 3
  MaxCalls = 2
  MaxFaults = 1
INVARIANTS TypeOK SessionKeepsItsAccount ProcessedCanLogIn CallsNameTheirOwner LinksAreAccounted
PROPERTIES StaleSessionsEnd
