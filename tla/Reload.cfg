CONSTANTS
  c1 = c1
  c2 = c2
  i1 = i1
  i2 = i2
  Clients = {c1, c2}
  Inbounds = {i1, i2}
  Outbounds = {o1}
  Rules = {r1}
  InboundOf <- OwnInbounds
  Refused = {i2, o1}
  Handlers = {h1}
  Enforcer = Enforcer
  Inodes = {n1, n2, n3, n4}
  Gone = Gone
  Empty = Empty
  Torn = Torn
  Limits <- Shaky
SPECIFICATION FairSpec
INVARIANTS TypeOK NothingStranded
PROPERTY KickedUnlessRace
CHECK_DEADLOCK FALSE
