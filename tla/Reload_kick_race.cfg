CONSTANTS
  c1 = c1
  c2 = c2
  i1 = i1
  i2 = i2
  Clients = {c1, c2}
  Inbounds = {i1, i2}
  Outbounds = {}
  Rules = {}
  InboundOf <- OwnInbounds
  Refused = {}
  Handlers = {h1}
  Enforcer = Enforcer
  Inodes = {n1, n2, n3, n4}
  Gone = Gone
  Empty = Empty
  Torn = Torn
  Limits <- Calm
SPECIFICATION FairSpec
PROPERTY Kicked
CHECK_DEADLOCK FALSE
