CONSTANTS
  c1 = c1
  c2 = c2
  p1 = p1
  own = own
  NoPort = NoPort
  Missing = Missing
  Unread = Unread
  Conns = {c1, c2}
  Daemons = {"sslhmux", "ssltunnel", "proxy"}
  Kinds = {"ssl", "other"}
  Limits = {3, 4}
  Ports = {p1}
  Own = own
  AtFirst <- AllOrNothing
  MaxEdits = 1
  MaxFaults = 1
  MaxStops = 1
SPECIFICATION FairSpec
INVARIANTS TypeOK RoutedAsConfigured
PROPERTY AcceptsOrStops
CHECK_DEADLOCK FALSE
