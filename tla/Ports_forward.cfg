CONSTANTS
  TcpPorts <- Tcp
  UdpPorts <- Udp
  SshPort = 1
  PopPort = 2
  Egresses = {eth0, eth1}
  Elsewhere = Elsewhere
  MaxInstalled = 2
  MaxSpent = 2
SPECIFICATION Spec
SYMMETRY Alike
INVARIANTS MailStaysBlocked
CHECK_DEADLOCK FALSE
