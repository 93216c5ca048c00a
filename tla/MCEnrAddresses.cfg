\* Every option combination, two address updates: selection and record.
CONSTANTS
  pub1 = pub1  priv1 = priv1  lo = lo  any = any  dnsA = dnsA
  self = self  relay = relay  flags = flags
  NoIP = NoIP
  IPs <- MCIPs
  IPClass <- MCIPClass
  Loopback = lo
  DnsNames = {dnsA}
  Ports <- MCPorts
  PeerIDs = {self, relay}
  WakuFlags = flags
  ListenAddrs <- MCListenAddrs
  UdpPorts <- MCUdpPorts
  AdvertiseAddrs <- MCAdvertiseAddrs
  MaxSetups = 2
SPECIFICATION Spec
INVARIANT TypeOK SelectionMatchesReference
\* The node makes a bounded number of address updates and then stops.
CHECK_DEADLOCK FALSE
