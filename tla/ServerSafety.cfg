SPECIFICATION FairSpec
CONSTANTS
  p1 = p1
  p2 = p2
  h1 = h1
  h2 = h2
  a1 = a1
  a2 = a2
  m1 = m1
  m2 = m2
  Zero = Zero
  Procs = {p1, p2}
  Hosts = {h1, h2}
  HostOf <- TwoHosts
  Addrs = {a1, a2}
  Masks = {m1, m2}
  QueueCap = 1
  MaxLost = 0
  MaxDup = 0
  UseIpTime = 2
  PoolConfig <- TwoAddresses
  Timeout = 2
  EnvPackets <- ClientPackets
  EnvProcs = {}
INVARIANTS
  LeaseTableConsistent
  OneRecordPerHost
PROPERTIES
  OfferResolves
  LeaseEndsWithoutGrants
  HandoverThroughPool
  ImplementsAddressLeases
