SPECIFICATION Spec
CONSTANTS
  p1 = p1
  p2 = p2
  p3 = p3
  h1 = h1
  h2 = h2
  a1 = a1
  a2 = a2
  m1 = m1
  Zero = Zero
  Procs = {p1, p2}
  Hosts = {h1, h2}
  HostOf <- HostsApart
  Addrs = {a1, a2}
  Masks = {m1}
  Timeout = 1
  QueueCap = 2
  MaxLost = 0
  MaxDup = 0
  UseIpTime = 2
  PoolConfig <- OneAddress
  Prompt = TRUE
  OneClientPerHost = TRUE
PROPERTIES
  HangupReleases
