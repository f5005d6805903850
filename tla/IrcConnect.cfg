CONSTANTS
  Networks = {n1, n2}
  NoNetwork = NoNetwork
  Servers = {s1, s2}
  Unix = {s2}
  Socks = {k1, k2, k3}
  NoSock = NoSock
  IdentFile = TRUE
  HooksAbort = TRUE
SPECIFICATION PartsSpec
INVARIANTS NoneForgotten QueueSound SockOwned PauseBalanced
PROPERTY NetworksTry
