CONSTANTS
  Networks = {n1}
  NoNetwork = NoNetwork
  Servers = {s1}
  Unix = {}
  Socks = {k1}
  NoSock = NoSock
  IdentFile = TRUE
  HooksAbort = FALSE
SPECIFICATION Spec
INVARIANT PausedForNetwork
