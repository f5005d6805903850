CONSTANTS
  Socks = {k1}
  NoConn = NoConn
SPECIFICATION Spec
INVARIANT SilentDeath
