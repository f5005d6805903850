CONSTANTS
  Socks = {1, 2}
  Browsers = {"b1", "b2"}
  IPs = {"i1", "i2"}
  m_uiMaxSessions = 0
  ProtectWebSessions = TRUE
  MaxSessions = 2
SPECIFICATION Spec
INVARIANT NotAfterDelete
CHECK_DEADLOCK FALSE
