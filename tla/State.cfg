CONSTANTS
  Clients = {1, 2}
  Peers = {"p", "q"}
  Mods = {"none", "autoattach", "flooddetach", "clearbufferonmsg", "buffextras", "savebuff"}
  Sizes = {0, 1}
  DefaultSize = 1
  MaxQueryBuffers = 1
  NoticeLines = 1
  FloodLines = 2
  MaxLines = 3
  MaxChanges = 1
  Socks = {1, 2}
  Browsers = {"b1", "b2"}
  IPs = {"i1", "i2"}
  m_uiMaxSessions = 0
  ProtectWebSessions = TRUE
  MaxSessions = 2
  Plugins = {"a", "b", "c"}
  Overrides <- HookOverridden
  Events = {"OnUserTextMessage", "OnChanPermission3"}
  Kinds = {"job"}
  Conns = {1}
  AnonIPLimit = 1
  MaxListeners = 2
  MaxEntries = 2
  MaxMessages = 2
SPECIFICATION PartsSpec
INVARIANTS NoLineLost Durable NoOrphans
PROPERTY DenyHolds
CHECK_DEADLOCK FALSE
