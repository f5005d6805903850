CONSTANTS
  Admins = {root, boss}
  Others = {}
  Listeners = {l}
  Signals = {"SIGHUP", "SIGUSR1", "SIGTERM"}
  NoFile = NoFile
  Partial = Partial
  User = "u"
  Nobody = "v"
  Networks = {"n1"}
  Mods = {"imapauth", "certauth", "blockuser", "fail2ban"}
  AllowedFailed = 2
  MaxConns = 2
  MaxLines = 6
  MaxFails = 3
SPECIFICATION PartsSpec
INVARIANTS Consistent Loadable
PROPERTIES LoginCompletes SaveHappens
CHECK_DEADLOCK FALSE
