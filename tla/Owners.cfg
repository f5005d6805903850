CONSTANTS
  Socks = {k1, k2}
  NoConn = NoConn
  Users = {"adm", "usr"}
  Names = {"n", "N", "m"}
  Values = {"x"}
  MaxNetworks = 1
  MaxNets = 2
  MaxClients = 1
SPECIFICATION PartsSpec
INVARIANTS JobsMatchTask MarksExact FamiliesMatch References
PROPERTY LookupEnds
