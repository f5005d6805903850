CONSTANTS
  Users = {"a", "b"}
  MaxKeys = 2
  MaxWire = 1
  Half = 4
  Bursts = {1, 2, 3, 5}
  MaxLines = 6
  Clients = {1, 2}
  MaxRequests = 4
  Holders = {"h"}
  Others = {"o"}
  MaxChanges = 5
  Cases = {{"a", "A"}, {"b"}, {"c"}}
  MaxClients = 2
  Word = 16
  Window = 4
  Packet = 2
  MaxFile = 15
  MaxWriteBuffer = 3
  MaxDCCBuffer = 3
  MinDCCBuffer = 1
  MaxWild = 3
  MaxString = 4
  MaxLine = 5
  MaxValue = 3
SPECIFICATION PartsSpec
INVARIANTS TrafficRight TextRight KeysAgree
PROPERTIES NextServerKept AllSent RequestsServed HolderOpped TransferEnds
CHECK_DEADLOCK FALSE
