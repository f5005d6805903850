CONSTANTS
  NoChan = NoChan
  Conf = "conf"
  Alt = "alt"
  Stranger = "str"
  JoinTries = 1
  MaxOut = 2
  MaxWire = 2
  MaxEvents = 3
  Caps = {x, sasl}
  Wanted = {x, sasl}
  Dependent = {x}
  Sasl = sasl
  NumMechs = 2
  UIntMod = 8
  MaxChanges = 2
  MaxConns = 2
SPECIFICATION PartsSpec
INVARIANTS Mirror Agreement NothingMissed NegotiationOrdered
PROPERTIES KeepNickGets NegotiationEnds
CHECK_DEADLOCK FALSE
