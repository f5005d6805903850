SPECIFICATION Spec
CONSTANTS IPs = {"i1","i2"} Conns = {1,2,3} AnonIPLimit = 1 MaxListeners = 2
INVARIANT AnonLimit
CHECK_DEADLOCK FALSE
