---------------------------- MODULE MCIrcConnect ----------------------------
(***************************************************************************)
(* IrcConnect for TLC.  A behaviour moves one of two parts: in "names" the  *)
(* servers have names, and modules other than identfile abort nothing; in   *)
(* "unix" they are unix sockets, which may fail to open, and modules may    *)
(* abort any attempt.                                                       *)
(***************************************************************************)
EXTENDS IrcConnect

VARIABLE part

Nm == INSTANCE IrcConnect WITH Servers <- Servers \ Unix, Unix <- {}, HooksAbort <- FALSE
Ux == INSTANCE IrcConnect WITH Servers <- Unix, HooksAbort <- TRUE

PartsInit == part \in {"names", "unix"} /\ Init

PartsNext == \/ part = "names" /\ Nm!Next /\ UNCHANGED part
             \/ part = "unix" /\ Ux!Next /\ UNCHANGED part

PartsSpec == /\ PartsInit /\ [][PartsNext]_<<part, vars>>
             /\ part = "names" => Nm!Fairness
-----------------------------------------------------------------------------
\* Where no module aborts attempts, a network that wants a connection in the end tries one
\* (CConnectQueueTimer::RunJob), with the exceptions that NetworkTries names.
NetworksTry == part = "names" => NetworkTries
=============================================================================
