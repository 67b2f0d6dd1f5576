------------------------------ MODULE MCBlacklist ------------------------------
EXTENDS Blacklist

SoftBans2 == [f \in FaultType |-> IF f = "NETWORK" THEN 2 ELSE 1]
AutoBans2 == [f \in FaultType |-> IF f = "NETWORK" THEN 3 ELSE 2]
================================================================================
