---------------------------- MODULE MCDevProfile ----------------------------
(* DevProfile for TLC: the environment draws from every kind of fault.     *)
EXTENDS DevProfile

EveryFault == AllFaults
=============================================================================
