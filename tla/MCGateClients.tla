---------------------------- MODULE MCGateClients ----------------------------
(* Model values for GateClients. *)
EXTENDS GateClients
CONSTANTS t1, t2, t3, t4
MCTask == {t1, t2, t3, t4}
=============================================================================
