--------------------------- MODULE MCPrimerClients ---------------------------
(* Model values for PrimerClients. *)
EXTENDS PrimerClients
CONSTANTS t1, t2, t3, k1, k2, l1, l2, l3
MCTask == {t1, t2, t3}
MCKey == {k1, k2}
MCLease == {l1, l2, l3}
=============================================================================
