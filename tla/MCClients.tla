----------------------------- MODULE MCClients -----------------------------
(* Clients with one or two PCs; see the configurations.                    *)
EXTENDS Clients

CONSTANTS p, q, r1, r2
=============================================================================
