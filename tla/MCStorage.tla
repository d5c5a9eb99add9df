----------------------------- MODULE MCStorage -----------------------------
(* Storage with few callers of each kind; see the configurations.          *)
EXTENDS Storage

CONSTANTS u1, u2, l1
=============================================================================
