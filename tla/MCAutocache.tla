---------------------------- MODULE MCAutocache ----------------------------
(* Autocache with three ISOs and every kind of interference.               *)
EXTENDS Autocache

CONSTANT u1

Everything == {"toggle", "share", "copy", "free", "cancel", "expiry",
                "boot"}
=============================================================================
