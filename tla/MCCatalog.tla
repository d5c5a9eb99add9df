----------------------------- MODULE MCCatalog -----------------------------
(* Catalog with one ISO.                                                   *)
EXTENDS Catalog

\* What races most with the copies.
Racing == {"cache on", "cache off", "enable", "reorder", "clear all", "forget"}

\* What makes a difference to a copy or a mount that fails or dies.
Breaking == {"cache on", "clear", "enable", "disable", "forget", "scan"}

Both == Racing \union Breaking

CONSTANTS a, r1, r2
=============================================================================
