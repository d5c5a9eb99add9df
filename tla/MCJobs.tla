------------------------------- MODULE MCJobs -------------------------------
(* Small instances of Jobs for TLC.                                        *)
EXTENDS Jobs

CONSTANT r1  \* a request thread

MCTypes     == {"scan", "copy"}
MCExclusive == {"scan"}
OneRequest  == {r1}
=============================================================================
