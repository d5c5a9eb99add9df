----------------------------- MODULE MCUploads -----------------------------
(* Uploads with one or two browsers; see the configurations.               *)
EXTENDS Uploads

CONSTANTS c1, c2
=============================================================================
