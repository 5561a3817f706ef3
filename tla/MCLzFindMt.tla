----------------------------- MODULE MCLzFindMt -----------------------------
(* Instances of LzFindMt for TLC.                                          *)
EXTENDS LzFindMt
=============================================================================
