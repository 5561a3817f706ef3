-------------------------- MODULE MCBZip2EncoderMt --------------------------
(* Instances of BZip2EncoderMt for TLC. *)
EXTENDS BZip2EncoderMt
=============================================================================
