---------------------------- MODULE MCOutStreams ----------------------------
(* All bytes written are ones, so that the zeros that fill a gap and the    *)
(* stale bytes of the ring are told apart from them.                        *)
EXTENDS OutStreams

CONSTANT MaxStore

mcData == {[k \in 1..n |-> 1] : n \in 1..MaxStore}
mcSizes == <<2, 3>>
=============================================================================
