-------------------------- MODULE MCCoderMixer2MT --------------------------
(***************************************************************************)
(* Two shapes of folders: a chain of coders (for example a cipher, LZMA    *)
(* and a branch filter) and a coder with two input streams (as BCJ2).      *)
(***************************************************************************)
EXTENDS CoderMixer2MT, TLC

CONSTANTS b1, b2

\* Coder 1 writes to coder 2, which writes to coder 3.
chain == [in |-> (b1 :> 2) @@ (b2 :> 3), out |-> (b1 :> 1) @@ (b2 :> 2), progress |-> 3]

\* Coders 1 and 3 write to coder 2.
join == [in |-> (b1 :> 2) @@ (b2 :> 2), out |-> (b1 :> 1) @@ (b2 :> 3), progress |-> 2]

mcBindInfo == {chain, join}
=============================================================================
