----------------------------- MODULE OldFolders -----------------------------
(***************************************************************************)
(* The parameters of an update of a 7z archive that takes over folders of  *)
(* the old one.                                                            *)
(***************************************************************************)
EXTENDS Integers, Sequences

CONSTANTS
  Databases,   \* bound: old archives, a folder is a sequence of files
  Freed        \* what reading freed memory does in this build: "old", "crash"

OldFile == [size : Nat, wanted : BOOLEAN]

\* A folder that is taken over has files.
ASSUME RepackAssumption ==
  Databases \subseteq Seq(Seq(OldFile) \ {<<>>}) /\ Freed \subseteq {"old", "crash"}
=============================================================================
