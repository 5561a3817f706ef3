----------------------------- MODULE ToExtract -----------------------------
(***************************************************************************)
(* The parameters of an extraction: archives, and what the user has.       *)
(***************************************************************************)
EXTENDS Integers, Sequences

CONSTANTS
  ItemName,    \* the names of items
  Archives,    \* bound: the archives, [items, folders] where folders holds
               \* NumUnpackStreams of each folder
  Disks,       \* bound: what is on disk before, contents of each path
  MaxSuffix    \* bound: file_1 .. file_MaxSuffix stand for file_(2^30)

\* Paths are pairs: the name and the suffix of AutoRenamePath, 0 without.
DiskPath == ItemName \X (0..MaxSuffix)
\* An item of size 0 has no stream, and so no CRC; an item with a stream has one if
\* the archive stores it.
ArchiveItem == [size : Nat, anti : BOOLEAN, path : ItemName, crcDefined : BOOLEAN]

\* What an archive says was found consistent when it was opened: each stream is
\* in a folder.  Folders without a stream, which have nothing to extract, are left
\* out.
ASSUME ExtractAssumption ==
  /\ MaxSuffix \in Nat \ {0} /\ Disks \subseteq [DiskPath -> Seq(Int)]
  /\ Archives \subseteq [items : Seq(ArchiveItem), folders : Seq(Nat \ {0})]
=============================================================================
