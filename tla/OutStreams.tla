----------------------------- MODULE OutStreams -----------------------------
(***************************************************************************)
(* The parameters of the streams that archives are written through:        *)
(* CacheOutStream and OutMultiVolStream.                                   *)
(***************************************************************************)
EXTENDS Integers, Sequences

CONSTANTS
  CacheSize,   \* kCacheSize
  BlockSize,   \* kCacheBlockSize
  Sizes,       \* COutMultiVolStream::Sizes; the last one holds for all that follow
  Byte, Zero,  \* the values of a byte that are told apart; Zero is one of them
  Data,        \* what a call of Write is given
  MaxSize,     \* bound on the size of the file
  Places,      \* where Seek and SetSize go
  MayFail      \* when the file below may fail: "call", "release"

ASSUME OutStreamAssumption ==
  /\ BlockSize \in Nat \ {0} /\ CacheSize \in Nat /\ CacheSize % BlockSize = 0
  /\ CacheSize >= BlockSize /\ MaxSize \in Nat /\ Places \subseteq 0..MaxSize
  /\ Sizes \in Seq(Nat \ {0}) \ {<<>>}
  /\ Zero \in Byte /\ Data \subseteq Seq(Byte) /\ <<>> \notin Data
  /\ MayFail \subseteq {"call", "release"}
=============================================================================
