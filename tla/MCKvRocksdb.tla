---------------------------- MODULE MCKvRocksdb ----------------------------
(***************************************************************************)
(* An instance of KvRocksdb for TLC: two keys, one of them longer than the *)
(* prefix it is listed by and the other the end of that listing.           *)
(***************************************************************************)
EXTENDS KvRocksdb, TLC

LongKey == <<0, 1>>
EndKey == <<1>>

SomeKeys == {LongKey, EndKey}
SomeStarts == {<<0>>, <<1>>}
JustEndKey == {EndKey}

\* Clients are interchangeable, and every property here is about safety.
ClientSymmetry == Permutations(Clients)
=============================================================================
