---------------------------- MODULE MC_FileCache ----------------------------
(* Model values, paths and bounds for checking FileCache with TLC.         *)
EXTENDS FileCache, TLC

CONSTANTS g1, g2, k1, k2, f1, f2, d1

TwoClients == {g1, g2}
OneClient == {g1}
TwoKeys == {k1, k2}
\* A one-byte and a two-byte value, so that overlaid writes show.
ShortLong == {<<"x">>, <<"y", "y">>}
\* The md5 of both keys starts with the same two hex digits: one directory.
KeyPath == (k1 :> f1) @@ (k2 :> f2)
OneDir == (f1 :> d1) @@ (f2 :> d1)
PutOnly == {"Put"}
PutGet == {"Put", "Get"}
AllOps == {"Put", "Get", "Delete", "IsExist", "Flush"}
=============================================================================
