---------------------------- MODULE MCMesaCacheDb ----------------------------
EXTENDS MesaCacheDb, TLC
CONSTANTS key1, key2, key3
(* Two of the keys have the same hash.                                        *)
MChash_of == key1 :> "A" @@ key2 :> "B" @@ key3 :> "B"
MCblob_size == key1 :> 1 @@ key2 :> 2 @@ key3 :> 1
=============================================================================
