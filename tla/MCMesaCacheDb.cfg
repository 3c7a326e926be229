SPECIFICATION Spec
CONSTANTS
    key1 = key1
    key2 = key2
    key3 = key3
    Procs = {p1, p2}
    Keys = {key1, key2, key3}
    hash_of <- MChash_of
    blob_size <- MCblob_size
    max_cache_size = 6
    MaxClock = 4
    MaxFaults = 1
    NULL = NULL
INVARIANTS NeverCorrupted StoredIsRead 
 
