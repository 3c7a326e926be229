----------------------------- MODULE MesaCacheDb -----------------------------
(***************************************************************************)
(* The single-file shader cache on disk (mesa_cache_db.c): a cache file of *)
(* blobs and an index file, shared by processes that each keep a hash      *)
(* table of the part of the index they have read.  A new UUID in both      *)
(* headers tells the others that the files were rewritten.                 *)
(*                                                                         *)
(* An operation holds both file locks and the mutex of the process from    *)
(* beginning to end, so that it is one step here; what it does to the      *)
(* files and to its process is computed on a record, Db.  It may also die  *)
(* halfway: the crash actions leave the files as flushed so far.  Offsets  *)
(* and sizes are in units of an entry's header.                            *)
(***************************************************************************)
EXTENDS Integers, Sequences, FiniteSets, SequencesExt

CONSTANTS Procs, Keys,
          hash_of,            \* to_mesa_cache_db_hash: may collide
          blob_size,          \* of each key
          max_cache_size,
          MaxClock,           \* bound on the time, which each access advances
          MaxFaults,          \* bound on crashes within an operation, and short writes
          NULL

ENTRY_HEADER == 1   \* sizeof(struct mesa_cache_db_file_entry)
FILE_HEADER == 1    \* sizeof(struct mesa_db_file_header)

ASSUME DbAssumption ==
    /\ IsFiniteSet(Procs) /\ IsFiniteSet(Keys)
    /\ DOMAIN hash_of = Keys /\ blob_size \in [Keys -> Nat \ {0}]
    /\ max_cache_size \in Nat /\ MaxClock \in Nat /\ MaxFaults \in Nat

Hashes == {hash_of[k] : k \in Keys}

VARIABLES
    cache,    \* the cache file: uuid (0: invalid header) and entries
    index,    \* the index file: uuid, entries, and whether half an entry follows
    db,       \* struct mesa_cache_db of each process
    clock,
    faults,
    written   \* the process and key of the last step if it was a successful write

vars == <<cache, index, db, clock, faults, written>>

blob_file_size(k) == ENTRY_HEADER + blob_size[k]

(* Entries of the cache file, complete or not, of the index file and of the   *)
(* hash table.  at is the position of an index entry.                         *)
CacheEntry == [off : Nat, key : Keys, complete : BOOLEAN]
IndexEntry == [hash : Hashes, size : Nat, time : Nat, off : Nat]
HashEntry == [size : Nat, time : Nat, off : Nat, at : Nat]

Uuids == 1 .. Cardinality(Procs) + 3

Closed == [open |-> FALSE, alive |-> FALSE, uuid |-> 0, offset |-> 0, table |-> [h \in Hashes |-> NULL]]

TypeOK ==
    /\ cache \in [uuid : Uuids \cup {0}, entries : Seq(CacheEntry)]
    /\ index \in [uuid : Uuids \cup {0}, entries : Seq(IndexEntry), torn : BOOLEAN]
    /\ db \in [Procs -> [open : BOOLEAN, alive : BOOLEAN, uuid : Uuids \cup {0}, offset : Nat,
                         table : [Hashes -> HashEntry \cup {NULL}]]]
    /\ clock \in 0 .. MaxClock
    /\ faults \in 0 .. MaxFaults
    /\ written \in (Procs \X Keys) \cup {NULL}

Init ==
    /\ cache = [uuid |-> 0, entries |-> <<>>]
    /\ index = [uuid |-> 0, entries |-> <<>>, torn |-> FALSE]
    /\ db = [p \in Procs |-> Closed]
    /\ clock = 0 /\ faults = 0 /\ written = NULL

-----------------------------------------------------------------------------
(* What operations are made of.  s is a Db: the files, the process d, and     *)
(* whether the operation has been successful so far.                          *)

Db(p) == [cache |-> cache, index |-> index, d |-> db[p], ok |-> TRUE]

Failed(s) == [s EXCEPT !.ok = FALSE]

(* mesa_db_generate_uuid: one that no file has and no process remembers.      *)
generate_uuid(s) ==
    CHOOSE u \in Uuids : u \notin {s.cache.uuid, s.index.uuid, s.d.uuid} \cup {db[p].uuid : p \in Procs}

uuid_changed_Invalid(s) == s.cache.uuid = 0 \/ s.cache.uuid # s.index.uuid
uuid_changed(s) == s.cache.uuid = 0 \/ s.cache.uuid # s.index.uuid \/ s.cache.uuid # s.d.uuid

mesa_db_zap(s) ==
    [s EXCEPT !.d.alive = FALSE, !.ok = FALSE,
              !.cache = [uuid |-> 0, entries |-> <<>>],
              !.index = [uuid |-> 0, entries |-> <<>>, torn |-> FALSE]]

recreate_files(s) ==
    LET u == generate_uuid(s)
    IN  [s EXCEPT !.d.uuid = u, !.d.offset = 0,
                  !.cache = [uuid |-> u, entries |-> <<>>],
                  !.index = [uuid |-> u, entries |-> <<>>, torn |-> FALSE]]

(* The entries that were added to the index since the last time are added to  *)
(* the hash table.                                                            *)
update_index(s) ==
    LET n == Len(s.index.entries)
        new(h) == {i \in s.d.offset + 1 .. n : s.index.entries[i].hash = h}
        entry(i) == [size |-> s.index.entries[i].size, time |-> s.index.entries[i].time,
                     off |-> s.index.entries[i].off, at |-> i]
    IN  IF n < s.d.offset THEN Failed(s)
        ELSE [s EXCEPT !.d.table = [h \in Hashes |-> IF new(h) = {} THEN @[h] ELSE entry(Max(new(h)))],
                       !.d.offset = n, !.ok = ~ s.index.torn]

(* mesa_db_load: files with different or invalid headers, or a torn index,    *)
(* are started over.                                                          *)
Headed(s) == IF s.cache.uuid # 0 /\ s.cache.uuid = s.index.uuid
             THEN [s EXCEPT !.d.uuid = s.cache.uuid, !.d.offset = 0] ELSE recreate_files(s)
Emptied(s, reload) == IF reload THEN [s EXCEPT !.d.table = Closed.table] ELSE s
Repaired(s) == IF s.ok THEN s ELSE update_index(recreate_files(s))
Revived(s) == IF s.ok THEN [s EXCEPT !.d.alive = TRUE] ELSE s

mesa_db_load(s, reload) == Revived(Repaired(update_index(Emptied(Headed(s), reload))))

mesa_db_reload(s) == mesa_db_load(s, TRUE)

(* Operations begin with a look at the headers.                               *)
Synced(s) == IF uuid_changed(s) THEN mesa_db_reload(s) ELSE s

CacheEnd(s) ==
    LET n == Len(s.cache.entries)
        e == s.cache.entries[n]
    IN  IF n = 0 THEN FILE_HEADER
        ELSE e.off + (IF e.complete THEN blob_file_size(e.key) ELSE ENTRY_HEADER)

(* The cache entries that begin at an offset: one, or none.                   *)
EntryAt(s, off) == {e \in Range(s.cache.entries) : e.off = off}

-----------------------------------------------------------------------------
(* mesa_db_compact *)

Live(s) == {s.d.table[h] : h \in {g \in Hashes : s.d.table[g] # NULL}}

FileSize(E) == MapThenSumSet(LAMBDA e : ENTRY_HEADER + e.size, E)

(* Entries are evicted from the least recently used one on, until amount is   *)
(* reached.                                                                   *)
Evicted(s, amount) == {e \in Live(s) : FileSize({f \in Live(s) : f.time < e.time}) < amount}

(* The sanity checks: the entries of the hash table follow each other in the  *)
(* cache file from its header on, in the order of the index, and the ones     *)
(* that have to be moved are there.                                           *)
Sane(s, out) ==
    LET E == Live(s)
        Before(e) == {f \in E : f.off < e.off}
        moved == {e \in E \ out : Before(e) \cap out # {}}
    IN  /\ ~ uuid_changed(s)
        /\ \A e, f \in E : e.off = f.off => e = f
        /\ \A e \in E : e.off = FILE_HEADER + FileSize(Before(e))
        /\ \A e \in moved :
              /\ \E x \in EntryAt(s, e.off) : x.complete
              /\ LET i == Cardinality(Before(e)) + 1
                 IN  i <= Len(s.index.entries) /\ s.index.entries[i].off = e.off /\ s.index.entries[i].size = e.size

(* Without a new UUID.                                                        *)
Compacted_SameUuid(s, out) ==
    LET kept == {e.off : e \in Live(s) \ out}
        moved(off) == FILE_HEADER + FileSize({e \in Live(s) \ out : e.off < off})
        shift(x) == [x EXCEPT !.off = moved(@)]
        rewritten(entries) == LET keep(x) == x.off \in kept
                                  rest == SelectSeq(entries, keep)
                              IN  [i \in DOMAIN rest |-> shift(rest[i])]
        u == s.d.uuid
    IN  [s EXCEPT !.cache = [uuid |-> u, entries |-> rewritten(@.entries)],
                  !.index = [uuid |-> u, entries |-> rewritten(@.entries), torn |-> FALSE],
                  !.d.uuid = u]

Compacted(s, out) ==
    LET kept == {e.off : e \in Live(s) \ out}
        moved(off) == FILE_HEADER + FileSize({e \in Live(s) \ out : e.off < off})
        shift(x) == [x EXCEPT !.off = moved(@)]
        rewritten(entries) == LET keep(x) == x.off \in kept
                                  rest == SelectSeq(entries, keep)
                              IN  [i \in DOMAIN rest |-> shift(rest[i])]
        u == generate_uuid(s)
    IN  [s EXCEPT !.cache = [uuid |-> u, entries |-> rewritten(@.entries)],
                  !.index = [uuid |-> u, entries |-> rewritten(@.entries), torn |-> FALSE],
                  !.d.uuid = u]

CompactFiles(s, out) ==
    CASE Live(s) = {} -> s
      [] Live(s) # {} /\ Sane(s, out) -> mesa_db_reload(Compacted(s, out))
      [] OTHER -> Failed(s)
Compact(s, amount, remove) == CompactFiles(s, remove \cup Evicted(s, amount))


mesa_db_compact(s, amount, remove) ==
    Compact(IF remove = {} THEN mesa_db_reload(s) ELSE s, amount, remove)

-----------------------------------------------------------------------------
(* The operations, from lock to unlock *)

Found(s, k) == s.d.table[hash_of[k]]

(* mesa_cache_db_read_entry until the blob has been read and checked.         *)
Hit(s, k) ==
    LET e == Found(s, k)
        x == EntryAt(s, e.off)
    IN  /\ e # NULL /\ x # {}
        /\ \A y \in x : y.key = k /\ y.complete

(* It is fatal if the table's entry is not there, or not complete.            *)
Broken(s, k) ==
    LET e == Found(s, k)
        x == EntryAt(s, e.off)
        i == s.index.entries[e.at]
    IN  /\ e # NULL
        /\ \/ x = {}
           \/ \E y \in x : y.key = k /\ ~ y.complete
           \/ Hit(s, k) /\ (e.at > Len(s.index.entries) \/ i.off # e.off \/ i.size # e.size)

Touched(s, k, now) ==
    [s EXCEPT !.index.entries[Found(s, k).at].time = now, !.d.table[hash_of[k]].time = now]

ReadBlob(s, k, now) ==
    CASE ~ s.ok \/ Broken(s, k) -> mesa_db_zap(s)
      [] s.ok /\ ~ Broken(s, k) /\ Hit(s, k) -> Touched(s, k, now)
      [] OTHER -> Failed(s)

read_entry(s, k, now) == ReadBlob(update_index(Synced(s)), k, now)

has_space(s, k) == CacheEnd(s) + blob_file_size(k) - FILE_HEADER <= max_cache_size

eviction_size == max_cache_size \div 2 - FILE_HEADER

(* How much mesa_cache_db_entry_write has mesa_db_compact free.               *)
ToEvict(k) == Max({blob_size[k], eviction_size})

(* mesa_cache_db_entry_write up to the point where the entry is appended.     *)
WithSpace(s, k) == IF has_space(s, k) THEN update_index(s) ELSE mesa_db_compact(s, ToEvict(k), {})
Unlisted(s, k) == IF ~ s.ok THEN mesa_db_zap(s)
                  ELSE IF Found(s, k) # NULL THEN Failed(s) ELSE s

Prepared(s, k) == Unlisted(WithSpace(Synced(s), k), k)

AppendCache(s, k, complete) ==
    [s EXCEPT !.cache.entries = Append(@, [off |-> CacheEnd(s), key |-> k, complete |-> complete])]


AppendIndex(s, t, k, now) ==
    LET at == Len(s.index.entries) + 1
    IN  [t EXCEPT !.index.entries = Append(@, [hash |-> hash_of[k], size |-> blob_size[k], time |-> now, off |-> CacheEnd(s)]),
                  !.d.table[hash_of[k]] = [size |-> blob_size[k], time |-> now, off |-> CacheEnd(s), at |-> at],
                  !.d.offset = at]

WriteBlob(s, k, now) == IF s.ok THEN AppendIndex(s, AppendCache(s, k, TRUE), k, now) ELSE s

entry_write(s, k, now) == WriteBlob(Prepared(s, k), k, now)

OrZapped(s) == IF s.ok THEN s ELSE mesa_db_zap(s)

RemoveBlob(s, k) ==
    LET e == Found(s, k)
        x == EntryAt(s, e.off)
    IN  CASE ~ s.ok -> mesa_db_zap(s)
          [] s.ok /\ e = NULL -> Failed(s)
          [] s.ok /\ e # NULL /\ x = {} -> mesa_db_zap(s)
          [] s.ok /\ e # NULL /\ (\E y \in x : y.key # k) -> Failed(s)
          [] OTHER -> OrZapped(mesa_db_compact(s, 0, {e}))

entry_remove(s, k) == RemoveBlob(update_index(Synced(s)), k)

-----------------------------------------------------------------------------

(* What an operation of p leaves behind.                                      *)
Becomes(p, s) ==
    /\ cache' = s.cache /\ index' = s.index
    /\ db' = [db EXCEPT ![p] = s.d]

(* Only an access that succeeds is recorded with the time.                    *)
Ticks(s) == clock < MaxClock /\ clock' = IF s.ok THEN clock + 1 ELSE clock

Open(p) ==
    /\ ~ db[p].open
    /\ Becomes(p, mesa_db_load([Db(p) EXCEPT !.d.open = TRUE], FALSE))
    /\ written' = NULL /\ UNCHANGED <<clock, faults>>

(* mesa_cache_db_close, or the process dies between two operations.           *)
Close(p) ==
    /\ db[p].open
    /\ db' = [db EXCEPT ![p] = Closed]
    /\ written' = NULL /\ UNCHANGED <<cache, index, clock, faults>>

ReadEntry(p, k) ==
    /\ db[p].alive
    /\ \E s \in {read_entry(Db(p), k, clock + 1)} : Ticks(s) /\ Becomes(p, s)
    /\ written' = NULL /\ UNCHANGED faults

EntryWrite(p, k) ==
    /\ db[p].alive
    /\ \E s \in {entry_write(Db(p), k, clock + 1)} :
          Ticks(s) /\ Becomes(p, s) /\ written' = IF s.ok THEN <<p, k>> ELSE NULL
    /\ UNCHANGED faults

EntryRemove(p, k) ==
    /\ db[p].alive
    /\ Becomes(p, entry_remove(Db(p), k))
    /\ written' = NULL /\ UNCHANGED <<clock, faults>>

(* mesa_cache_db_eviction_score *)
EvictionScore(p) ==
    /\ db[p].alive
    /\ Becomes(p, mesa_db_reload(Db(p)))
    /\ written' = NULL /\ UNCHANGED <<clock, faults>>

-----------------------------------------------------------------------------
(* Faults *)

Fault == faults < MaxFaults /\ faults' = faults + 1 /\ written' = NULL

(* The process dies while it writes an entry: part of the cache entry, all of *)
(* it, or half of the index entry too is in the files.                        *)
CrashInWrite(p, k) ==
    /\ db[p].alive
    /\ \E s \in {Prepared(Db(p), k)} :
        /\ s.ok /\ Fault
        /\ \E complete, torn \in BOOLEAN :
              /\ torn => complete
              /\ cache' = AppendCache(s, k, complete).cache
              /\ index' = [s.index EXCEPT !.torn = torn]
        /\ db' = [db EXCEPT ![p] = Closed]
        /\ UNCHANGED clock

(* It dies in the middle of mesa_db_compact, when one header is invalid, or   *)
(* both.  The contents, in whatever state, are those of before here: no       *)
(* process looks at them until it has started over.                           *)
CrashInCompact(p) ==
    /\ db[p].alive
    /\ \E s \in {update_index(Synced(Db(p)))} :
        /\ s.ok /\ Live(s) # {} /\ Fault
        /\ \E u \in {<<0, s.index.uuid>>, <<0, 0>>, <<generate_uuid(s), 0>>} :
              /\ cache' = [s.cache EXCEPT !.uuid = u[1]]
              /\ index' = [s.index EXCEPT !.uuid = u[2]]
        /\ db' = [db EXCEPT ![p] = Closed]
        /\ UNCHANGED clock

(* The disk is full: fwrite notices, or fflush, whose result is ignored,      *)
(* writes a part of the cache entry and then the smaller index entry.         *)
ShortWrite(p, k) ==
    /\ db[p].alive
    /\ \E s \in {Prepared(Db(p), k)} :
        /\ s.ok /\ Fault /\ Ticks(s)
        /\ \/ Becomes(p, mesa_db_zap(s))
           \/ Becomes(p, AppendIndex(s, AppendCache(s, k, FALSE), k, clock + 1))

Next ==
    \E p \in Procs :
        \/ Open(p) \/ Close(p) \/ EvictionScore(p) \/ CrashInCompact(p)
        \/ \E k \in Keys : ReadEntry(p, k) \/ EntryWrite(p, k) \/ EntryRemove(p, k)
                              \/ CrashInWrite(p, k) \/ ShortWrite(p, k)

Spec == Init /\ [][Next]_vars

-----------------------------------------------------------------------------
(* Properties *)

(* "Normally cache shall never get corrupted": unless a process died in the   *)
(* middle of an operation or a write was cut short, no operation of any       *)
(* process fails fatally and wipes the files, however stale its hash table    *)
(* is, and the index describes exactly the contents of the cache file.        *)
NeverCorrupted ==
    faults = 0 =>
        /\ \A p \in Procs : db[p].open => db[p].alive
        /\ Len(index.entries) = Len(cache.entries)
        /\ \A i \in DOMAIN index.entries :
              LET x == cache.entries[i]
                  e == index.entries[i]
              IN  e.off = x.off /\ e.hash = hash_of[x.key] /\ e.size = blob_size[x.key]

(* What any process has written is read by all, until it is evicted or        *)
(* removed: a table that was read before the files changed finds it as well.  *)
StoredIsRead ==
    faults = 0 =>
        \A p \in Procs, x \in Range(cache.entries) :
            db[p].alive => Hit(update_index(Synced(Db(p))), x.key)


=============================================================================
