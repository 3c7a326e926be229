---------------------------- MODULE PipelineCache ----------------------------
(***************************************************************************)
(* Pipeline caches (vk_pipeline_cache.c): sets of reference-counted        *)
(* objects with a key each, shared by all threads that create pipelines.   *)
(* A strong cache owns a reference to each of its objects.  A weak cache   *)
(* (the driver's own, for finding duplicates) owns none: the last unref of *)
(* an object removes it from the cache.  An object loaded from initial     *)
(* data is raw, and is replaced by a real one when it is first looked up.  *)
(*                                                                         *)
(* References are kept at places: handles of the driver and application,   *)
(* the local variables of the calls, and the entries of the caches.  The   *)
(* body of a critical section is one step; only a merge holds a cache's    *)
(* lock over several steps.  The contents of objects, their serialisation  *)
(* and the export of a cache are left out.                                 *)
(***************************************************************************)
EXTENDS Naturals, FiniteSets

CONSTANTS Threads, Keys, Objs, Handles,
          Strong, Weak,       \* caches, by weak_ref
          UsesDisk,           \* caches without skip_disk_cache
          ops_of,             \* the ops the driver uses for a key: "raw" (NIR) or "real"
          NULL

Caches == Strong \cup Weak

ASSUME CacheAssumption ==
    /\ Strong \cap Weak = {}
    /\ ops_of \in [Keys -> {"raw", "real"}]
    /\ NULL \notin Objs \cup Threads \cup Caches \cup Keys \cup Handles
    /\ IsFiniteSet(Threads) /\ IsFiniteSet(Keys) /\ IsFiniteSet(Handles) /\ IsFiniteSet(Strong)

VARIABLES
    obj,      \* vk_pipeline_cache_object, or Free
    at,       \* the object each place refers to
    lock,     \* vk_pipeline_cache::lock: the merge that holds it
    live,     \* caches that the application may use
    disk,     \* keys of the disk cache
    th        \* the calls of the threads

vars == <<obj, at, lock, live, disk, th>>

-----------------------------------------------------------------------------
(* Places and objects *)

Handle(h) == <<"handle", h>>
Object(t) == <<"object", t>>     \* local variable: the object that is returned
Other(t) == <<"other", t>>       \* local variable: the object that is dropped
Entry(c, k) == <<"entry", <<c, k>>>>

Locals == {"object", "other"} \X Threads
Entries(C) == {"entry"} \X (C \X Keys)

(* The places that own a reference, and all places.                          *)
Counted == ({"handle"} \X Handles) \cup Locals \cup Entries(Strong)
Places == Counted \cup Entries(Weak)

Refs(o) == {p \in Counted : at[p] = o}

Free == [ref_cnt |-> 0, key |-> NULL, ops |-> NULL, weak_owner |-> NULL]

(* vk_pipeline_cache_object_init *)
New(k, ops) == [ref_cnt |-> 1, key |-> k, ops |-> ops, weak_owner |-> NULL]

Ref(f, o) == [f EXCEPT ![o].ref_cnt = @ + 1]

(* vk_pipeline_cache_object_unref: the object after it, whether it can get    *)
(* the lock of the weak owner, and the places after it: the owner forgets an  *)
(* object that is destroyed.                                                  *)
Unref(f, o) == IF f[o].ref_cnt = 1 THEN [f EXCEPT ![o] = Free]
               ELSE [f EXCEPT ![o].ref_cnt = @ - 1]

CanUnref(o) == obj[o].weak_owner # NULL => lock[obj[o].weak_owner] = NULL

Forgets_Never(o) == FALSE
Forgets(o) == /\ obj[o].weak_owner # NULL /\ obj[o].ref_cnt = 1
              /\ at[Entry(obj[o].weak_owner, obj[o].key)] = o

Forgotten(a, o) == IF Forgets(o) THEN [a EXCEPT ![Entry(obj[o].weak_owner, obj[o].key)] = NULL]
                   ELSE a

-----------------------------------------------------------------------------

Idle == [pc |-> "idle", cache |-> NULL, key |-> NULL, add |-> FALSE, handle |-> NULL,
         srcs |-> {}, src |-> NULL, todo |-> {}]

TypeOK ==
    /\ obj \in [Objs -> [ref_cnt : Nat, key : Keys \cup {NULL}, ops : {"raw", "real", NULL},
                         weak_owner : Weak \cup {NULL}]]
    /\ at \in [Places -> Objs \cup {NULL}]
    /\ lock \in [Caches -> Threads \cup {NULL}]
    /\ live \in SUBSET Caches
    /\ disk \in SUBSET Keys
    /\ th \in [Threads -> [pc : {"idle", "search", "disk", "deserialize", "remove", "unref", "insert",
                                 "drop", "return", "load", "destroy", "merge", "merging"},
                           cache : Caches \cup {NULL}, key : Keys \cup {NULL}, add : BOOLEAN,
                           handle : Handles \cup {NULL}, srcs : SUBSET Strong,
                           src : Strong \cup {NULL}, todo : SUBSET Keys]]

Init ==
    /\ obj = [o \in Objs |-> Free]
    /\ at = [p \in Places |-> NULL]
    /\ lock = [c \in Caches |-> NULL]
    /\ live = Weak
    /\ disk = {}
    /\ th = [t \in Threads |-> Idle]

(* The result of a call goes to a handle that is free and stays so.           *)
FreeHandle(h) == at[Handle(h)] = NULL /\ \A u \in Threads : th[u].handle # h

(* A call that needs no object, or whose object was dropped, ends.            *)
Ended(t) == [th EXCEPT ![t] = Idle]

-----------------------------------------------------------------------------
(* vk_pipeline_cache_lookup_object *)

LookupCall(t, c, k, h) ==
    /\ th[t].pc = "idle" /\ c \in live /\ FreeHandle(h)
    /\ th' = [th EXCEPT ![t] = [Idle EXCEPT !.pc = "search", !.cache = c, !.key = k, !.handle = h]]
    /\ UNCHANGED <<obj, at, lock, live, disk>>

(* Whether a found object has to be deserialised first.                       *)
NotFormed(o, k) == obj[o].ops = "raw" /\ ops_of[k] # "raw"

LookupSearch(t) ==
    LET c == th[t].cache
        k == th[t].key
        e == at[Entry(c, k)]
    IN  /\ th[t].pc = "search" /\ lock[c] = NULL
        /\ \/ /\ e # NULL
              /\ obj' = Ref(obj, e)
              /\ at' = [at EXCEPT ![Object(t)] = e]
              /\ th' = [th EXCEPT ![t].pc = IF NotFormed(e, k) THEN "deserialize" ELSE "return"]
           \/ /\ e = NULL
              /\ th' = [th EXCEPT ![t].pc = "disk"]
              /\ UNCHANGED <<obj, at>>
        /\ UNCHANGED <<lock, live, disk>>

(* Not in the disk cache, deserialised from it, or removed from it because it *)
(* cannot be deserialised.                                                    *)
LookupDisk(t) ==
    LET k == th[t].key
        hit == th[t].cache \in UsesDisk /\ k \in disk
    IN  /\ th[t].pc = "disk"
        /\ \/ /\ ~ hit
              /\ th' = Ended(t)
              /\ UNCHANGED <<obj, at, disk>>
           \/ /\ hit
              /\ \E o \in Objs :
                    /\ obj[o] = Free
                    /\ obj' = [obj EXCEPT ![o] = New(k, ops_of[k])]
                    /\ at' = [at EXCEPT ![Object(t)] = o]
              /\ th' = [th EXCEPT ![t].pc = "insert"]
              /\ UNCHANGED disk
           \/ /\ hit
              /\ disk' = disk \ {k}
              /\ th' = Ended(t)
              /\ UNCHANGED <<obj, at>>
        /\ UNCHANGED <<lock, live>>

(* The raw object is exchanged for a real one, unless that fails.             *)
LookupDeserialize(t) ==
    LET raw == at[Object(t)]
    IN  /\ th[t].pc = "deserialize"
        /\ \/ /\ CanUnref(raw)
              /\ \E o \in Objs :
                    /\ obj[o] = Free
                    /\ obj' = [Unref(obj, raw) EXCEPT ![o] = New(th[t].key, ops_of[th[t].key])]
                    /\ at' = [Forgotten(at, raw) EXCEPT ![Object(t)] = o]
              /\ th' = [th EXCEPT ![t].pc = "insert"]
           \/ /\ th' = [th EXCEPT ![t].pc = "remove"]
              /\ UNCHANGED <<obj, at>>
        /\ UNCHANGED <<lock, live, disk>>

(* vk_pipeline_cache_remove_object takes object o out of cache c if it is     *)
(* still there.                                                               *)
Present_ByKey(c, k, o) == at[Entry(c, k)] # NULL
Present(c, k, o) == at[Entry(c, k)] = o

LookupRemove(t) ==
    LET c == th[t].cache
        k == th[t].key
        raw == at[Object(t)]
    IN  /\ th[t].pc = "remove" /\ lock[c] = NULL
        /\ IF Present(c, k, raw)
           THEN /\ at' = [at EXCEPT ![Entry(c, k)] = NULL]
                /\ obj' = IF c \in Strong THEN Unref(obj, raw) ELSE obj
           ELSE UNCHANGED <<at, obj>>
        /\ th' = [th EXCEPT ![t].pc = "unref"]
        /\ UNCHANGED <<lock, live, disk>>

LookupUnref(t) ==
    LET raw == at[Object(t)]
    IN  /\ th[t].pc = "unref" /\ CanUnref(raw)
        /\ obj' = Unref(obj, raw)
        /\ at' = [Forgotten(at, raw) EXCEPT ![Object(t)] = NULL]
        /\ th' = Ended(t)
        /\ UNCHANGED <<lock, live, disk>>

-----------------------------------------------------------------------------
(* vk_pipeline_cache_add_object and create_and_insert_object start with an    *)
(* object of the driver's.                                                    *)

InsertCall(t, c, k, h, add) ==
    /\ th[t].pc = "idle" /\ c \in live /\ FreeHandle(h)
    /\ \E o \in Objs :
          /\ obj[o] = Free
          /\ obj' = [obj EXCEPT ![o] = New(k, ops_of[k])]
          /\ at' = [at EXCEPT ![Object(t)] = o]
    /\ th' = [th EXCEPT ![t] = [Idle EXCEPT !.pc = "insert", !.cache = c, !.key = k,
                                            !.add = add, !.handle = h]]
    /\ disk' = IF add \/ c \notin UsesDisk THEN disk ELSE disk \cup {k}
    /\ UNCHANGED <<lock, live>>

(* vk_pipeline_cache_insert_object.  An object that is found takes the place  *)
(* of the caller's, unless it is not fully formed and is replaced.            *)
Replaces_Never(e, o) == FALSE
Replaces(e, o) == obj[e].ops # obj[o].ops

(* A new entry of cache c owns a reference, or is known to its object.        *)
Added_Unowned(c, o) == IF c \in Strong THEN obj ELSE [obj EXCEPT ![o].weak_owner = c]
Added(c, o) == IF c \in Strong THEN Ref(obj, o) ELSE [obj EXCEPT ![o].weak_owner = c]

Insert(t) ==
    LET c == th[t].cache
        k == th[t].key
        o == at[Object(t)]
        e == at[Entry(c, k)]
    IN  /\ th[t].pc = "insert" /\ lock[c] = NULL
        /\ \/ /\ e = NULL
              /\ at' = [at EXCEPT ![Entry(c, k)] = o]
              /\ obj' = Added(c, o)
              /\ th' = [th EXCEPT ![t].pc = "return"]
           \/ /\ e # NULL /\ Replaces(e, o)
              /\ at' = [at EXCEPT ![Entry(c, k)] = o, ![Other(t)] = e]
              /\ obj' = Ref(obj, o)
              /\ th' = [th EXCEPT ![t].pc = "drop"]
           \/ /\ e # NULL /\ ~ Replaces(e, o)
              /\ at' = [at EXCEPT ![Object(t)] = e, ![Other(t)] = o]
              /\ obj' = Ref(obj, e)
              /\ th' = [th EXCEPT ![t].pc = "drop", ![t].add = FALSE]
        /\ UNCHANGED <<lock, live, disk>>

InsertDrop(t) ==
    LET o == at[Other(t)]
    IN  /\ th[t].pc = "drop" /\ CanUnref(o)
        /\ obj' = Unref(obj, o)
        /\ at' = [Forgotten(at, o) EXCEPT ![Other(t)] = NULL]
        /\ th' = [th EXCEPT ![t].pc = "return"]
        /\ UNCHANGED <<lock, live, disk>>

(* The caller gets the object.  One that add_object has inserted is put in    *)
(* the disk cache as well if it can be serialised.                            *)
Return(t) ==
    /\ th[t].pc = "return"
    /\ at' = [at EXCEPT ![Handle(th[t].handle)] = at[Object(t)], ![Object(t)] = NULL]
    /\ \/ th[t].add /\ th[t].cache \in UsesDisk /\ disk' = disk \cup {th[t].key}
       \/ UNCHANGED disk
    /\ th' = Ended(t)
    /\ UNCHANGED <<obj, lock, live>>

-----------------------------------------------------------------------------
(* vk_pipeline_cache_object_ref and _unref on a handle *)

Retain(h, g) ==
    /\ at[Handle(h)] # NULL /\ FreeHandle(g)
    /\ obj' = Ref(obj, at[Handle(h)])
    /\ at' = [at EXCEPT ![Handle(g)] = at[Handle(h)]]
    /\ UNCHANGED <<lock, live, disk, th>>

Release(h) ==
    LET o == at[Handle(h)]
    IN  /\ o # NULL /\ CanUnref(o)
        /\ obj' = Unref(obj, o)
        /\ at' = [Forgotten(at, o) EXCEPT ![Handle(h)] = NULL]
        /\ UNCHANGED <<lock, live, disk, th>>

-----------------------------------------------------------------------------
(* vk_pipeline_cache_create, load and destroy *)

Uses(t) == {th[t].cache} \cup th[t].srcs

CreateCall(t, c) ==
    /\ th[t].pc = "idle" /\ c \in Strong \ live /\ \A u \in Threads : c \notin Uses(u)
    /\ th' = [th EXCEPT ![t] = [Idle EXCEPT !.pc = "load", !.cache = c]]
    /\ UNCHANGED <<obj, at, lock, live, disk>>

(* An entry of the initial data becomes a raw object.  There are no           *)
(* pipeline_cache_import_ops, and a second entry for the key is dropped.      *)
LoadEntry(t, k) ==
    LET c == th[t].cache
    IN  /\ th[t].pc = "load"
        /\ disk' = IF c \in UsesDisk THEN disk \cup {k} ELSE disk
        /\ \/ /\ at[Entry(c, k)] = NULL
              /\ \E o \in Objs :
                    /\ obj[o] = Free
                    /\ obj' = [obj EXCEPT ![o] = New(k, "raw")]
                    /\ at' = [at EXCEPT ![Entry(c, k)] = o]
           \/ UNCHANGED <<obj, at>>
        /\ UNCHANGED <<lock, live, th>>

LoadDone(t) ==
    /\ th[t].pc = "load"
    /\ live' = live \cup {th[t].cache}
    /\ th' = Ended(t)
    /\ UNCHANGED <<obj, at, lock, disk>>

(* The application destroys a cache that no call uses; a weak cache outlives  *)
(* its objects.                                                               *)
DestroyCall(t, c) ==
    /\ th[t].pc = "idle" /\ c \in live /\ \A u \in Threads : c \notin Uses(u)
    /\ c \in Weak => \A p \in Counted : at[p] # NULL => obj[at[p]].weak_owner # c
    /\ live' = live \ {c}
    /\ th' = [th EXCEPT ![t] = [Idle EXCEPT !.pc = "destroy", !.cache = c]]
    /\ UNCHANGED <<obj, at, lock, disk>>

DestroyEntry(t, k) ==
    LET o == at[Entry(th[t].cache, k)]
    IN  /\ th[t].pc = "destroy" /\ th[t].cache \in Strong
        /\ o # NULL /\ CanUnref(o)
        /\ obj' = Unref(obj, o)
        /\ at' = [Forgotten(at, o) EXCEPT ![Entry(th[t].cache, k)] = NULL]
        /\ UNCHANGED <<lock, live, disk, th>>

DestroyDone(t) ==
    /\ th[t].pc = "destroy"
    /\ th[t].cache \in Strong => \A k \in Keys : at[Entry(th[t].cache, k)] = NULL
    /\ th' = Ended(t)
    /\ UNCHANGED <<obj, at, lock, live, disk>>

-----------------------------------------------------------------------------
(* vk_common_MergePipelineCaches.  The application synchronises dst, at least *)
(* among merges.                                                              *)

MergeCall(t, dst, srcs) ==
    /\ th[t].pc = "idle" /\ dst \in Strong \cap live /\ srcs # {} /\ srcs \subseteq (Strong \cap live) \ {dst}
    /\ \A u \in Threads : th[u].pc \in {"merge", "merging"} =>
          dst \notin Uses(u) /\ th[u].cache \notin srcs
    /\ lock[dst] = NULL
    /\ lock' = [lock EXCEPT ![dst] = t]
    /\ th' = [th EXCEPT ![t] = [Idle EXCEPT !.pc = "merge", !.cache = dst, !.srcs = srcs]]
    /\ UNCHANGED <<obj, at, live, disk>>

MergeSource(t, src) ==
    /\ th[t].pc = "merge" /\ src \in th[t].srcs /\ lock[src] = NULL
    /\ lock' = [lock EXCEPT ![src] = t]
    /\ th' = [th EXCEPT ![t].pc = "merging", ![t].src = src,
                        ![t].todo = {k \in Keys : at[Entry(src, k)] # NULL}]
    /\ UNCHANGED <<obj, at, live, disk>>

(* A real object replaces a raw one.                                          *)
Better(s, d) == obj[d].ops = "raw" /\ obj[s].ops # "raw"

MergeEntry(t, k) ==
    LET s == at[Entry(th[t].src, k)]
        d == at[Entry(th[t].cache, k)]
    IN  /\ th[t].pc = "merging" /\ k \in th[t].todo
        /\ \/ /\ d = NULL
              /\ obj' = Ref(obj, s)
              /\ at' = [at EXCEPT ![Entry(th[t].cache, k)] = s]
           \/ /\ d # NULL /\ Better(s, d) /\ CanUnref(d)
              /\ obj' = Ref(Unref(obj, d), s)
              /\ at' = [Forgotten(at, d) EXCEPT ![Entry(th[t].cache, k)] = s]
           \/ /\ d # NULL /\ ~ Better(s, d)
              /\ UNCHANGED <<obj, at>>
        /\ th' = [th EXCEPT ![t].todo = @ \ {k}]
        /\ UNCHANGED <<lock, live, disk>>

MergeSourceDone(t) ==
    /\ th[t].pc = "merging" /\ th[t].todo = {}
    /\ lock' = [lock EXCEPT ![th[t].src] = NULL]
    /\ th' = [th EXCEPT ![t].pc = "merge", ![t].src = NULL, ![t].srcs = @ \ {th[t].src}]
    /\ UNCHANGED <<obj, at, live, disk>>

MergeDone(t) ==
    /\ th[t].pc = "merge" /\ th[t].srcs = {}
    /\ lock' = [lock EXCEPT ![th[t].cache] = NULL]
    /\ th' = Ended(t)
    /\ UNCHANGED <<obj, at, live, disk>>

-----------------------------------------------------------------------------

Call(t) ==
    \/ \E c \in Caches, k \in Keys, h \in Handles :
          \/ LookupCall(t, c, k, h)
          \/ \E add \in BOOLEAN : InsertCall(t, c, k, h, add)
    \/ \E c \in Caches : CreateCall(t, c) \/ DestroyCall(t, c)
    \/ \E dst \in Strong, srcs \in SUBSET Strong : MergeCall(t, dst, srcs)

Step(t) ==
    \/ LookupSearch(t) \/ LookupDisk(t) \/ LookupDeserialize(t) \/ LookupRemove(t) \/ LookupUnref(t)
    \/ Insert(t) \/ InsertDrop(t) \/ Return(t)
    \/ LoadDone(t) \/ DestroyDone(t) \/ \E k \in Keys : LoadEntry(t, k) \/ DestroyEntry(t, k)
    \/ \E src \in Strong : MergeSource(t, src)
    \/ \E k \in Keys : MergeEntry(t, k)
    \/ MergeSourceDone(t) \/ MergeDone(t)

Next ==
    \/ \E t \in Threads : Call(t) \/ Step(t)
    \/ \E h \in Handles : Release(h) \/ \E g \in Handles : Retain(h, g)

Spec == Init /\ [][Next]_vars

-----------------------------------------------------------------------------
(* Properties *)

(* The reference count of an object is the number of places that own a        *)
(* reference: none leaks, and no handle, call or cache refers to an object    *)
(* that was destroyed.                                                        *)
RefsExact == \A o \in Objs : obj[o].ref_cnt = Cardinality(Refs(o))

(* "The runtime will perform the necessary bookkeeping to remove the dead     *)
(* reference": a weak cache holds exactly the live objects it owns, each      *)
(* under its key, so that there are no duplicates, and is empty when it is    *)
(* destroyed.                                                                 *)
WeakExact ==
    /\ \A c \in Weak, k \in Keys : at[Entry(c, k)] # NULL =>
          LET x == obj[at[Entry(c, k)]] IN x.ref_cnt > 0 /\ x.key = k /\ x.weak_owner = c
    /\ \A o \in Objs : obj[o].weak_owner # NULL => at[Entry(obj[o].weak_owner, obj[o].key)] = o
    /\ \A t \in Threads : th[t].pc = "destroy" /\ th[t].cache \in Weak =>
          \A k \in Keys : at[Entry(th[t].cache, k)] = NULL

(* assert(object->ops == ops): a lookup gives an object of the type and key   *)
(* it asked for, and every insertion a fully formed one, whatever raw objects *)
(* other threads load, replace and remove meanwhile.                          *)
ResultFormed ==
    /\ \A t \in Threads : th[t].pc = "return" =>
          obj[at[Object(t)]].key = th[t].key /\ obj[at[Object(t)]].ops = ops_of[th[t].key]
    /\ \A h \in Handles : at[Handle(h)] # NULL =>
          obj[at[Handle(h)]].ops = ops_of[obj[at[Handle(h)]].key]

(* An object that is fully formed stays in its cache, the same one for all    *)
(* later lookups, until the cache is destroyed: neither a failing             *)
(* deserialisation nor a merge removes it or puts a raw one there.            *)
FormedStays ==
    [][\A c \in Strong \cap live, k \in Keys :
          LET o == at[Entry(c, k)]
          IN  o # NULL /\ obj[o].ops = ops_of[k] => at'[Entry(c, k)] = o /\ obj'[o].ops = obj[o].ops]_vars
=============================================================================
