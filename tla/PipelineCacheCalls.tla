------------------------- MODULE PipelineCacheCalls --------------------------
(***************************************************************************)
(* The steps of lookups and insertions (vk_pipeline_cache_lookup_object,   *)
(* _insert_object) preserve the invariant Inv of PipelineCacheLemmas, and  *)
(* keep formed objects in their caches (Stays).                            *)
(***************************************************************************)
EXTENDS PipelineCacheLemmas
-----------------------------------------------------------------------------
(* Facts the proofs of the actions share *)

(* A step that only moves the program counter of one call.                    *)
LEMMA PcStep ==
    ASSUME Inv, NEW t \in Threads, th' = [th EXCEPT ![t].pc = th'[t].pc],
           th'[t].pc \in {"disk", "deserialize", "remove", "unref", "insert", "drop", "return"}
    PROVE  /\ Only(t)
           /\ th'[t].cache = th[t].cache /\ th'[t].key = th[t].key /\ th'[t].handle = th[t].handle
           /\ th'[t].srcs = th[t].srcs /\ th'[t].src = th[t].src /\ th'[t].todo = th[t].todo
BY DEF Inv, Types, Only, CallRecord

(* Such a step of a lookup or an insertion goes on with the same arguments.   *)
LEMMA PcGoesOn ==
    ASSUME Inv, NEW t \in Threads, th' = [th EXCEPT ![t].pc = th'[t].pc],
           th[t].pc \in {"search", "disk"} \cup Holding,
           th'[t].pc \in {"disk", "deserialize", "remove", "unref", "insert", "drop", "return"}
    PROVE  GoesOn(t)
BY PcStep DEF GoesOn, Closing, Merging, Holding, Raw, Formed

(* The end of a call.                                                         *)
LEMMA EndStep ==
    ASSUME Inv, NEW t \in Threads, th' = Ended(t)
    PROVE  Only(t) /\ th'[t] = Idle
BY IdleFacts DEF Inv, Types, Only, Ended

(* The arguments of a lookup or an insertion.                                 *)
LEMMA CallFacts ==
    ASSUME Inv, NEW t \in Threads, th[t].pc \in {"search", "disk"} \cup Holding
    PROVE  /\ th[t].cache \in Caches /\ th[t].key \in Keys /\ th[t].handle \in Handles
           /\ Entry(th[t].cache, th[t].key) \in Places
           /\ ops_of[th[t].key] \in {"raw", "real"}
BY PlaceFacts, CacheAssumption DEF Inv, Control, Sound

(* The types, from the invariant.                                             *)
LEMMA StateFacts ==
    ASSUME Inv
    PROVE  /\ obj \in [Objs -> ObjRecord] /\ at \in [Places -> Objs \cup {NULL}] /\ Data(obj, at)
           /\ NULL \notin Objs /\ disk \in SUBSET Keys /\ live \subseteq Caches
           /\ lock \in [Caches -> Threads \cup {NULL}] /\ NULL \notin Threads
           /\ th \in [Threads -> CallRecord]
           /\ Strong \cap Weak = {} /\ Strong \subseteq Caches /\ Weak \subseteq Caches
BY DataFacts, CacheAssumption DEF Inv, Types, Caches

(* What an entry of a cache refers to.                                        *)
LEMMA EntryObject ==
    ASSUME Inv, NEW c \in Caches, NEW k \in Keys, at[Entry(c, k)] # NULL
    PROVE  /\ at[Entry(c, k)] \in Objs /\ obj[at[Entry(c, k)]].ref_cnt > 0
           /\ obj[at[Entry(c, k)]].key = k /\ obj[at[Entry(c, k)]].ops \in {"raw", ops_of[k]}
           /\ c \in Strong => obj[at[Entry(c, k)]].weak_owner = NULL
           /\ c \in Weak => obj[at[Entry(c, k)]].weak_owner = c /\ obj[at[Entry(c, k)]].ops = ops_of[k]
<1>1. Data(obj, at)
  BY DEF Inv
<1> QED
  BY <1>1, EntryFacts

(* The object in the local variable of a call.                                *)
LEMMA HeldFacts ==
    ASSUME Inv, NEW t \in Threads, th[t].pc \in Holding
    PROVE  /\ at[Object(t)] \in Objs /\ at[Object(t)] # NULL /\ obj[at[Object(t)]].ref_cnt > 0
           /\ obj[at[Object(t)]].key = th[t].key /\ Object(t) \in Counted /\ Object(t) \in Places
<1>1. Object(t) \in Counted /\ Object(t) \in Places /\ at[Object(t)] # NULL
  BY PlaceFacts DEF Inv, Local
<1> QED
  BY <1>1, RefersTo DEF Inv, Local
-----------------------------------------------------------------------------
(* vk_pipeline_cache_lookup_object *)

(* The search of vk_pipeline_cache_lookup_object takes a reference to the     *)
(* entry it finds.                                                            *)
LEMMA LookupSearchOK ==
    ASSUME Inv, NEW t \in Threads, LookupSearch(t)
    PROVE  Inv' /\ Stays
<1> DEFINE c == th[t].cache
           k == th[t].key
           e == at[Entry(c, k)]
<1>0. th[t].pc = "search" /\ lock[c] = NULL /\ UNCHANGED <<lock, live, disk>>
  BY DEF LookupSearch
<1>1. /\ c \in Caches /\ k \in Keys /\ Entry(c, k) \in Places
      /\ Object(t) \in Counted /\ Object(t) \in Places /\ Other(t) \in Places
      /\ at[Object(t)] = NULL /\ at[Other(t)] = NULL
  BY <1>0, CallFacts, PlaceFacts DEF Inv, Local, Holding, Raw, Formed
<1>2. CASE e # NULL
  <2>1. /\ obj' = Ref(obj, e) /\ at' = [at EXCEPT ![Object(t)] = e]
        /\ th' = [th EXCEPT ![t].pc = IF NotFormed(e, k) THEN "deserialize" ELSE "return"]
    BY <1>2 DEF LookupSearch
  <2>2. /\ e \in Objs /\ obj[e].ref_cnt > 0 /\ obj[e].key = k /\ obj[e].ops \in {"raw", ops_of[k]}
        /\ obj[e].ops # ops_of[k] => obj[e].weak_owner = NULL
    BY <1>1, <1>2, StateFacts, EntryFacts DEF Caches
  <2>3. th'[t].pc = IF NotFormed(e, k) THEN "deserialize" ELSE "return"
    BY <2>1, StateFacts DEF CallRecord
  <2>4. /\ Only(t) /\ GoesOn(t) /\ th'[t].key = k
    BY <2>1, <2>3, <1>0, PcStep, PcGoesOn
  <2>5. Put(at, at', Object(t), e)
    BY <2>1, <2>2, <1>1, StateFacts DEF Put
  <2>6. Fits(Object(t), obj[e])
    BY Distinct DEF Fits
  <2>7. Data(obj', at')
    BY <2>1, <2>2, <2>5, <2>6, <1>1, StateFacts, Take
  <2>8. Kept(obj, at, obj', t)
    BY <2>1, <2>2, <1>1, StateFacts, Distinct, KeptRef
  <2>9. /\ \A q \in Places : q # Object(t) => at'[q] = at[q]
        /\ at'[Object(t)] = e
        /\ \A u \in Threads : u # t => at'[Object(u)] = at[Object(u)]
        /\ \A u \in Threads : at'[Other(u)] = at[Other(u)]
        /\ \A d \in Caches, l \in Keys : at'[Entry(d, l)] = at[Entry(d, l)]
        /\ \A h \in Handles : at'[Handle(h)] = at[Handle(h)]
    BY <2>5, PlaceFacts, Distinct DEF Put
  <2>10. Effect(t)
    BY <2>7, <2>8, <2>9, StateFacts DEF Effect
  <2>11. obj'[e].key = obj[e].key /\ obj'[e].ops = obj[e].ops /\ obj'[e].weak_owner = obj[e].weak_owner
    BY <2>1, <2>2, StateFacts, RefFacts
  <2>12. Local(obj', at', th'[t], t)
    BY <2>2, <2>3, <2>4, <2>9, <2>11, <1>1, StateFacts DEF Local, NotFormed, Holding, Raw, Formed
  <2> QED
    BY <1>0, <2>4, <2>9, <2>10, <2>12, StateFacts, AdvancePlain, StaysIf
<1>3. CASE e = NULL
  <2>1. obj' = obj /\ at' = at /\ th' = [th EXCEPT ![t].pc = "disk"]
    BY <1>3 DEF LookupSearch
  <2>2. th'[t].pc = "disk"
    BY <2>1, StateFacts DEF CallRecord
  <2>3. Only(t) /\ GoesOn(t)
    BY <2>1, <2>2, <1>0, PcStep, PcGoesOn
  <2>4. Effect(t)
    BY <2>1, StateFacts DEF Effect, Kept
  <2>5. Local(obj', at', th'[t], t)
    BY <2>1, <2>2, <1>1 DEF Local, Holding, Raw, Formed
  <2> QED
    BY <1>0, <2>1, <2>3, <2>4, <2>5, StateFacts, AdvancePlain, StaysIf
<1> QED
  BY <1>2, <1>3

(* A disk cache hit creates an object that only this call knows.              *)
LEMMA LookupDiskOK ==
    ASSUME Inv, NEW t \in Threads, LookupDisk(t)
    PROVE  Inv' /\ Stays
<1> DEFINE c == th[t].cache
           k == th[t].key
<1>0. th[t].pc = "disk" /\ UNCHANGED <<lock, live>> /\ disk' \in SUBSET Keys
  BY StateFacts DEF LookupDisk
<1>1. /\ k \in Keys /\ ops_of[k] \in {"raw", "real"}
      /\ Object(t) \in Counted /\ Object(t) \in Places /\ Other(t) \in Places
      /\ at[Object(t)] = NULL /\ at[Other(t)] = NULL
  BY <1>0, CallFacts, PlaceFacts DEF Inv, Local, Holding, Raw, Formed
<1>2. CASE th' = Ended(t) /\ UNCHANGED <<obj, at>>
  <2>1. Only(t) /\ th'[t] = Idle
    BY <1>2, EndStep
  <2>2. Effect(t)
    BY <1>2, StateFacts DEF Effect, Kept
  <2>3. Local(obj', at', th'[t], t)
    BY <1>1, <1>2, <2>1, IdleFacts DEF Local, Holding, Raw, Formed
  <2> QED
    BY <1>0, <1>2, <2>1, <2>2, <2>3, AdvancePlain, StaysIf
<1>3. ASSUME NEW o \in Objs, obj[o] = Free, obj' = [obj EXCEPT ![o] = New(k, ops_of[k])],
             at' = [at EXCEPT ![Object(t)] = o], th' = [th EXCEPT ![t].pc = "insert"]
      PROVE  Inv' /\ Stays
  <2>1. th'[t].pc = "insert"
    BY <1>3, StateFacts DEF CallRecord
  <2>2. Only(t) /\ GoesOn(t) /\ th'[t].key = k
    BY <1>3, <2>1, <1>0, PcStep, PcGoesOn
  <2>3. Put(at, at', Object(t), o)
    BY <1>3, <1>1, StateFacts DEF Put
  <2>4. /\ New(k, ops_of[k]) \in ObjRecord /\ New(k, ops_of[k]).ref_cnt = 1 /\ New(k, ops_of[k]).key = k
        /\ New(k, ops_of[k]).ops = ops_of[k] /\ New(k, ops_of[k]).weak_owner = NULL
    BY <1>1, NewFacts
  <2>5. Set(obj, obj', o, New(k, ops_of[k]))
    BY <1>3, <2>4, StateFacts DEF Set
  <2>6. Fits(Object(t), New(k, ops_of[k]))
    BY Distinct DEF Fits
  <2>7. Data(obj', at')
    BY <1>1, <1>3, <2>3, <2>5, <2>6, StateFacts, Create
  <2>8. Kept(obj, at, obj', t)
    BY <1>3, <2>5, KeptNew
  <2>9. /\ at'[Object(t)] = o
        /\ \A u \in Threads : u # t => at'[Object(u)] = at[Object(u)]
        /\ \A u \in Threads : at'[Other(u)] = at[Other(u)]
        /\ \A d \in Caches, l \in Keys : at'[Entry(d, l)] = at[Entry(d, l)]
        /\ \A h \in Handles : at'[Handle(h)] = at[Handle(h)]
    BY <2>3, PlaceFacts, Distinct DEF Put
  <2>10. Effect(t)
    BY <2>7, <2>8, <2>9, StateFacts DEF Effect
  <2>11. Local(obj', at', th'[t], t)
    BY <1>1, <2>1, <2>2, <2>4, <2>5, <2>9, StateFacts DEF Local, Set, Holding, Raw, Formed
  <2> QED
    BY <1>0, <2>2, <2>9, <2>10, <2>11, StateFacts, AdvancePlain, StaysIf
<1> QED
  BY <1>2, <1>3 DEF LookupDisk

(* The raw object is unreferenced and the new one is private to the call.     *)
LEMMA LookupDeserializeOK ==
    ASSUME Inv, NEW t \in Threads, LookupDeserialize(t)
    PROVE  Inv' /\ Stays
<1> DEFINE raw == at[Object(t)]
           k == th[t].key
<1>0. th[t].pc = "deserialize" /\ UNCHANGED <<lock, live, disk>>
  BY DEF LookupDeserialize
<1>1. /\ k \in Keys /\ ops_of[k] \in {"raw", "real"} /\ Other(t) \in Places /\ at[Other(t)] = NULL
      /\ Object(t) \in Counted /\ Object(t) \in Places
      /\ raw \in Objs /\ raw # NULL /\ obj[raw].ref_cnt > 0 /\ obj[raw].key = k
      /\ obj[raw].weak_owner = NULL /\ obj[raw].ops = "raw" /\ ops_of[k] # "raw"
  BY <1>0, CallFacts, HeldFacts, PlaceFacts DEF Inv, Local, Holding, Raw, Formed
<1>2. CASE th' = [th EXCEPT ![t].pc = "remove"] /\ UNCHANGED <<obj, at>>
  <2>1. th'[t].pc = "remove"
    BY <1>2, StateFacts DEF CallRecord
  <2>2. Only(t) /\ GoesOn(t) /\ th'[t].key = k
    BY <1>2, <2>1, <1>0, PcStep, PcGoesOn DEF Holding, Raw
  <2>3. Effect(t)
    BY <1>2, StateFacts DEF Effect, Kept
  <2>4. Local(obj', at', th'[t], t)
    BY <1>1, <1>2, <2>1, <2>2 DEF Local, Holding, Raw, Formed
  <2> QED
    BY <1>0, <1>2, <2>2, <2>3, <2>4, StateFacts, AdvancePlain, StaysIf
<1>3. ASSUME NEW o \in Objs, obj[o] = Free,
             obj' = [Unref(obj, raw) EXCEPT ![o] = New(k, ops_of[k])],
             at' = [Forgotten(at, raw) EXCEPT ![Object(t)] = o],
             th' = [th EXCEPT ![t].pc = "insert"]
      PROVE  Inv' /\ Stays
  <2> DEFINE f == Unref(obj, raw)
             m == [at EXCEPT ![Object(t)] = NULL]
  <2>1. th'[t].pc = "insert"
    BY <1>3, StateFacts DEF CallRecord
  <2>2. Only(t) /\ GoesOn(t) /\ th'[t].key = k
    BY <1>3, <2>1, <1>0, PcStep, PcGoesOn DEF Holding, Raw
  <2>3. at' = [at EXCEPT ![Object(t)] = o]
    BY <1>3, <1>1 DEF Forgotten, Forgets
  <2>4. Put(at, m, Object(t), NULL) /\ m \in [Places -> Objs \cup {NULL}] /\ m[Object(t)] = NULL
    BY <1>1, StateFacts DEF Put
  <2>5. Put(m, at', Object(t), o) /\ Put(at, at', Object(t), o)
    BY <2>3, <1>1, StateFacts DEF Put
  <2> HIDE DEF m
  <2>6. Data(f, m)
    BY <1>1, <2>4, StateFacts, Drop
  <2>7. o # raw /\ f[o] = Free /\ f \in [Objs -> ObjRecord] /\ \A q \in Objs : q # raw => f[q] = obj[q]
    BY <1>1, <1>3, StateFacts, FreeFacts, UnrefFacts
  <2>8. /\ New(k, ops_of[k]) \in ObjRecord /\ New(k, ops_of[k]).ref_cnt = 1 /\ New(k, ops_of[k]).key = k
        /\ New(k, ops_of[k]).ops = ops_of[k] /\ New(k, ops_of[k]).weak_owner = NULL
    BY <1>1, NewFacts
  <2>9. Kept(obj, at, f, t)
    BY <1>1, StateFacts, Distinct, KeptUnref
  <2> HIDE DEF f
  <2>10. Set(f, obj', o, New(k, ops_of[k]))
    BY <1>3, <2>7, <2>8 DEF Set, f
  <2>11. Fits(Object(t), New(k, ops_of[k]))
    BY Distinct DEF Fits
  <2>12. Data(obj', at')
    BY <1>1, <2>4, <2>5, <2>6, <2>7, <2>10, <2>11, Create
  <2>13. Kept(obj, at, obj', t)
    BY <1>3, <2>7, <2>9, <2>10, FreeFacts DEF Kept, Set
  <2>14. /\ at'[Object(t)] = o
         /\ \A u \in Threads : u # t => at'[Object(u)] = at[Object(u)]
         /\ \A u \in Threads : at'[Other(u)] = at[Other(u)]
         /\ \A d \in Caches, l \in Keys : at'[Entry(d, l)] = at[Entry(d, l)]
         /\ \A h \in Handles : at'[Handle(h)] = at[Handle(h)]
    BY <2>5, PlaceFacts, Distinct DEF Put
  <2>15. Effect(t)
    BY <2>12, <2>13, <2>14, StateFacts DEF Effect
  <2>16. Local(obj', at', th'[t], t)
    BY <1>1, <2>1, <2>2, <2>8, <2>10, <2>14, StateFacts DEF Local, Set, Holding, Raw, Formed
  <2> QED
    BY <1>0, <2>2, <2>14, <2>15, <2>16, StateFacts, AdvancePlain, StaysIf
<1> QED
  BY <1>2, <1>3 DEF LookupDeserialize

(* Only the raw object that failed is removed, so no formed object leaves the *)
(* cache.                                                                     *)
LEMMA LookupRemoveOK ==
    ASSUME Inv, NEW t \in Threads, LookupRemove(t)
    PROVE  Inv' /\ Stays
<1> DEFINE c == th[t].cache
           k == th[t].key
           raw == at[Object(t)]
<1>0. th[t].pc = "remove" /\ lock[c] = NULL /\ UNCHANGED <<lock, live, disk>> /\ th' = [th EXCEPT ![t].pc = "unref"]
  BY DEF LookupRemove
<1>1. /\ c \in Caches /\ k \in Keys /\ Entry(c, k) \in Places
      /\ Other(t) \in Places /\ at[Other(t)] = NULL /\ Object(t) \in Counted /\ Object(t) \in Places
      /\ raw \in Objs /\ raw # NULL /\ obj[raw].ref_cnt > 0 /\ obj[raw].key = k
      /\ obj[raw].weak_owner = NULL /\ obj[raw].ops = "raw" /\ ops_of[k] # "raw"
  BY <1>0, CallFacts, HeldFacts, PlaceFacts DEF Inv, Local, Holding, Raw, Formed
<1>2. th'[t].pc = "unref"
  BY <1>0, StateFacts DEF CallRecord
<1>3. Only(t) /\ GoesOn(t) /\ th'[t].key = k
  BY <1>0, <1>2, PcStep, PcGoesOn DEF Holding, Raw
<1>4. CASE ~ Present(c, k, raw)
  <2>1. UNCHANGED <<obj, at>>
    BY <1>4 DEF LookupRemove
  <2>2. Effect(t)
    BY <2>1, StateFacts DEF Effect, Kept
  <2>3. Local(obj', at', th'[t], t)
    BY <1>1, <1>2, <1>3, <2>1 DEF Local, Holding, Raw, Formed
  <2> QED
    BY <1>0, <1>3, <2>1, <2>2, <2>3, StateFacts, AdvancePlain, StaysIf
<1>5. CASE Present(c, k, raw)
  <2>0. at[Entry(c, k)] = raw
    BY <1>5 DEF Present
  <2>1. c \in Strong /\ Entry(c, k) \in Counted
    <3>1. c \notin Weak
      BY <1>1, <2>0, StateFacts, EntryFacts
    <3> QED
      BY <3>1, <1>1, PlaceFacts DEF Caches
  <2>2. obj' = Unref(obj, raw) /\ at' = [at EXCEPT ![Entry(c, k)] = NULL]
    BY <1>5, <2>1 DEF LookupRemove
  <2>3. Put(at, at', Entry(c, k), NULL)
    BY <1>1, <2>2, StateFacts DEF Put
  <2>4. Data(obj', at')
    BY <1>1, <2>0, <2>1, <2>2, <2>3, StateFacts, Drop
  <2>5. Kept(obj, at, obj', t)
    BY <1>1, <2>0, <2>1, <2>2, StateFacts, Distinct, KeptUnref
  <2>6. /\ \A u \in Threads : at'[Object(u)] = at[Object(u)] /\ at'[Other(u)] = at[Other(u)]
        /\ \A d \in Caches, l \in Keys : d # c \/ l # k => at'[Entry(d, l)] = at[Entry(d, l)]
        /\ \A h \in Handles : at'[Handle(h)] = at[Handle(h)]
    BY <2>3, PlaceFacts, Distinct DEF Put
  <2>7. Effect(t)
    <3>1. \A d \in Strong, l \in Keys : at[Entry(d, l)] # NULL /\ at'[Entry(d, l)] = NULL => lock[d] = NULL
      BY <1>0, <2>6, StateFacts
    <3>2. \A d \in Weak, l \in Keys : at'[Entry(d, l)] = at[Entry(d, l)]
      BY <2>1, <2>6, StateFacts
    <3> QED
      BY <2>4, <2>5, <2>6, <3>1, <3>2 DEF Effect
  <2>8. obj'[raw].key = k /\ obj'[raw].ops = "raw" /\ obj'[raw].weak_owner = NULL
    <3>1. obj'[raw].ref_cnt > 0
      BY <1>1, <2>4, <2>6, RefersTo
    <3>2. Entry(c, k) # Object(t)
      BY Distinct
    <3> QED
      BY <1>1, <2>0, <2>5, <3>1, <3>2 DEF Kept
  <2>9. Local(obj', at', th'[t], t)
    BY <1>1, <1>2, <1>3, <2>6, <2>8 DEF Local, Holding, Raw, Formed
  <2>10. \A d \in Strong \cap live, l \in Keys :
           at[Entry(d, l)] # NULL /\ obj[at[Entry(d, l)]].ops = ops_of[l] => at'[Entry(d, l)] = at[Entry(d, l)]
    BY <1>1, <2>0, <2>6, StateFacts
  <2> QED
    BY <1>0, <1>3, <2>6, <2>7, <2>9, <2>10, StateFacts, AdvancePlain, StaysIf
<1> QED
  BY <1>4, <1>5

(* The last reference of a failed lookup.                                     *)
LEMMA LookupUnrefOK ==
    ASSUME Inv, NEW t \in Threads, LookupUnref(t)
    PROVE  Inv' /\ Stays
<1> DEFINE raw == at[Object(t)]
<1>0. /\ th[t].pc = "unref" /\ UNCHANGED <<lock, live, disk>> /\ th' = Ended(t)
      /\ obj' = Unref(obj, raw) /\ Leaves(at', Object(t), raw)
  BY DEF LookupUnref, Leaves
<1>1. Object(t) \in Counted /\ Object(t) \in Places /\ raw # NULL /\ at[Other(t)] = NULL
  BY <1>0, HeldFacts DEF Inv, Local, Holding, Raw
<1>2. Only(t) /\ th'[t] = Idle
  BY <1>0, EndStep
<1>3. /\ Data(obj', at') /\ Kept(obj, at, obj', t) /\ at'[Object(t)] = NULL
      /\ \A q \in Places : q # Object(t) => at'[q] = at[q] \/ (at'[q] = NULL /\ q \notin Counted)
  BY <1>0, <1>1, StateFacts, Distinct, Dropped
<1>4. /\ \A u \in Threads : u # t => at'[Object(u)] = at[Object(u)]
      /\ \A u \in Threads : at'[Other(u)] = at[Other(u)]
      /\ \A d \in Strong, l \in Keys : at'[Entry(d, l)] = at[Entry(d, l)]
      /\ \A d \in Weak, l \in Keys : at'[Entry(d, l)] \in {at[Entry(d, l)], NULL}
      /\ \A h \in Handles : at'[Handle(h)] = at[Handle(h)]
  BY <1>3, PlaceFacts, Distinct
<1>5. Effect(t)
  BY <1>3, <1>4 DEF Effect
<1>6. Local(obj', at', th'[t], t)
  BY <1>1, <1>2, <1>3, <1>4, IdleFacts DEF Local, Holding, Raw, Formed
<1> QED
  BY <1>0, <1>2, <1>4, <1>5, <1>6, StateFacts, AdvancePlain, StaysIf

-----------------------------------------------------------------------------
(* vk_pipeline_cache_insert_object *)

(* What is known when an object is about to be inserted.                      *)
LEMMA InsertFacts ==
    ASSUME Inv, NEW t \in Threads, th[t].pc = "insert"
    PROVE  /\ th[t].cache \in Caches /\ th[t].key \in Keys /\ Entry(th[t].cache, th[t].key) \in Places
           /\ Object(t) \in Counted /\ Object(t) \in Places /\ Other(t) \in Counted /\ Other(t) \in Places
           /\ at[Other(t)] = NULL /\ at[Object(t)] \in Objs /\ at[Object(t)] # NULL
           /\ obj[at[Object(t)]].ref_cnt = 1 /\ obj[at[Object(t)]].key = th[t].key
           /\ obj[at[Object(t)]].ops = ops_of[th[t].key] /\ obj[at[Object(t)]].weak_owner = NULL
           /\ \A p \in Places : p # Object(t) => at[p] # at[Object(t)]
<1>1. th[t].pc \in Holding /\ Local(obj, at, th[t], t)
  BY DEF Inv, Holding, Formed
<1>2. \A p \in Places : p # Object(t) => at[p] # at[Object(t)]
  BY <1>1, StateFacts, Elsewhere
<1> QED
  BY <1>1, <1>2, CallFacts, HeldFacts, PlaceFacts DEF Local, Formed

(* vk_pipeline_cache_insert_object without an entry for the key: a strong     *)
(* cache takes a reference, a weak one becomes the owner.                     *)
LEMMA InsertNewOK ==
    ASSUME Inv, NEW t \in Threads, Insert(t), at[Entry(th[t].cache, th[t].key)] = NULL
    PROVE  Inv' /\ Stays
<1> DEFINE c == th[t].cache
           k == th[t].key
           o == at[Object(t)]
<1>0. /\ th[t].pc = "insert" /\ lock[c] = NULL /\ at' = [at EXCEPT ![Entry(c, k)] = o]
      /\ obj' = Added(c, o) /\ th' = [th EXCEPT ![t].pc = "return"] /\ UNCHANGED <<lock, live, disk>>
  BY DEF Insert
<1>1. /\ c \in Caches /\ k \in Keys /\ Entry(c, k) \in Places
      /\ Object(t) \in Counted /\ Object(t) \in Places /\ Other(t) \in Places
      /\ at[Other(t)] = NULL /\ o \in Objs /\ o # NULL /\ obj[o].ref_cnt = 1 /\ obj[o].key = k
      /\ obj[o].ops = ops_of[k] /\ obj[o].weak_owner = NULL
      /\ \A p \in Places : p # Object(t) => at[p] # o
  BY <1>0, InsertFacts
<1>2. th'[t].pc = "return"
  BY <1>0, StateFacts DEF CallRecord
<1>3. Only(t) /\ GoesOn(t) /\ th'[t].key = k
  BY <1>0, <1>2, PcStep, PcGoesOn DEF Holding, Formed
<1>4. Put(at, at', Entry(c, k), o)
  BY <1>0, <1>1, StateFacts DEF Put
<1>5. /\ \A u \in Threads : at'[Object(u)] = at[Object(u)] /\ at'[Other(u)] = at[Other(u)]
      /\ \A d \in Caches, l \in Keys : d # c \/ l # k => at'[Entry(d, l)] = at[Entry(d, l)]
      /\ at'[Entry(c, k)] = o
      /\ \A h \in Handles : at'[Handle(h)] = at[Handle(h)]
  BY <1>4, PlaceFacts, Distinct DEF Put
<1>6. Data(obj', at') /\ Kept(obj, at, obj', t) /\ obj'[o].key = k /\ obj'[o].ops = ops_of[k]
  <2>1. CASE c \in Strong
    <3>1. obj' = Ref(obj, o) /\ Entry(c, k) \in Counted
      BY <1>0, <1>1, <2>1, PlaceFacts DEF Added
    <3>2. Fits(Entry(c, k), obj[o])
      BY <1>1, Distinct DEF Fits, Suits
    <3>3. Data(obj', at')
      BY <1>1, <1>4, <3>1, <3>2, StateFacts, Take
    <3>4. Kept(obj, at, obj', t)
      BY <1>1, <3>1, StateFacts, Distinct, KeptRef
    <3> QED
      BY <1>1, <3>1, <3>3, <3>4, StateFacts, RefFacts
  <2>2. CASE c \in Weak
    <3>1. obj' = [obj EXCEPT ![o].weak_owner = c]
      BY <1>0, <2>2, StateFacts DEF Added
    <3>2. /\ obj' \in [Objs -> ObjRecord] /\ \A q \in Objs : q # o => obj'[q] = obj[q]
          /\ obj'[o].ref_cnt = obj[o].ref_cnt /\ obj'[o].key = obj[o].key /\ obj'[o].ops = obj[o].ops
          /\ obj'[o].weak_owner = c
      BY <1>1, <2>2, <3>1, StateFacts DEF ObjRecord
    <3>3. \A d \in Strong, l \in Keys : at[Entry(d, l)] # o
      BY <1>1, PlaceFacts, Distinct
    <3>4. obj[o].ref_cnt > 0
      BY <1>1
    <3>5. Data(obj', at')
      BY <1>1, <1>4, <2>2, <3>2, <3>3, <3>4, StateFacts, WeakAdd
    <3>6. \A u \in Threads : u # t => Object(t) # Object(u)
      BY Distinct
    <3>7. Kept(obj, at, obj', t)
      BY <1>1, <3>2, <3>6 DEF Kept
    <3> QED
      BY <1>1, <3>2, <3>5, <3>7
  <2> QED
    BY <1>1, <2>1, <2>2 DEF Caches
<1>7. Effect(t)
  <2>1. \A d \in Strong, l \in Keys : at[Entry(d, l)] # NULL => at'[Entry(d, l)] = at[Entry(d, l)]
    BY <1>5, StateFacts
  <2>2. \A d \in Weak, l \in Keys : at[Entry(d, l)] = NULL /\ at'[Entry(d, l)] # NULL => d = c
    BY <1>5, StateFacts
  <2> QED
    BY <1>0, <1>5, <1>6, <2>1, <2>2 DEF Effect
<1>8. Local(obj', at', th'[t], t)
  BY <1>1, <1>2, <1>3, <1>5, <1>6 DEF Local, Holding, Raw, Formed
<1>9. \A d \in Strong \cap live, l \in Keys : at[Entry(d, l)] # NULL => at'[Entry(d, l)] = at[Entry(d, l)]
  BY <1>5, StateFacts
<1> QED
  BY <1>0, <1>3, <1>5, <1>7, <1>8, <1>9, StateFacts, AdvancePlain, StaysIf

(* ... with a raw entry: it is replaced, which happens in strong caches only, *)
(* and moves to the local variable.                                           *)
LEMMA InsertReplaceOK ==
    ASSUME Inv, NEW t \in Threads, Insert(t), at[Entry(th[t].cache, th[t].key)] # NULL,
           Replaces(at[Entry(th[t].cache, th[t].key)], at[Object(t)])
    PROVE  Inv' /\ Stays
<1> DEFINE c == th[t].cache
           k == th[t].key
           o == at[Object(t)]
           E == Entry(c, k)
           e == at[E]
           m1 == [at EXCEPT ![E] = NULL]
           m2 == [m1 EXCEPT ![Other(t)] = e]
<1>0. /\ th[t].pc = "insert" /\ lock[c] = NULL /\ at' = [at EXCEPT ![E] = o, ![Other(t)] = e]
      /\ obj' = Ref(obj, o) /\ th' = [th EXCEPT ![t].pc = "drop"] /\ UNCHANGED <<lock, live, disk>>
  BY DEF Insert
<1>1. /\ c \in Caches /\ k \in Keys /\ E \in Places
      /\ Object(t) \in Counted /\ Object(t) \in Places /\ Other(t) \in Counted /\ Other(t) \in Places
      /\ at[Other(t)] = NULL /\ o \in Objs /\ o # NULL /\ obj[o].ref_cnt = 1 /\ obj[o].key = k
      /\ obj[o].ops = ops_of[k] /\ obj[o].weak_owner = NULL
  BY <1>0, InsertFacts
<1>2. th'[t].pc = "drop"
  BY <1>0, StateFacts DEF CallRecord
<1>3. Only(t) /\ GoesOn(t) /\ th'[t].key = k
  BY <1>0, <1>2, PcStep, PcGoesOn DEF Holding, Formed
<1>4. e \in Objs /\ e # NULL /\ c \in Strong /\ E \in Counted /\ obj[e].ops # ops_of[k]
  <2>1. obj[e].ops # ops_of[k]
    BY <1>1 DEF Replaces
  <2>2. e \in Objs /\ c \notin Weak
    BY <1>1, <2>1, EntryObject
  <2> QED
    BY <1>1, <2>1, <2>2, PlaceFacts DEF Caches
<1>5. E # Other(t) /\ E # Object(t)
  BY Distinct
<1>6. /\ Put(at, m1, E, NULL) /\ Put(m1, m2, Other(t), e) /\ Put(m2, at', E, o) /\ m2[E] = NULL
  BY <1>0, <1>1, <1>4, <1>5, StateFacts DEF Put
<1> HIDE DEF m1, m2, E
<1>7. Fits(Other(t), obj[e])
  BY Distinct DEF Fits
<1>8. Data(obj, m2)
  BY <1>1, <1>4, <1>6, <1>7, StateFacts, Move
<1>9. Fits(E, obj[o])
  BY <1>1, Distinct DEF Fits, Suits, E
<1>10. Data(obj', at')
  <2>1. obj[o].ref_cnt > 0
    BY <1>1
  <2> QED
    BY <1>0, <1>1, <1>4, <1>6, <1>8, <1>9, <2>1, Take
<1>11. Kept(obj, at, obj', t)
  BY <1>0, <1>1, StateFacts, Distinct, KeptRef
<1>12. /\ \A q \in Places : q # E /\ q # Other(t) => at'[q] = at[q]
       /\ at'[E] = o /\ at'[Other(t)] = e
  BY <1>1, <1>5, <1>6 DEF Put
<1>13. /\ \A u \in Threads : at'[Object(u)] = at[Object(u)]
       /\ \A u \in Threads : u # t => at'[Other(u)] = at[Other(u)]
       /\ \A d \in Caches, l \in Keys : d # c \/ l # k => at'[Entry(d, l)] = at[Entry(d, l)]
       /\ at'[Entry(c, k)] = o
       /\ \A h \in Handles : at'[Handle(h)] = at[Handle(h)]
  <2>1. \A u \in Threads : Object(u) \in Places /\ Object(u) # E /\ Object(u) # Other(t)
    BY PlaceFacts, Distinct DEF E
  <2>2. \A u \in Threads : Other(u) \in Places /\ Other(u) # E /\ (u # t => Other(u) # Other(t))
    BY PlaceFacts, Distinct DEF E
  <2>3. \A d \in Caches, l \in Keys :
           Entry(d, l) \in Places /\ Entry(d, l) # Other(t) /\ (d # c \/ l # k => Entry(d, l) # E)
    BY PlaceFacts, Distinct DEF E
  <2>4. \A h \in Handles : Handle(h) \in Places /\ Handle(h) # E /\ Handle(h) # Other(t)
    BY PlaceFacts, Distinct DEF E
  <2>5. /\ \A u \in Threads : at'[Object(u)] = at[Object(u)]
        /\ \A u \in Threads : u # t => at'[Other(u)] = at[Other(u)]
    BY <1>12, <2>1, <2>2
  <2>6. \A d \in Caches, l \in Keys : d # c \/ l # k => at'[Entry(d, l)] = at[Entry(d, l)]
    BY <1>12, <2>3
  <2>7. at'[Entry(c, k)] = o
    BY <1>12 DEF E
  <2>8. \A h \in Handles : at'[Handle(h)] = at[Handle(h)]
    BY <1>12, <2>4
  <2> QED
    BY <2>5, <2>6, <2>7, <2>8
<1>14. Effect(t)
  <2>1. \A d \in Strong, l \in Keys : at[Entry(d, l)] # NULL => at'[Entry(d, l)] # NULL
    BY <1>1, <1>13, StateFacts
  <2>2. \A d \in Weak, l \in Keys : at'[Entry(d, l)] = at[Entry(d, l)]
    BY <1>4, <1>13, StateFacts
  <2> QED
    BY <1>10, <1>11, <1>13, <2>1, <2>2 DEF Effect
<1>15. obj'[o].key = k /\ obj'[o].ops = ops_of[k]
  BY <1>0, <1>1, StateFacts, RefFacts
<1>16. Local(obj', at', th'[t], t)
  BY <1>1, <1>2, <1>3, <1>4, <1>12, <1>13, <1>15 DEF Local, Holding, Raw, Formed
<1>17. \A d \in Strong \cap live, l \in Keys :
          at[Entry(d, l)] # NULL /\ obj[at[Entry(d, l)]].ops = ops_of[l] => at'[Entry(d, l)] = at[Entry(d, l)]
  <2> SUFFICES ASSUME NEW d \in Strong, NEW l \in Keys, obj[at[Entry(d, l)]].ops = ops_of[l]
               PROVE  at'[Entry(d, l)] = at[Entry(d, l)]
    OBVIOUS
  <2>1. d # c \/ l # k
    BY <1>4 DEF E
  <2> QED
    BY <1>13, <2>1, StateFacts
<1> QED
  BY <1>0, <1>3, <1>13, <1>14, <1>16, <1>17, StateFacts, AdvancePlain, StaysIf

(* ... with a formed entry: the call goes on with that one.                   *)
LEMMA InsertFoundOK ==
    ASSUME Inv, NEW t \in Threads, Insert(t), at[Entry(th[t].cache, th[t].key)] # NULL,
           ~ Replaces(at[Entry(th[t].cache, th[t].key)], at[Object(t)])
    PROVE  Inv' /\ Stays
<1> DEFINE c == th[t].cache
           k == th[t].key
           o == at[Object(t)]
           E == Entry(c, k)
           e == at[E]
           m1 == [at EXCEPT ![Object(t)] = NULL]
           m2 == [m1 EXCEPT ![Other(t)] = o]
<1>0. /\ th[t].pc = "insert" /\ at' = [at EXCEPT ![Object(t)] = e, ![Other(t)] = o]
      /\ obj' = Ref(obj, e) /\ th' = [th EXCEPT ![t].pc = "drop", ![t].add = FALSE]
      /\ UNCHANGED <<lock, live, disk>>
  BY DEF Insert
<1>1. /\ c \in Caches /\ k \in Keys /\ E \in Places
      /\ Object(t) \in Counted /\ Object(t) \in Places /\ Other(t) \in Counted /\ Other(t) \in Places
      /\ at[Other(t)] = NULL /\ o \in Objs /\ o # NULL /\ obj[o].ops = ops_of[k]
  BY <1>0, InsertFacts
<1>2. th'[t].pc = "drop" /\ th'[t].key = k /\ Only(t) /\ GoesOn(t)
  <2> DEFINE T == [th EXCEPT ![t].pc = "drop"]
  <2>1. /\ T \in [Threads -> CallRecord] /\ T[t].pc = "drop" /\ \A u \in Threads : u # t => T[u] = th[u]
        /\ T[t].cache = c /\ T[t].srcs = th[t].srcs /\ T[t].src = th[t].src /\ T[t].key = k
        /\ T[t].handle = th[t].handle /\ T[t].todo = th[t].todo
    BY StateFacts DEF CallRecord
  <2>2. th' = [T EXCEPT ![t].add = FALSE]
    BY <1>0
  <2> HIDE DEF T
  <2>3. /\ th' \in [Threads -> CallRecord] /\ th'[t].pc = "drop" /\ \A u \in Threads : u # t => th'[u] = th[u]
        /\ th'[t].cache = c /\ th'[t].srcs = th[t].srcs /\ th'[t].src = th[t].src /\ th'[t].key = k
        /\ th'[t].handle = th[t].handle /\ th'[t].todo = th[t].todo
    <3> DEFINE q == [T[t] EXCEPT !.add = FALSE]
    <3>1. /\ q \in CallRecord /\ q.pc = T[t].pc /\ q.cache = T[t].cache /\ q.srcs = T[t].srcs /\ q.src = T[t].src
          /\ q.key = T[t].key /\ q.handle = T[t].handle /\ q.todo = T[t].todo
      BY <2>1 DEF CallRecord
    <3>2. th' = [T EXCEPT ![t] = q]
      BY <2>1, <2>2
    <3> HIDE DEF q
    <3>3. th' \in [Threads -> CallRecord] /\ th'[t] = q /\ \A u \in Threads : u # t => th'[u] = T[u]
      BY <2>1, <3>1, <3>2
    <3> QED
      BY <2>1, <3>1, <3>3
  <2>4. th[t].pc = "insert"
    BY <1>0
  <2> QED
    BY <2>3, <2>4 DEF Only, GoesOn, Closing, Merging, Holding, Formed
<1>4. e \in Objs /\ e # NULL /\ obj[e].ref_cnt > 0 /\ obj[e].key = k /\ obj[e].ops = ops_of[k]
  <2>1. obj[e].ops = ops_of[k]
    BY <1>1 DEF Replaces
  <2> QED
    BY <1>1, <2>1, EntryObject
<1>5. Object(t) # Other(t)
  BY Distinct
<1>6. /\ Put(at, m1, Object(t), NULL) /\ Put(m1, m2, Other(t), o) /\ Put(m2, at', Object(t), e)
      /\ m2[Object(t)] = NULL
  BY <1>0, <1>1, <1>4, <1>5, StateFacts DEF Put
<1> HIDE DEF m1, m2, E
<1>7. Fits(Other(t), obj[o]) /\ Fits(Object(t), obj[e])
  BY Distinct DEF Fits
<1>8. Data(obj, m2)
  BY <1>1, <1>6, <1>7, StateFacts, Move
<1>10. Data(obj', at')
  BY <1>0, <1>1, <1>4, <1>6, <1>7, <1>8, Take
<1>11. Kept(obj, at, obj', t)
  <2>1. \A u \in Threads : E # Object(u)
    BY Distinct DEF E
  <2> QED
    BY <1>0, <1>1, <1>4, <2>1, StateFacts, KeptRef
<1>12. /\ \A q \in Places : q # Object(t) /\ q # Other(t) => at'[q] = at[q]
       /\ at'[Object(t)] = e /\ at'[Other(t)] = o
  BY <1>1, <1>5, <1>6 DEF Put
<1>13. /\ \A u \in Threads : u # t => at'[Object(u)] = at[Object(u)] /\ at'[Other(u)] = at[Other(u)]
       /\ \A d \in Caches, l \in Keys : at'[Entry(d, l)] = at[Entry(d, l)]
       /\ \A h \in Handles : at'[Handle(h)] = at[Handle(h)]
  BY <1>12, PlaceFacts, Distinct
<1>14. Effect(t)
  BY <1>10, <1>11, <1>13, StateFacts DEF Effect
<1>15. obj'[e].key = k /\ obj'[e].ops = ops_of[k]
  BY <1>0, <1>4, StateFacts, RefFacts
<1>16. Local(obj', at', th'[t], t)
  BY <1>1, <1>2, <1>4, <1>12, <1>15 DEF Local, Holding, Raw, Formed
<1>17. lock' = lock /\ live' = live /\ disk' \in SUBSET Keys
  BY <1>0, StateFacts
<1>18. Stays
  BY <1>13, <1>14, StateFacts, StaysIf
<1> QED
  BY <1>2, <1>13, <1>14, <1>16, <1>17, <1>18, AdvancePlain

(* The three cases together.                                                  *)
LEMMA InsertOK ==
    ASSUME Inv, NEW t \in Threads, Insert(t)
    PROVE  Inv' /\ Stays
BY InsertNewOK, InsertReplaceOK, InsertFoundOK

(* The object that lost is unreferenced after the lock is released.           *)
LEMMA InsertDropOK ==
    ASSUME Inv, NEW t \in Threads, InsertDrop(t)
    PROVE  Inv' /\ Stays
<1> DEFINE o == at[Other(t)]
           r == at[Object(t)]
<1>0. /\ th[t].pc = "drop" /\ UNCHANGED <<lock, live, disk>> /\ th' = [th EXCEPT ![t].pc = "return"]
      /\ obj' = Unref(obj, o) /\ Leaves(at', Other(t), o)
  BY DEF InsertDrop, Leaves
<1>1. /\ Other(t) \in Counted /\ Other(t) \in Places /\ o # NULL
      /\ Object(t) \in Counted /\ r \in Objs /\ r # NULL /\ obj[r].ref_cnt > 0 /\ obj[r].key = th[t].key
      /\ obj[r].ops = ops_of[th[t].key]
  BY <1>0, HeldFacts, PlaceFacts DEF Inv, Local, Holding, Raw, Formed
<1>2. th'[t].pc = "return"
  BY <1>0, StateFacts DEF CallRecord
<1>3. Only(t) /\ GoesOn(t) /\ th'[t].key = th[t].key
  BY <1>0, <1>2, PcStep, PcGoesOn DEF Holding, Formed
<1>4. /\ Data(obj', at') /\ Kept(obj, at, obj', t) /\ at'[Other(t)] = NULL
      /\ \A q \in Places : q # Other(t) => at'[q] = at[q] \/ (at'[q] = NULL /\ q \notin Counted)
  <2>1. \A u \in Threads : u # t => Other(t) # Object(u)
    BY Distinct
  <2>2. Data(obj, at) /\ Other(t) \in Counted /\ o # NULL
    BY <1>1, StateFacts
  <2>3. obj' = Unref(obj, o) /\ Leaves(at', Other(t), o)
    BY <1>0
  <2> QED
    BY <2>1, <2>2, <2>3, Dropped
<1>5. /\ \A u \in Threads : at'[Object(u)] = at[Object(u)]
      /\ \A u \in Threads : u # t => at'[Other(u)] = at[Other(u)]
      /\ \A d \in Strong, l \in Keys : at'[Entry(d, l)] = at[Entry(d, l)]
      /\ \A d \in Weak, l \in Keys : at'[Entry(d, l)] \in {at[Entry(d, l)], NULL}
      /\ \A h \in Handles : at'[Handle(h)] = at[Handle(h)]
  <2>1. /\ \A u \in Threads : Object(u) \in Counted /\ Other(u) \in Counted
        /\ \A d \in Strong, l \in Keys : Entry(d, l) \in Counted
        /\ \A d \in Weak, l \in Keys : Entry(d, l) \in Places
        /\ \A h \in Handles : Handle(h) \in Counted
        /\ Counted \subseteq Places
    BY PlaceFacts
  <2>2. /\ \A u \in Threads : Object(u) # Other(t) /\ (u # t => Other(u) # Other(t))
        /\ \A d, l : Entry(d, l) # Other(t)
        /\ \A h \in Handles : Handle(h) # Other(t)
    BY Distinct
  <2>3. \A q \in Counted : q # Other(t) => at'[q] = at[q]
    BY <1>4, <2>1
  <2>4. \A q \in Places : q # Other(t) => at'[q] \in {at[q], NULL}
    BY <1>4
  <2> QED
    BY <2>1, <2>2, <2>3, <2>4
<1>6. Effect(t)
  BY <1>4, <1>5 DEF Effect
<1>7. obj'[r].key = obj[r].key /\ obj'[r].ops = obj[r].ops
  <2>1. obj'[r].ref_cnt > 0
    BY <1>1, <1>4, <1>5, RefersTo
  <2> QED
    BY <1>1, <1>4, <2>1 DEF Kept
<1>8. Local(obj', at', th'[t], t)
  BY <1>1, <1>2, <1>3, <1>4, <1>5, <1>7 DEF Local, Holding, Raw, Formed
<1> QED
  BY <1>0, <1>3, <1>5, <1>6, <1>8, StateFacts, AdvancePlain, StaysIf

(* The reference moves from the call to the handle it was promised.           *)
LEMMA ReturnOK ==
    ASSUME Inv, NEW t \in Threads, Return(t)
    PROVE  Inv' /\ Stays
<1> DEFINE o == at[Object(t)]
           h == th[t].handle
           m == [at EXCEPT ![Object(t)] = NULL]
<1>0. /\ th[t].pc = "return" /\ UNCHANGED <<obj, lock, live>> /\ th' = Ended(t)
      /\ at' = [at EXCEPT ![Handle(h)] = o, ![Object(t)] = NULL]
  BY DEF Return
<1>1. /\ h \in Handles /\ h # NULL /\ th[t].key \in Keys
      /\ Object(t) \in Counted /\ Object(t) \in Places /\ Other(t) \in Places /\ at[Other(t)] = NULL
      /\ o \in Objs /\ o # NULL /\ obj[o].key = th[t].key /\ obj[o].ops = ops_of[th[t].key]
      /\ Handle(h) \in Counted /\ Handle(h) \in Places
  BY <1>0, CallFacts, HeldFacts, PlaceFacts, CacheAssumption DEF Inv, Local, Holding, Formed
<1>2. at[Handle(h)] = NULL /\ Handle(h) # Object(t)
  BY <1>1, Distinct DEF Inv, HandlesOK
<1>3. disk' \in SUBSET Keys
  BY <1>1, StateFacts DEF Return
<1>4. Only(t) /\ th'[t] = Idle
  BY <1>0, EndStep
<1>5. Put(at, m, Object(t), NULL) /\ Put(m, at', Handle(h), o)
  BY <1>0, <1>1, <1>2, StateFacts DEF Put
<1>6. Fits(Handle(h), obj[o])
  BY Distinct DEF Fits
<1>7. /\ \A q \in Places : q # Object(t) /\ q # Handle(h) => at'[q] = at[q]
      /\ at'[Object(t)] = NULL /\ at'[Handle(h)] = o
  BY <1>1, <1>2, <1>5 DEF Put
<1> HIDE DEF m
<1>8. Data(obj, at')
  BY <1>1, <1>2, <1>5, <1>6, StateFacts, Move
<1>9. Data(obj', at') /\ Kept(obj, at, obj', t)
  BY <1>0, <1>8 DEF Kept
<1>10. /\ \A u \in Threads : u # t => at'[Object(u)] = at[Object(u)]
       /\ \A u \in Threads : at'[Other(u)] = at[Other(u)]
       /\ \A d \in Caches, l \in Keys : at'[Entry(d, l)] = at[Entry(d, l)]
       /\ \A g \in Handles : g # h => at'[Handle(g)] = at[Handle(g)]
  BY <1>7, PlaceFacts, Distinct
<1>11. Effect(t)
  BY <1>9, <1>10, StateFacts DEF Effect
<1>12. Local(obj', at', th'[t], t)
  BY <1>1, <1>4, <1>7, <1>10, IdleFacts DEF Local, Holding, Raw, Formed
<1>13. HandlesOK(obj', at', th')
  <2>1. ASSUME NEW u \in Threads, th'[u].handle # NULL PROVE at'[Handle(th'[u].handle)] = NULL
    <3>1. u # t /\ th'[u] = th[u] /\ th[u].handle # h
      BY <1>1, <1>4, <2>1, IdleFacts DEF Only, Inv, HandlesOK
    <3>2. th[u].handle \in Handles /\ at[Handle(th[u].handle)] = NULL
      BY <2>1, <3>1, StateFacts DEF Inv, HandlesOK, CallRecord
    <3> QED
      BY <1>10, <3>1, <3>2
  <2>2. \A u, v \in Threads : u # v /\ th'[u].handle = th'[v].handle => th'[u].handle = NULL
    <3>1. \A u, v \in Threads : u # v /\ th[u].handle = th[v].handle => th[u].handle = NULL
      BY DEF Inv, HandlesOK
    <3>2. th'[t].handle = NULL /\ \A u \in Threads : u # t => th'[u] = th[u]
      BY <1>4, IdleFacts DEF Only
    <3> QED
      BY <3>1, <3>2
  <2>3. ASSUME NEW g \in Handles, at'[Handle(g)] # NULL
        PROVE  obj'[at'[Handle(g)]].ops = ops_of[obj'[at'[Handle(g)]].key]
    <3>1. CASE g = h
      BY <1>0, <1>1, <1>7, <3>1
    <3>2. CASE g # h
      BY <1>0, <1>10, <2>3, <3>2 DEF Inv, HandlesOK
    <3> QED
      BY <3>1, <3>2
  <2> QED
    BY <2>1, <2>2, <2>3 DEF HandlesOK
<1> QED
  BY <1>0, <1>3, <1>4, <1>10, <1>11, <1>12, <1>13, StateFacts, Advance, StaysIf
=============================================================================
