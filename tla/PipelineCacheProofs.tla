------------------------- MODULE PipelineCacheProofs -------------------------
(***************************************************************************)
(* The remaining steps of PipelineCache preserve the invariant Inv, and    *)
(* the theorems that follow: reference counts and weak caches are exact,   *)
(* lookups return what they were asked for, and formed objects stay.       *)
(***************************************************************************)
EXTENDS PipelineCacheCalls

(* A step that changes no object and no place.                                *)
LEMMA SameData ==
    ASSUME Inv, obj' = obj, at' = at, NEW t \in Threads, Only(t), th[t].pc \notin Holding, th'[t].pc \notin Holding,
           HandlesOK(obj, at, th'), Control(at, lock', live', th'), Types(lock', live', disk', th')
    PROVE  Inv' /\ Stays
<1>1. Effect(t)
  BY StateFacts DEF Effect, Kept
<1>2. Local(obj', at', th'[t], t)
  BY DEF Inv, Local, Holding, Raw, Formed
<1>3. \A u \in Threads : Local(obj', at', th'[u], u)
  BY <1>1, <1>2, LocalsKeep
<1>4. Data(obj', at')
  BY <1>1 DEF Effect
<1>5. HandlesOK(obj', at', th') /\ Control(at', lock', live', th')
  OBVIOUS
<1>6. Inv'
  BY <1>3, <1>4, <1>5 DEF Inv
<1> QED
  BY <1>1, <1>6, StaysIf

(* A handle is promised to a new call.                                        *)
LEMMA PromiseHandle ==
    ASSUME NEW f, NEW a, NEW t \in Threads, NEW h \in Handles, HandlesOK(f, a, th), a[Handle(h)] = NULL,
           \A u \in Threads : th[u].handle # h, Only(t), th'[t].handle = h
    PROVE  HandlesOK(f, a, th')
<1>1. \A u \in Threads : th'[u].handle # NULL => a[Handle(th'[u].handle)] = NULL
  BY DEF HandlesOK, Only
<1>2. \A u, v \in Threads : u # v /\ th'[u].handle = th'[v].handle => th'[u].handle = NULL
  BY DEF HandlesOK, Only
<1> QED
  BY <1>1, <1>2 DEF HandlesOK

(* No handle is promised to the call that thread t begins or ends.            *)
LEMMA NoHandle ==
    ASSUME NEW f, NEW a, NEW t \in Threads, HandlesOK(f, a, th), Only(t), th'[t].handle \in {th[t].handle, NULL}
    PROVE  HandlesOK(f, a, th')
<1>1. \A u \in Threads : th'[u].handle # NULL => a[Handle(th'[u].handle)] = NULL
  BY DEF HandlesOK, Only
<1>2. \A u, v \in Threads : u # v /\ th'[u].handle = th'[v].handle => th'[u].handle = NULL
  BY DEF HandlesOK, Only
<1> QED
  BY <1>1, <1>2 DEF HandlesOK

(* A lookup starts.                                                           *)
LEMMA LookupCallOK ==
    ASSUME Inv, NEW t \in Threads, NEW c \in Caches, NEW k \in Keys, NEW h \in Handles, LookupCall(t, c, k, h)
    PROVE  Inv' /\ Stays
<1>0. /\ th[t].pc = "idle" /\ c \in live /\ at[Handle(h)] = NULL /\ \A u \in Threads : th[u].handle # h
      /\ UNCHANGED <<obj, at, lock, live, disk>>
  BY DEF LookupCall, FreeHandle
<1> DEFINE r == [Idle EXCEPT !.pc = "search", !.cache = c, !.key = k, !.handle = h]
<1>1. /\ r \in CallRecord /\ r.pc = "search" /\ r.cache = c /\ r.key = k /\ r.handle = h /\ r.srcs = {}
  BY DEF Idle, CallRecord
<1>2. th' = [th EXCEPT ![t] = r]
  BY DEF LookupCall
<1> HIDE DEF r
<1>3. th'[t] = r /\ Only(t)
  BY <1>1, <1>2, StateFacts DEF Only
<1>4. Begins(t)
  BY <1>0, <1>1, <1>3 DEF Begins
<1>5. Control(at, lock, live, th')
  BY <1>3, <1>4, StateFacts, BeginControl DEF Inv
<1>6. HandlesOK(obj, at, th')
  BY <1>0, <1>1, <1>3, PromiseHandle DEF Inv
<1>7. Types(lock, live, disk, th')
  BY <1>3 DEF Inv, Types, Only
<1>8. th[t].pc \notin Holding /\ th'[t].pc \notin Holding
  BY <1>0, <1>1, <1>3 DEF Holding, Raw, Formed
<1>9. /\ obj' = obj /\ at' = at /\ Control(at, lock', live', th') /\ Types(lock', live', disk', th')
  BY <1>0, <1>5, <1>7
<1> QED
  BY <1>3, <1>6, <1>8, <1>9, SameData

(* An insertion starts with an object that only this call knows.              *)
LEMMA InsertCallOK ==
    ASSUME Inv, NEW t \in Threads, NEW c \in Caches, NEW k \in Keys, NEW h \in Handles, NEW add \in BOOLEAN,
           InsertCall(t, c, k, h, add)
    PROVE  Inv' /\ Stays
<1>0. /\ th[t].pc = "idle" /\ c \in live /\ at[Handle(h)] = NULL /\ \A u \in Threads : th[u].handle # h
      /\ UNCHANGED <<lock, live>>
  BY DEF InsertCall, FreeHandle
<1>1. PICK o \in Objs : /\ obj[o] = Free /\ obj' = [obj EXCEPT ![o] = New(k, ops_of[k])]
                        /\ at' = [at EXCEPT ![Object(t)] = o]
  BY DEF InsertCall
<1> DEFINE r == [Idle EXCEPT !.pc = "insert", !.cache = c, !.key = k, !.add = add, !.handle = h]
<1>2. /\ r \in CallRecord /\ r.pc = "insert" /\ r.cache = c /\ r.key = k /\ r.handle = h /\ r.srcs = {}
  BY DEF Idle, CallRecord
<1>3. th' = [th EXCEPT ![t] = r]
  BY DEF InsertCall
<1> HIDE DEF r
<1>4. th'[t] = r /\ Only(t)
  BY <1>2, <1>3, StateFacts DEF Only
<1>5. disk' \in SUBSET Keys
  BY StateFacts DEF InsertCall
<1>6. /\ Object(t) \in Counted /\ Object(t) \in Places /\ Other(t) \in Places
      /\ at[Object(t)] = NULL /\ at[Other(t)] = NULL /\ ops_of[k] \in {"raw", "real"}
  BY <1>0, PlaceFacts, CacheAssumption DEF Inv, Local, Holding, Raw, Formed
<1>7. Put(at, at', Object(t), o)
  BY <1>1, <1>6, StateFacts DEF Put
<1>8. /\ New(k, ops_of[k]) \in ObjRecord /\ New(k, ops_of[k]).ref_cnt = 1 /\ New(k, ops_of[k]).key = k
      /\ New(k, ops_of[k]).ops = ops_of[k] /\ New(k, ops_of[k]).weak_owner = NULL
  BY <1>6, NewFacts
<1>9. Set(obj, obj', o, New(k, ops_of[k]))
  BY <1>1, <1>8, StateFacts DEF Set
<1>10. Fits(Object(t), New(k, ops_of[k]))
  BY Distinct DEF Fits
<1>11. Data(obj', at')
  BY <1>1, <1>6, <1>7, <1>9, <1>10, StateFacts, Create
<1>12. Kept(obj, at, obj', t)
  BY <1>1, <1>9, KeptNew
<1>13. /\ at'[Object(t)] = o
       /\ \A u \in Threads : u # t => at'[Object(u)] = at[Object(u)]
       /\ \A u \in Threads : at'[Other(u)] = at[Other(u)]
       /\ \A d \in Caches, l \in Keys : at'[Entry(d, l)] = at[Entry(d, l)]
       /\ \A g \in Handles : at'[Handle(g)] = at[Handle(g)]
  BY <1>7, PlaceFacts, Distinct DEF Put
<1>14. Effect(t)
  BY <1>11, <1>12, <1>13, StateFacts DEF Effect
<1>15. Local(obj', at', th'[t], t)
  BY <1>2, <1>4, <1>6, <1>8, <1>9, <1>13, StateFacts DEF Local, Set, Holding, Raw, Formed
<1>16. \A u \in Threads : Local(obj', at', th'[u], u)
  BY <1>4, <1>14, <1>15, LocalsKeep
<1>17. Begins(t)
  BY <1>0, <1>2, <1>4 DEF Begins
<1>18. Control(at', lock, live, th')
  BY <1>4, <1>14, <1>17, StateFacts, EffectControl, BeginControl
<1>19. HandlesOK(obj', at', th)
  <2>1. HandlesOK(obj, at, th) /\ \A u \in Threads : th[u].handle \in Handles \cup {NULL}
    BY StateFacts DEF Inv, CallRecord
  <2> QED
    BY <1>11, <1>12, <1>13, <2>1, StateFacts, HandlesKeep
<1>20. HandlesOK(obj', at', th')
  BY <1>0, <1>2, <1>4, <1>13, <1>19, PromiseHandle
<1>21. Inv'
  BY <1>0, <1>4, <1>5, <1>11, <1>16, <1>18, <1>20 DEF Inv, Types, Only
<1> QED
  BY <1>13, <1>14, <1>21, StateFacts, StaysIf

-----------------------------------------------------------------------------
(* vk_pipeline_cache_object_ref and _unref on a handle *)

(* A step of the driver or the application, outside the calls.                *)
LEMMA HandleStep ==
    ASSUME Inv, Effect(NULL), UNCHANGED <<lock, live, disk, th>>, HandlesOK(obj', at', th)
    PROVE  Inv'
<1>1. Only(NULL) /\ NULL \notin Threads
  BY StateFacts DEF Only
<1>2. \A u \in Threads : Local(obj', at', th'[u], u)
  BY <1>1, LocalsKeep
<1>3. Control(at', lock, live, th)
  BY EffectControl
<1>4. Data(obj', at')
  BY DEF Effect
<1> QED
  BY <1>2, <1>3, <1>4 DEF Inv

(* A handle is copied.                                                        *)
LEMMA RetainOK ==
    ASSUME Inv, NEW h \in Handles, NEW g \in Handles, Retain(h, g)
    PROVE  Inv' /\ Stays
<1> DEFINE o == at[Handle(h)]
<1>0. /\ o # NULL /\ at[Handle(g)] = NULL /\ \A u \in Threads : th[u].handle # g
      /\ obj' = Ref(obj, o) /\ UNCHANGED <<lock, live, disk, th>>
  BY DEF Retain, FreeHandle
<1>1. Handle(h) \in Counted /\ Handle(g) \in Counted /\ Handle(h) \in Places /\ Handle(g) \in Places
  BY PlaceFacts
<1>2. o \in Objs /\ obj[o].ref_cnt > 0 /\ obj[o].ops = ops_of[obj[o].key]
  BY <1>0, <1>1, StateFacts, RefersTo DEF Inv, HandlesOK
<1>3. Put(at, at', Handle(g), o)
  BY <1>1, <1>2, StateFacts DEF Put, Retain
<1>4. Fits(Handle(g), obj[o])
  BY Distinct DEF Fits
<1>5. Data(obj', at')
  BY <1>0, <1>1, <1>2, <1>3, <1>4, StateFacts, Take
<1>6. Kept(obj, at, obj', NULL)
  BY <1>0, <1>1, <1>2, StateFacts, Distinct, KeptRef
<1>7. /\ at'[Handle(g)] = o
      /\ \A u \in Threads : at'[Object(u)] = at[Object(u)] /\ at'[Other(u)] = at[Other(u)]
      /\ \A d \in Caches, l \in Keys : at'[Entry(d, l)] = at[Entry(d, l)]
      /\ \A i \in Handles : i # g => at'[Handle(i)] = at[Handle(i)]
  BY <1>3, PlaceFacts, Distinct DEF Put
<1>8. Effect(NULL)
  BY <1>5, <1>6, <1>7, StateFacts DEF Effect
<1>9. HandlesOK(obj', at', th)
  <2>0. HandlesOK(obj, at, th) /\ \A u \in Threads : th[u].handle \in Handles \cup {NULL}
    BY StateFacts DEF Inv, CallRecord
  <2>1. \A u \in Threads : th[u].handle # NULL => at'[Handle(th[u].handle)] = NULL
    BY <1>0, <1>7, <2>0 DEF HandlesOK
  <2>2. ASSUME NEW i \in Handles, at'[Handle(i)] # NULL
        PROVE  obj'[at'[Handle(i)]].ops = ops_of[obj'[at'[Handle(i)]].key]
    <3>1. CASE i = g
      BY <1>0, <1>2, <1>7, <3>1, StateFacts, RefFacts
    <3>2. CASE i # g
      <4>1. at'[Handle(i)] = at[Handle(i)] /\ Handle(i) \in Counted
        BY <1>7, <3>2, PlaceFacts
      <4>2. at[Handle(i)] \in Objs
        BY <2>2, <4>1, StateFacts, RefersTo
      <4>3. obj'[at[Handle(i)]].ops = obj[at[Handle(i)]].ops /\ obj'[at[Handle(i)]].key = obj[at[Handle(i)]].key
        BY <1>0, <1>2, <4>2, StateFacts, RefFacts
      <4> QED
        BY <2>0, <2>2, <4>1, <4>3 DEF HandlesOK
    <3> QED
      BY <3>1, <3>2
  <2> QED
    BY <2>0, <2>1, <2>2 DEF HandlesOK
<1> QED
  BY <1>0, <1>7, <1>8, <1>9, StateFacts, HandleStep, StaysIf

(* A handle is given up, perhaps with the last reference.                     *)
LEMMA ReleaseOK ==
    ASSUME Inv, NEW h \in Handles, Release(h)
    PROVE  Inv' /\ Stays
<1> DEFINE o == at[Handle(h)]
<1>0. /\ o # NULL /\ obj' = Unref(obj, o) /\ Leaves(at', Handle(h), o) /\ UNCHANGED <<lock, live, disk, th>>
  BY DEF Release, Leaves
<1>1. Handle(h) \in Counted /\ \A u \in Threads : Handle(h) # Object(u)
  BY PlaceFacts, Distinct
<1>2. /\ Data(obj', at') /\ Kept(obj, at, obj', NULL) /\ at'[Handle(h)] = NULL
      /\ \A q \in Places : q # Handle(h) => at'[q] = at[q] \/ (at'[q] = NULL /\ q \notin Counted)
  BY <1>0, <1>1, StateFacts, Dropped
<1>3. /\ \A u \in Threads : at'[Object(u)] = at[Object(u)] /\ at'[Other(u)] = at[Other(u)]
      /\ \A d \in Strong, l \in Keys : at'[Entry(d, l)] = at[Entry(d, l)]
      /\ \A d \in Weak, l \in Keys : at'[Entry(d, l)] \in {at[Entry(d, l)], NULL}
      /\ \A i \in Handles : at'[Handle(i)] = at[Handle(i)] \/ at'[Handle(i)] = NULL
  BY <1>2, PlaceFacts, Distinct
<1>4. Effect(NULL)
  BY <1>2, <1>3 DEF Effect
<1>5. HandlesOK(obj', at', th)
  <2>0. HandlesOK(obj, at, th) /\ \A u \in Threads : th[u].handle \in Handles \cup {NULL}
    BY StateFacts DEF Inv, CallRecord
  <2> QED
    BY <1>2, <1>3, <2>0, StateFacts, HandlesKeep
<1> QED
  BY <1>0, <1>3, <1>4, <1>5, StateFacts, HandleStep, StaysIf
-----------------------------------------------------------------------------
(* vk_pipeline_cache_create, load and destroy *)

(* vk_pipeline_cache_load adds raw objects to a cache nobody else uses yet.   *)
LEMMA LoadEntryOK ==
    ASSUME Inv, NEW t \in Threads, NEW k \in Keys, LoadEntry(t, k)
    PROVE  Inv' /\ Stays
<1> DEFINE c == th[t].cache
<1>0. th[t].pc = "load" /\ UNCHANGED <<lock, live, th>> /\ disk' \in SUBSET Keys
  BY StateFacts DEF LoadEntry
<1>1. c \in Strong /\ Entry(c, k) \in Counted /\ Entry(c, k) \in Places /\ Only(t) /\ GoesOn(t)
  BY <1>0, StateFacts, PlaceFacts DEF Inv, Control, Sound, Only, GoesOn, Closing, Merging
<1>2. at[Object(t)] = NULL /\ at[Other(t)] = NULL
  BY <1>0 DEF Inv, Local, Holding, Raw, Formed
<1>3. CASE UNCHANGED <<obj, at>>
  <2>1. Effect(t)
    BY <1>3, StateFacts DEF Effect, Kept
  <2>2. Local(obj', at', th'[t], t)
    BY <1>0, <1>2, <1>3 DEF Local, Holding, Raw, Formed
  <2> QED
    BY <1>0, <1>1, <1>3, <2>1, <2>2, AdvancePlain, StaysIf
<1>4. ASSUME NEW o \in Objs, at[Entry(c, k)] = NULL, obj[o] = Free, obj' = [obj EXCEPT ![o] = New(k, "raw")],
             at' = [at EXCEPT ![Entry(c, k)] = o]
      PROVE  Inv' /\ Stays
  <2>1. Put(at, at', Entry(c, k), o)
    BY <1>1, <1>4, StateFacts DEF Put
  <2>2. /\ New(k, "raw") \in ObjRecord /\ New(k, "raw").key = k
        /\ New(k, "raw").ops = "raw" /\ New(k, "raw").weak_owner = NULL
    BY NewFacts
  <2>3. Set(obj, obj', o, New(k, "raw"))
    BY <1>4, <2>2, StateFacts DEF Set
  <2>4. Fits(Entry(c, k), New(k, "raw"))
    BY <2>2, Distinct DEF Fits, Suits
  <2>5. Data(obj', at')
    BY <1>1, <1>4, <2>1, <2>3, <2>4, StateFacts, Create
  <2>6. Kept(obj, at, obj', t)
    BY <1>4, <2>3, KeptNew
  <2>7. /\ \A u \in Threads : at'[Object(u)] = at[Object(u)] /\ at'[Other(u)] = at[Other(u)]
        /\ \A d \in Caches, l \in Keys : d # c \/ l # k => at'[Entry(d, l)] = at[Entry(d, l)]
        /\ at'[Entry(c, k)] = o
        /\ \A h \in Handles : at'[Handle(h)] = at[Handle(h)]
    BY <2>1, PlaceFacts, Distinct DEF Put
  <2>8. /\ \A d \in Strong, l \in Keys : at[Entry(d, l)] # NULL => at'[Entry(d, l)] = at[Entry(d, l)]
        /\ \A d \in Weak, l \in Keys : at'[Entry(d, l)] = at[Entry(d, l)]
    BY <1>1, <1>4, <2>7, StateFacts
  <2>9. Effect(t)
    BY <2>5, <2>6, <2>7, <2>8 DEF Effect
  <2>10. Local(obj', at', th'[t], t)
    BY <1>0, <1>2, <2>7 DEF Local, Holding, Raw, Formed
  <2> QED
    BY <1>0, <1>1, <2>7, <2>8, <2>9, <2>10, AdvancePlain, StaysIf
<1> QED
  BY <1>3, <1>4 DEF LoadEntry

(* vk_pipeline_cache_destroy unreferences the entries one by one; the cache   *)
(* is not live.                                                               *)
LEMMA DestroyEntryOK ==
    ASSUME Inv, NEW t \in Threads, NEW k \in Keys, DestroyEntry(t, k)
    PROVE  Inv' /\ Stays
<1> DEFINE c == th[t].cache
           o == at[Entry(c, k)]
<1>0. /\ th[t].pc = "destroy" /\ c \in Strong /\ o # NULL /\ obj' = Unref(obj, o)
      /\ Leaves(at', Entry(c, k), o) /\ UNCHANGED <<lock, live, disk, th>>
  BY DEF DestroyEntry, Leaves
<1>1. Entry(c, k) \in Counted /\ \A u \in Threads : Entry(c, k) # Object(u)
  BY <1>0, PlaceFacts, Distinct
<1>2. Only(t) /\ GoesOn(t)
  BY <1>0, StateFacts DEF Only, GoesOn
<1>3. at[Object(t)] = NULL /\ at[Other(t)] = NULL /\ c \notin live
  BY <1>0 DEF Inv, Local, Holding, Raw, Formed, Control, Exclusive, Closing
<1>4. /\ Data(obj', at') /\ Kept(obj, at, obj', t) /\ at'[Entry(c, k)] = NULL
      /\ \A q \in Places : q # Entry(c, k) => at'[q] = at[q] \/ (at'[q] = NULL /\ q \notin Counted)
  BY <1>0, <1>1, StateFacts, Dropped
<1>5. /\ \A u \in Threads : at'[Object(u)] = at[Object(u)] /\ at'[Other(u)] = at[Other(u)]
      /\ \A d \in Strong, l \in Keys : d # c => at'[Entry(d, l)] = at[Entry(d, l)]
      /\ \A d \in Strong, l \in Keys : d # c \/ l # k => at'[Entry(d, l)] = at[Entry(d, l)]
      /\ \A d \in Weak, l \in Keys : at'[Entry(d, l)] \in {at[Entry(d, l)], NULL}
      /\ \A h \in Handles : at'[Handle(h)] = at[Handle(h)]
  <2>1. \A d \in Weak, l \in Keys : Entry(d, l) # Entry(c, k)
    BY <1>0, Distinct, StateFacts
  <2> QED
    BY <1>4, <2>1, PlaceFacts, Distinct
<1>6. Effect(t)
  BY <1>0, <1>4, <1>5 DEF Effect
<1>7. Local(obj', at', th'[t], t)
  BY <1>0, <1>3, <1>5 DEF Local, Holding, Raw, Formed
<1>8. \A d \in Strong \cap live, l \in Keys : at'[Entry(d, l)] = at[Entry(d, l)]
  BY <1>3, <1>5
<1> QED
  BY <1>0, <1>2, <1>5, <1>6, <1>7, <1>8, StateFacts, AdvancePlain, StaysIf

(* vk_pipeline_cache_create starts on a cache nobody uses.                    *)
LEMMA CreateCallOK ==
    ASSUME Inv, NEW t \in Threads, NEW c \in Caches, CreateCall(t, c)
    PROVE  Inv' /\ Stays
<1> DEFINE r == [Idle EXCEPT !.pc = "load", !.cache = c]
<1>0. /\ th[t].pc = "idle" /\ c \in Strong /\ c \notin live /\ UNCHANGED <<obj, at, lock, live, disk>>
      /\ \A u \in Threads : c # th[u].cache /\ c \notin th[u].srcs
  BY DEF CreateCall, Uses
<1>1. r \in CallRecord /\ r.pc = "load" /\ r.cache = c /\ r.handle = NULL /\ r.srcs = {}
  BY DEF Idle, CallRecord
<1>2. th' = [th EXCEPT ![t] = r]
  BY DEF CreateCall
<1> HIDE DEF r
<1>3. th'[t] = r /\ Only(t)
  BY <1>1, <1>2, StateFacts DEF Only
<1>4. HandlesOK(obj, at, th')
  BY <1>1, <1>3, NoHandle DEF Inv
<1>5. Exclusive(live, th')
  BY <1>0, <1>1, <1>3, StateFacts DEF Inv, Control, Exclusive, Only
<1>6. \A u \in Threads : Sound(th'[u])
  BY <1>0, <1>1, <1>3 DEF Inv, Control, Sound, Only, Merging, Holding, Raw, Formed
<1>7. Locked(lock, th') /\ TodoThere(at, th') /\ Emptied(at, th')
  <2>1. \A u \in Threads : th'[u].pc \in Merging \cup {"destroy"} => th'[u] = th[u]
    BY <1>1, <1>3 DEF Only, Merging
  <2> QED
    BY <2>1 DEF Inv, Control, Locked, TodoThere, Emptied, Merging
<1>8. th[t].pc \notin Holding /\ th'[t].pc \notin Holding
  BY <1>0, <1>1, <1>3 DEF Holding, Raw, Formed
<1>9. Control(at, lock', live', th') /\ Types(lock', live', disk', th') /\ obj' = obj /\ at' = at
  BY <1>0, <1>3, <1>5, <1>6, <1>7 DEF Control, Inv, Types, Only
<1> QED
  BY <1>3, <1>4, <1>8, <1>9, SameData

(* The new cache becomes usable.                                              *)
LEMMA LoadDoneOK ==
    ASSUME Inv, NEW t \in Threads, LoadDone(t)
    PROVE  Inv' /\ Stays
<1> DEFINE c == th[t].cache
<1>0. th[t].pc = "load" /\ live' = live \cup {c} /\ th' = Ended(t) /\ UNCHANGED <<obj, at, lock, disk>>
  BY DEF LoadDone
<1>1. Only(t) /\ th'[t] = Idle
  BY <1>0, EndStep
<1>2. c \in Caches
  BY <1>0, StateFacts DEF Inv, Control, Sound
<1>3. HandlesOK(obj, at, th')
  BY <1>1, IdleFacts, NoHandle DEF Inv
<1>4. Control(at, lock, live, th')
  BY <1>1, AdvanceControl DEF Inv
<1>5. Exclusive(live', th')
  <2> SUFFICES ASSUME NEW u \in Threads, th'[u].pc \in Closing PROVE th'[u].cache # c
    BY <1>0, <1>4 DEF Control, Exclusive
  <2>1. u # t /\ th'[u] = th[u]
    BY <1>1, IdleFacts DEF Only, Closing
  <2> QED
    BY <2>1 DEF Inv, Control, Exclusive
<1>6. th[t].pc \notin Holding /\ th'[t].pc \notin Holding
  BY <1>0, <1>1, IdleFacts DEF Holding, Raw, Formed
<1>7. Control(at, lock', live', th') /\ Types(lock', live', disk', th') /\ obj' = obj /\ at' = at
  BY <1>0, <1>1, <1>2, <1>4, <1>5 DEF Control, Inv, Types, Only
<1> QED
  BY <1>1, <1>3, <1>6, <1>7, SameData

(* vk_pipeline_cache_destroy starts: a weak cache has no entry left, because  *)
(* each would be owned by an object that is still referenced.                 *)
LEMMA DestroyCallOK ==
    ASSUME Inv, NEW t \in Threads, NEW c \in Caches, DestroyCall(t, c)
    PROVE  Inv' /\ Stays
<1> DEFINE r == [Idle EXCEPT !.pc = "destroy", !.cache = c]
<1>0. /\ th[t].pc = "idle" /\ c \in live /\ live' = live \ {c} /\ UNCHANGED <<obj, at, lock, disk>>
      /\ \A u \in Threads : c # th[u].cache /\ c \notin th[u].srcs
      /\ c \in Weak => \A p \in Counted : at[p] # NULL => obj[at[p]].weak_owner # c
  BY DEF DestroyCall, Uses
<1>1. r \in CallRecord /\ r.pc = "destroy" /\ r.cache = c /\ r.handle = NULL /\ r.srcs = {}
  BY DEF Idle, CallRecord
<1>2. th' = [th EXCEPT ![t] = r]
  BY DEF DestroyCall
<1> HIDE DEF r
<1>3. th'[t] = r /\ Only(t)
  BY <1>1, <1>2, StateFacts DEF Only
<1>4. HandlesOK(obj, at, th')
  BY <1>1, <1>3, NoHandle DEF Inv
<1>5. Exclusive(live', th')
  BY <1>0, <1>1, <1>3, StateFacts DEF Inv, Control, Exclusive, Only
<1>6. \A u \in Threads : Sound(th'[u])
  BY <1>0, <1>1, <1>3 DEF Inv, Control, Sound, Only, Merging, Holding, Raw, Formed
<1>7. Locked(lock, th') /\ TodoThere(at, th')
  <2>1. \A u \in Threads : th'[u].pc \in Merging => th'[u] = th[u]
    BY <1>1, <1>3 DEF Only, Merging
  <2> QED
    BY <2>1 DEF Inv, Control, Locked, TodoThere, Merging
<1>8. ASSUME c \in Weak, NEW k \in Keys PROVE at[Entry(c, k)] = NULL
  <2> SUFFICES ASSUME at[Entry(c, k)] # NULL PROVE FALSE
    OBVIOUS
  <2> DEFINE o == at[Entry(c, k)]
  <2>1. o \in Objs /\ obj[o].ref_cnt > 0 /\ obj[o].weak_owner = c
    BY <1>8, StateFacts, EntryFacts
  <2>2. Count(at, o) # 0
    BY <2>1, StateFacts, DataFacts
  <2>3. PICK p \in Counted : at[p] = o
    BY <2>2, HasReference
  <2> QED
    BY <1>0, <1>8, <2>1, <2>3
<1>9. Emptied(at, th')
  <2> SUFFICES ASSUME NEW u \in Threads, th'[u].pc = "destroy", th'[u].cache \in Weak, NEW k \in Keys
               PROVE  at[Entry(th'[u].cache, k)] = NULL
    BY DEF Emptied
  <2>1. CASE u = t
    BY <1>1, <1>3, <1>8, <2>1
  <2>2. CASE u # t
    <3>1. th'[u] = th[u] /\ Emptied(at, th)
      BY <1>3, <2>2 DEF Only, Inv, Control
    <3> QED
      BY <3>1 DEF Emptied
  <2> QED
    BY <2>1, <2>2
<1>10. th[t].pc \notin Holding /\ th'[t].pc \notin Holding
  BY <1>0, <1>1, <1>3 DEF Holding, Raw, Formed
<1>11. Control(at, lock', live', th') /\ Types(lock', live', disk', th') /\ obj' = obj /\ at' = at
  BY <1>0, <1>3, <1>5, <1>6, <1>7, <1>9 DEF Control, Inv, Types, Only
<1> QED
  BY <1>3, <1>4, <1>10, <1>11, SameData

(* vk_pipeline_cache_destroy ends.                                            *)
LEMMA DestroyDoneOK ==
    ASSUME Inv, NEW t \in Threads, DestroyDone(t)
    PROVE  Inv' /\ Stays
<1>0. th[t].pc = "destroy" /\ th' = Ended(t) /\ UNCHANGED <<obj, at, lock, live, disk>>
  BY DEF DestroyDone
<1>1. Only(t) /\ th'[t] = Idle
  BY <1>0, EndStep
<1>2. HandlesOK(obj, at, th')
  BY <1>1, IdleFacts, NoHandle DEF Inv
<1>3. Control(at, lock, live, th')
  BY <1>1, AdvanceControl DEF Inv
<1>4. th[t].pc \notin Holding /\ th'[t].pc \notin Holding
  BY <1>0, <1>1, IdleFacts DEF Holding, Raw, Formed
<1>5. Control(at, lock', live', th') /\ Types(lock', live', disk', th') /\ obj' = obj /\ at' = at
  BY <1>0, <1>1, <1>3 DEF Inv, Types, Only
<1> QED
  BY <1>1, <1>2, <1>4, <1>5, SameData
-----------------------------------------------------------------------------
(* vk_common_MergePipelineCaches *)

(* A merge locks dst, which no other merge uses.                              *)
LEMMA MergeCallOK ==
    ASSUME Inv, NEW t \in Threads, NEW dst \in Strong, NEW srcs \in SUBSET Strong, MergeCall(t, dst, srcs)
    PROVE  Inv' /\ Stays
<1> DEFINE r == [Idle EXCEPT !.pc = "merge", !.cache = dst, !.srcs = srcs]
<1>0. /\ th[t].pc = "idle" /\ dst \in live /\ srcs \subseteq live /\ dst \notin srcs /\ lock[dst] = NULL
      /\ lock' = [lock EXCEPT ![dst] = t] /\ UNCHANGED <<obj, at, live, disk>>
  BY DEF MergeCall
<1>1. r \in CallRecord /\ r.pc = "merge" /\ r.cache = dst /\ r.handle = NULL /\ r.srcs = srcs
  BY StateFacts DEF Idle, CallRecord
<1>2. th' = [th EXCEPT ![t] = r]
  BY DEF MergeCall
<1> HIDE DEF r
<1>3. th'[t] = r /\ Only(t)
  BY <1>1, <1>2, StateFacts DEF Only
<1>4. HandlesOK(obj, at, th')
  BY <1>1, <1>3, NoHandle DEF Inv
<1>5. Exclusive(live, th')
  BY <1>0, <1>1, <1>3, StateFacts DEF Inv, Control, Exclusive, Only, Closing
<1>6. \A u \in Threads : Sound(th'[u])
  BY <1>0, <1>1, <1>3 DEF Inv, Control, Sound, Only, Merging, Holding, Raw, Formed
<1>7. lock' \in [Caches -> Threads \cup {NULL}] /\ lock'[dst] = t /\ \A c \in Caches : c # dst => lock'[c] = lock[c]
  BY <1>0, StateFacts
<1>8. Locked(lock', th')
  <2> SUFFICES ASSUME NEW u \in Threads
               PROVE  /\ th'[u].pc \in Merging => lock'[th'[u].cache] = u
                      /\ th'[u].pc = "merging" => lock'[th'[u].src] = u
    BY DEF Locked
  <2>1. CASE u = t
    BY <1>1, <1>3, <1>7, <2>1
  <2>2. CASE u # t
    <3>1. th'[u] = th[u] /\ Sound(th[u]) /\ th[u] \in CallRecord
      BY <1>3, <2>2, StateFacts DEF Inv, Control, Only
    <3>2. /\ th[u].pc \in Merging => lock[th[u].cache] = u /\ th[u].cache \in Caches
          /\ th[u].pc = "merging" => lock[th[u].src] = u /\ th[u].src \in Caches
      BY <3>1, StateFacts DEF Inv, Control, Locked, Sound, CallRecord
    <3> QED
      BY <1>0, <1>7, <3>1, <3>2, StateFacts
  <2> QED
    BY <2>1, <2>2
<1>9. TodoThere(at, th') /\ Emptied(at, th')
  <2>1. \A u \in Threads : th'[u].pc \in {"merging", "destroy"} => th'[u] = th[u]
    BY <1>1, <1>3 DEF Only
  <2> QED
    BY <2>1 DEF Inv, Control, TodoThere, Emptied
<1>10. th[t].pc \notin Holding /\ th'[t].pc \notin Holding
  BY <1>0, <1>1, <1>3 DEF Holding, Raw, Formed
<1>11. Control(at, lock', live', th') /\ Types(lock', live', disk', th') /\ obj' = obj /\ at' = at
  BY <1>0, <1>3, <1>5, <1>6, <1>7, <1>8, <1>9 DEF Control, Inv, Types, Only
<1> QED
  BY <1>3, <1>4, <1>10, <1>11, SameData

(* The locks a merge holds.                                                   *)
LEMMA LockFacts ==
    ASSUME Inv, NEW u \in Threads
    PROVE  /\ th[u].pc \in Merging => /\ th[u].cache \in Strong /\ th[u].cache \in Caches
                                      /\ lock[th[u].cache] = u /\ th[u].cache \notin th[u].srcs
           /\ th[u].pc = "merging" => /\ th[u].src \in Strong /\ th[u].src \in Caches /\ th[u].src \in th[u].srcs
                                      /\ lock[th[u].src] = u /\ th[u].src # th[u].cache
<1>1. Sound(th[u]) /\ th[u] \in CallRecord /\ Locked(lock, th)
  BY StateFacts DEF Inv, Control
<1>2. th[u].srcs \subseteq Strong
  BY <1>1 DEF CallRecord
<1> QED
  BY <1>1, <1>2, StateFacts DEF Sound, Locked, Merging

(* A merge locks the next source and will find its entries there.             *)
LEMMA MergeSourceOK ==
    ASSUME Inv, NEW t \in Threads, NEW src \in Strong, MergeSource(t, src)
    PROVE  Inv' /\ Stays
<1> DEFINE todo == {k \in Keys : at[Entry(src, k)] # NULL}
           r == [th[t] EXCEPT !.pc = "merging", !.src = src, !.todo = todo]
<1>0. /\ th[t].pc = "merge" /\ src \in th[t].srcs /\ lock[src] = NULL
      /\ lock' = [lock EXCEPT ![src] = t] /\ UNCHANGED <<obj, at, live, disk>>
  BY DEF MergeSource
<1>a. th[t] \in CallRecord /\ todo \in SUBSET Keys
  BY StateFacts
<1> HIDE DEF todo
<1>1. /\ r \in CallRecord /\ r.pc = "merging" /\ r.cache = th[t].cache /\ r.handle = th[t].handle
      /\ r.srcs = th[t].srcs /\ r.src = src /\ r.todo = todo
  BY <1>a DEF CallRecord
<1>2. th' = [th EXCEPT ![t] = r]
  BY StateFacts DEF MergeSource, todo
<1> HIDE DEF r
<1>3. th'[t] = r /\ Only(t)
  BY <1>1, <1>2, StateFacts DEF Only
<1>4. HandlesOK(obj, at, th')
  BY <1>1, <1>3, NoHandle DEF Inv
<1>5. Exclusive(live, th')
  BY <1>0, <1>1, <1>3, StateFacts DEF Inv, Control, Exclusive, Only, Closing
<1>6. \A u \in Threads : Sound(th'[u])
  BY <1>0, <1>1, <1>3 DEF Inv, Control, Sound, Only, Merging, Holding, Raw, Formed
<1>7. lock' \in [Caches -> Threads \cup {NULL}] /\ lock'[src] = t /\ \A c \in Caches : c # src => lock'[c] = lock[c]
  BY <1>0, StateFacts
<1>8. Locked(lock', th')
  <2> SUFFICES ASSUME NEW u \in Threads
               PROVE  /\ th'[u].pc \in Merging => lock'[th'[u].cache] = u
                      /\ th'[u].pc = "merging" => lock'[th'[u].src] = u
    BY DEF Locked
  <2>1. CASE u = t
    BY <1>0, <1>1, <1>3, <1>7, <2>1, LockFacts DEF Merging
  <2>2. CASE u # t
    BY <1>0, <1>3, <1>7, <2>2, LockFacts, StateFacts DEF Only
  <2> QED
    BY <2>1, <2>2
<1>9. TodoThere(at, th') /\ Emptied(at, th')
  <2>1. \A u \in Threads : u # t => th'[u] = th[u]
    BY <1>3 DEF Only
  <2>2. TodoThere(at, th')
    <3> SUFFICES ASSUME NEW u \in Threads, th'[u].pc = "merging", NEW k \in th'[u].todo
                 PROVE  at[Entry(th'[u].src, k)] # NULL
      BY DEF TodoThere
    <3>1. CASE u = t
      BY <1>1, <1>3, <3>1 DEF todo
    <3>2. CASE u # t
      <4>1. th'[u] = th[u] /\ TodoThere(at, th)
        BY <2>1, <3>2 DEF Inv, Control
      <4> QED
        BY <4>1 DEF TodoThere
    <3> QED
      BY <3>1, <3>2
  <2>3. Emptied(at, th')
    BY <1>1, <1>3, <2>1 DEF Inv, Control, Emptied
  <2> QED
    BY <2>2, <2>3
<1>10. th[t].pc \notin Holding /\ th'[t].pc \notin Holding
  BY <1>0, <1>1, <1>3 DEF Holding, Raw, Formed
<1>11. Control(at, lock', live', th') /\ Types(lock', live', disk', th') /\ obj' = obj /\ at' = at
  BY <1>0, <1>3, <1>5, <1>6, <1>7, <1>8, <1>9 DEF Control, Inv, Types, Only
<1> QED
  BY <1>3, <1>4, <1>10, <1>11, SameData

(* A merge releases a source's lock, which is not dst's.                      *)
LEMMA MergeSourceDoneOK ==
    ASSUME Inv, NEW t \in Threads, MergeSourceDone(t)
    PROVE  Inv' /\ Stays
<1> DEFINE src == th[t].src
           r == [th[t] EXCEPT !.pc = "merge", !.src = NULL, !.srcs = @ \ {src}]
<1>0. th[t].pc = "merging" /\ lock' = [lock EXCEPT ![src] = NULL] /\ UNCHANGED <<obj, at, live, disk>>
  BY DEF MergeSourceDone
<1>a. th[t] \in CallRecord /\ th[t].srcs \ {src} \in SUBSET Strong
  BY StateFacts DEF CallRecord
<1>1. /\ r \in CallRecord /\ r.pc = "merge" /\ r.cache = th[t].cache /\ r.handle = th[t].handle
      /\ r.srcs = th[t].srcs \ {src}
  BY <1>a DEF CallRecord
<1>2. th' = [th EXCEPT ![t] = r]
  BY StateFacts DEF MergeSourceDone
<1> HIDE DEF r
<1>3. th'[t] = r /\ Only(t)
  BY <1>1, <1>2, StateFacts DEF Only
<1>4. HandlesOK(obj, at, th')
  BY <1>1, <1>3, NoHandle DEF Inv
<1>5. Exclusive(live, th')
  BY <1>0, <1>1, <1>3, StateFacts DEF Inv, Control, Exclusive, Only, Closing
<1>6. \A u \in Threads : Sound(th'[u])
  BY <1>0, <1>1, <1>3 DEF Inv, Control, Sound, Only, Merging, Holding, Raw, Formed
<1>7. lock' \in [Caches -> Threads \cup {NULL}] /\ \A c \in Caches : c # src => lock'[c] = lock[c]
  BY <1>0, StateFacts
<1>8. Locked(lock', th')
  <2> SUFFICES ASSUME NEW u \in Threads
               PROVE  /\ th'[u].pc \in Merging => lock'[th'[u].cache] = u
                      /\ th'[u].pc = "merging" => lock'[th'[u].src] = u
    BY DEF Locked
  <2>0. lock[src] = t /\ src # th[t].cache
    BY <1>0, LockFacts
  <2>1. CASE u = t
    BY <1>0, <1>1, <1>3, <1>7, <2>0, <2>1, LockFacts DEF Merging
  <2>2. CASE u # t
    BY <1>0, <1>3, <1>7, <2>0, <2>2, LockFacts DEF Only
  <2> QED
    BY <2>1, <2>2
<1>9. TodoThere(at, th') /\ Emptied(at, th')
  <2>1. \A u \in Threads : th'[u].pc \in {"merging", "destroy"} => th'[u] = th[u]
    BY <1>1, <1>3 DEF Only
  <2> QED
    BY <2>1 DEF Inv, Control, TodoThere, Emptied
<1>10. th[t].pc \notin Holding /\ th'[t].pc \notin Holding
  BY <1>0, <1>1, <1>3 DEF Holding, Raw, Formed
<1>11. Control(at, lock', live', th') /\ Types(lock', live', disk', th') /\ obj' = obj /\ at' = at
  BY <1>0, <1>3, <1>5, <1>6, <1>7, <1>8, <1>9 DEF Control, Inv, Types, Only
<1> QED
  BY <1>3, <1>4, <1>10, <1>11, SameData

(* A merge releases dst's lock.                                               *)
LEMMA MergeDoneOK ==
    ASSUME Inv, NEW t \in Threads, MergeDone(t)
    PROVE  Inv' /\ Stays
<1> DEFINE dst == th[t].cache
<1>0. /\ th[t].pc = "merge" /\ lock' = [lock EXCEPT ![dst] = NULL] /\ UNCHANGED <<obj, at, live, disk>>
      /\ th' = Ended(t)
  BY DEF MergeDone
<1>1. Only(t) /\ th'[t] = Idle
  BY <1>0, EndStep
<1>2. HandlesOK(obj, at, th')
  BY <1>1, IdleFacts, NoHandle DEF Inv
<1>3. Control(at, lock, live, th')
  BY <1>1, AdvanceControl DEF Inv
<1>4. lock' \in [Caches -> Threads \cup {NULL}] /\ \A c \in Caches : c # dst => lock'[c] = lock[c]
  BY <1>0, StateFacts
<1>5. Locked(lock', th')
  <2> SUFFICES ASSUME NEW u \in Threads
               PROVE  /\ th'[u].pc \in Merging => lock'[th'[u].cache] = u
                      /\ th'[u].pc = "merging" => lock'[th'[u].src] = u
    BY DEF Locked
  <2>0. lock[dst] = t
    BY <1>0, LockFacts DEF Merging
  <2>1. CASE u = t
    BY <1>1, <2>1, IdleFacts DEF Merging
  <2>2. CASE u # t
    BY <1>1, <1>4, <2>0, <2>2, LockFacts DEF Only
  <2> QED
    BY <2>1, <2>2
<1>6. th[t].pc \notin Holding /\ th'[t].pc \notin Holding
  BY <1>0, <1>1, IdleFacts DEF Holding, Raw, Formed
<1>7. Control(at, lock', live', th') /\ Types(lock', live', disk', th') /\ obj' = obj /\ at' = at
  BY <1>0, <1>1, <1>3, <1>4, <1>5 DEF Control, Inv, Types, Only
<1> QED
  BY <1>1, <1>2, <1>6, <1>7, SameData

(* An entry of the source is added, or replaces a raw one: in both cases      *)
(* dst's entry owns a reference of its own.                                   *)
LEMMA MergeEntryOK ==
    ASSUME Inv, NEW t \in Threads, NEW k \in Keys, MergeEntry(t, k)
    PROVE  Inv' /\ Stays
<1> DEFINE S == Entry(th[t].src, k)
           D == Entry(th[t].cache, k)
           s == at[S]
           d == at[D]
           r == [th[t] EXCEPT !.todo = @ \ {k}]
<1>0. th[t].pc = "merging" /\ k \in th[t].todo /\ UNCHANGED <<lock, live, disk>>
  BY DEF MergeEntry
<1>1. /\ r \in CallRecord /\ r.pc = "merging" /\ r.cache = th[t].cache /\ r.handle = th[t].handle
      /\ r.srcs = th[t].srcs /\ r.src = th[t].src /\ r.todo \subseteq th[t].todo /\ r.key = th[t].key
  BY <1>0, StateFacts DEF CallRecord
<1>2. th' = [th EXCEPT ![t] = r]
  BY StateFacts DEF MergeEntry
<1> HIDE DEF r
<1>3. th'[t] = r /\ Only(t)
  BY <1>1, <1>2, StateFacts DEF Only
<1>4. GoesOn(t)
  BY <1>0, <1>1, <1>3 DEF GoesOn, Holding, Raw, Formed
<1>5. /\ th[t].src \in Strong /\ th[t].cache \in Strong /\ th[t].src \in Caches /\ th[t].cache \in Caches
      /\ S \in Counted /\ D \in Counted /\ S \in Places /\ D \in Places /\ s # NULL
  <2>1. th[t].src \in Strong /\ th[t].cache \in Strong /\ th[t].src \in Caches /\ th[t].cache \in Caches
    BY <1>0, LockFacts DEF Merging
  <2>2. S \in Counted /\ D \in Counted
    BY <2>1, PlaceFacts
  <2>3. S \in Places /\ D \in Places
    BY <2>1, PlaceFacts
  <2>4. TodoThere(at, th)
    BY DEF Inv, Control
  <2>5. s # NULL
    BY <1>0, <2>4 DEF TodoThere
  <2> QED
    BY <2>1, <2>2, <2>3, <2>5
<1>6. s \in Objs /\ obj[s].ref_cnt > 0 /\ obj[s].key = k /\ obj[s].weak_owner = NULL /\ obj[s].ops \in {"raw", ops_of[k]}
  BY <1>5, EntryObject
<1>7. at[Object(t)] = NULL /\ at[Other(t)] = NULL
  BY <1>0 DEF Inv, Local, Holding, Raw, Formed
<1>8. Fits(D, obj[s]) /\ \A u \in Threads : D # Object(u) /\ S # Object(u)
  <2>1. Suits(obj[s], k)
    BY <1>6 DEF Suits
  <2>2. \A c \in Strong, l \in Keys : D = Entry(c, l) => l = k
    BY Distinct
  <2>3. \A u \in Threads : D # Object(u) /\ S # Object(u)
    BY Distinct
  <2> QED
    BY <2>1, <2>2, <2>3 DEF Fits
<1>9. ASSUME Data(obj', at'), Kept(obj, at, obj', t), Put(at, at', D, s),
             d # NULL => obj[d].ops # ops_of[k]
      PROVE  Inv' /\ Stays
  <2>1. /\ \A u \in Threads : at'[Object(u)] = at[Object(u)] /\ at'[Other(u)] = at[Other(u)]
        /\ \A c \in Caches, l \in Keys : c # th[t].cache \/ l # k => at'[Entry(c, l)] = at[Entry(c, l)]
        /\ at'[D] = s
        /\ \A h \in Handles : at'[Handle(h)] = at[Handle(h)]
    <3>1. at'[D] = s /\ \A q \in Places : q # D => at'[q] = at[q]
      BY <1>9 DEF Put
    <3>2. \A u \in Threads : Object(u) \in Places /\ Other(u) \in Places
      BY PlaceFacts
    <3>3. \A u \in Threads : Object(u) # D /\ Other(u) # D
      BY Distinct
    <3>4. \A c \in Caches, l \in Keys : Entry(c, l) \in Places
      BY PlaceFacts
    <3>5. \A c \in Caches, l \in Keys : c # th[t].cache \/ l # k => Entry(c, l) # D
      BY Distinct
    <3>6. \A h \in Handles : Handle(h) \in Places
      BY PlaceFacts
    <3>7. \A h \in Handles : Handle(h) # D
      BY Distinct
    <3> HIDE DEF D, S, s, d
    <3> QED
      BY <3>1, <3>2, <3>3, <3>4, <3>5, <3>6, <3>7
  <2>2. /\ \A c \in Strong, l \in Keys : at[Entry(c, l)] # NULL => at'[Entry(c, l)] # NULL
        /\ \A c \in Weak, l \in Keys : at'[Entry(c, l)] = at[Entry(c, l)]
    BY <1>5, <2>1, StateFacts
  <2>3. Effect(t)
    BY <1>9, <2>1, <2>2 DEF Effect
  <2>4. Local(obj', at', th'[t], t)
    BY <1>1, <1>3, <1>7, <2>1 DEF Local, Holding, Raw, Formed
  <2>5. ASSUME NEW c \in Strong \cap live, NEW l \in Keys, at[Entry(c, l)] # NULL, obj[at[Entry(c, l)]].ops = ops_of[l]
        PROVE  at'[Entry(c, l)] = at[Entry(c, l)]
    <3>1. c # th[t].cache \/ l # k
      BY <1>9, <2>5
    <3> QED
      BY <2>1, <3>1, StateFacts
  <2> QED
    BY <1>0, <1>3, <1>4, <2>1, <2>3, <2>4, <2>5, StateFacts, AdvancePlain, StaysIf
<1>10. CASE d = NULL
  <2>1. obj' = Ref(obj, s) /\ at' = [at EXCEPT ![D] = s]
    BY <1>10 DEF MergeEntry
  <2>2. Put(at, at', D, s)
    BY <1>5, <1>6, <2>1, StateFacts DEF Put
  <2>3. Data(obj', at')
    BY <1>5, <1>6, <1>8, <1>10, <2>1, <2>2, StateFacts, Take
  <2>4. Kept(obj, at, obj', t)
    BY <1>5, <1>6, <1>8, <2>1, StateFacts, KeptRef
  <2> QED
    BY <1>9, <1>10, <2>2, <2>3, <2>4
<1>11. CASE d # NULL /\ Better(s, d)
  <2> DEFINE f == Unref(obj, d)
             m == [at EXCEPT ![D] = NULL]
  <2>1. /\ d \in Objs /\ obj[d].weak_owner = NULL /\ obj[d].ref_cnt > 0 /\ obj[d].ops = "raw" /\ obj[s].ops # "raw"
        /\ s # d
    <3>1. d \in Objs /\ obj[d].weak_owner = NULL /\ obj[d].ref_cnt > 0
      BY <1>5, <1>11, EntryObject
    <3>2. obj[d].ops = "raw" /\ obj[s].ops # "raw"
      BY <1>11 DEF Better
    <3> QED
      BY <3>1, <3>2
  <2>2. obj' = Ref(f, s) /\ at' = [at EXCEPT ![D] = s]
    BY <1>11, <2>1 DEF MergeEntry, Forgotten, Forgets
  <2>3. Put(at, m, D, NULL) /\ Put(m, at', D, s) /\ Put(at, at', D, s) /\ m[D] = NULL
    BY <1>5, <1>6, <2>2, StateFacts DEF Put
  <2> HIDE DEF m
  <2>4. Data(f, m)
    BY <1>5, <2>1, <2>3, StateFacts, Drop
  <2>5. f \in [Objs -> ObjRecord] /\ \A q \in Objs : q # d => f[q] = obj[q]
    <3>1. obj \in [Objs -> ObjRecord]
      BY StateFacts
    <3> QED
      BY <2>1, <3>1, UnrefFacts
  <2>6. Kept(obj, at, f, t)
    BY <1>5, <1>8, <2>1, StateFacts, KeptUnref
  <2> HIDE DEF f
  <2>7. Data(obj', at')
    <3>1. f[s] = obj[s]
      BY <1>6, <2>1, <2>5
    <3>2. f[s].ref_cnt > 0 /\ Fits(D, f[s])
      BY <1>6, <1>8, <3>1
    <3>3. Data(Ref(f, s), at')
      <4> HIDE DEF D, S, s, d
      <4> QED
        BY <1>5, <1>6, <2>3, <2>4, <3>2, Take
    <3> QED
      BY <2>2, <3>3
  <2>8. /\ \A q \in Objs : q # s => obj'[q] = f[q]
        /\ obj'[s].key = f[s].key /\ obj'[s].ops = f[s].ops /\ obj'[s].weak_owner = f[s].weak_owner
    BY <1>6, <2>2, <2>5, RefFacts
  <2>9. Kept(obj, at, obj', t)
    <3>1. \A q \in Objs : obj'[q].key = f[q].key /\ obj'[q].ops = f[q].ops /\ obj'[q].weak_owner = f[q].weak_owner
      BY <2>8
    <3>2. \A q \in Objs : q # s => obj'[q] = f[q]
      BY <2>8
    <3>3. f[s] = obj[s]
      BY <1>6, <2>1, <2>5
    <3>4. \A q \in Objs : obj[q].ref_cnt > 0 /\ obj'[q].ref_cnt > 0 => obj'[q].key = obj[q].key /\ obj'[q].ops = obj[q].ops
      BY <2>6, <3>1, <3>2, <3>3 DEF Kept
    <3>5. \A q \in Objs : obj[q].ref_cnt > 0 /\ obj'[q].ref_cnt > 0 /\ (\E p \in Places : p # Object(t) /\ at[p] = q)
                             => obj'[q].weak_owner = obj[q].weak_owner
      BY <2>6, <3>1, <3>2, <3>3 DEF Kept
    <3>6. \A q \in Objs : obj'[q] # obj[q]
             => obj[q] = Free \/ \E p \in Places : at[p] = q /\ \A u \in Threads : u # t => p # Object(u)
      <4>1. \E p \in Places : at[p] = s /\ \A u \in Threads : u # t => p # Object(u)
        BY <1>5, <1>8
      <4> QED
        BY <2>6, <3>2, <4>1 DEF Kept
    <3> QED
      BY <3>4, <3>5, <3>6 DEF Kept
  <2>10. obj[d].ops # ops_of[k]
    BY <1>6, <2>1
  <2> QED
    BY <1>9, <2>3, <2>7, <2>9, <2>10
<1>12. CASE d # NULL /\ ~ Better(s, d)
  <2>1. UNCHANGED <<obj, at>>
    BY <1>12 DEF MergeEntry
  <2>2. Effect(t)
    BY <2>1, StateFacts DEF Effect, Kept
  <2>3. Local(obj', at', th'[t], t)
    BY <1>1, <1>3, <1>7, <2>1 DEF Local, Holding, Raw, Formed
  <2> QED
    BY <1>0, <1>3, <1>4, <2>1, <2>2, <2>3, StateFacts, AdvancePlain, StaysIf
<1> QED
  BY <1>10, <1>11, <1>12

-----------------------------------------------------------------------------
(* The invariant holds in all reachable states *)

(* No object exists initially: nothing is counted, in a cache or in a call.   *)
LEMMA InitOK ==
    ASSUME Init
    PROVE  Inv
<1>0. /\ obj = [o \in Objs |-> Free] /\ at = [p \in Places |-> NULL] /\ lock = [c \in Caches |-> NULL]
      /\ live = Weak /\ disk = {} /\ th = [t \in Threads |-> Idle] /\ NULL \notin Objs
  BY CacheAssumption DEF Init
<1>1. \A p \in Places : at[p] = NULL
  BY <1>0
<1>2. \A o \in Objs : obj[o] = Free
  BY <1>0
<1>3. Free \in ObjRecord /\ Free.ref_cnt = 0 /\ Free.weak_owner = NULL
  BY DEF Free, ObjRecord
<1>4. \A p \in Counted : p \in Places
  BY DEF Places
<1>5. Exact(obj, at)
  <2> SUFFICES ASSUME NEW o \in Objs
               PROVE  obj[o].ref_cnt = Count(at, o)
    BY DEF Exact
  <2>1. Count(at, o) = 0
    BY <1>0, <1>1, <1>4, HasReference
  <2> QED
    BY <1>2, <1>3, <2>1
<1>6. \A c \in Caches, k \in Keys : at[Entry(c, k)] = NULL
  BY <1>1, PlaceFacts
<1>7. Alive(obj) /\ StrongOK(obj, at) /\ WeakOK(obj, at)
  BY <1>2, <1>3, <1>6 DEF Alive, StrongOK, WeakOK, Caches
<1>8. Data(obj, at)
  BY <1>0, <1>3, <1>5, <1>7 DEF Data
<1>9. \A t \in Threads : th[t] = Idle /\ th[t].pc = "idle" /\ th[t].handle = NULL
  BY <1>0, IdleFacts
<1>10. Types(lock, live, disk, th)
  BY <1>0, IdleFacts DEF Types, Caches
<1>11. \A t \in Threads : Local(obj, at, th[t], t)
  <2>1. \A t \in Threads : at[Object(t)] = NULL /\ at[Other(t)] = NULL
    BY <1>1, <1>4, PlaceFacts
  <2> QED
    BY <1>9, <2>1 DEF Local, Holding, Raw, Formed
<1>12. HandlesOK(obj, at, th)
  <2>1. \A h \in Handles : at[Handle(h)] = NULL
    BY <1>1, <1>4, PlaceFacts
  <2> QED
    BY <1>9, <2>1 DEF HandlesOK
<1>13. Control(at, lock, live, th)
  BY <1>9 DEF Control, Sound, Exclusive, Locked, TodoThere, Emptied, Holding, Raw, Formed, Merging, Closing
<1> QED
  BY <1>8, <1>10, <1>11, <1>12, <1>13 DEF Inv

(* One case for each way a call can start.                                    *)
LEMMA CallOK ==
    ASSUME Inv, NEW t \in Threads, Call(t)
    PROVE  Inv' /\ Stays
<1>1. CASE \E c \in Caches, k \in Keys, h \in Handles : LookupCall(t, c, k, h)
  BY <1>1, LookupCallOK
<1>2. CASE \E c \in Caches, k \in Keys, h \in Handles, add \in BOOLEAN : InsertCall(t, c, k, h, add)
  BY <1>2, InsertCallOK
<1>3. CASE \E c \in Caches : CreateCall(t, c)
  BY <1>3, CreateCallOK
<1>4. CASE \E c \in Caches : DestroyCall(t, c)
  BY <1>4, DestroyCallOK
<1>5. CASE \E dst \in Strong, srcs \in SUBSET Strong : MergeCall(t, dst, srcs)
  BY <1>5, MergeCallOK
<1> QED
  BY <1>1, <1>2, <1>3, <1>4, <1>5 DEF Call

(* One case for each step of a call.                                          *)
LEMMA StepOK ==
    ASSUME Inv, NEW t \in Threads, Step(t)
    PROVE  Inv' /\ Stays
<1>1. CASE LookupSearch(t)
  BY <1>1, LookupSearchOK
<1>2. CASE LookupDisk(t)
  BY <1>2, LookupDiskOK
<1>3. CASE LookupDeserialize(t)
  BY <1>3, LookupDeserializeOK
<1>4. CASE LookupRemove(t)
  BY <1>4, LookupRemoveOK
<1>5. CASE LookupUnref(t)
  BY <1>5, LookupUnrefOK
<1>6. CASE Insert(t)
  BY <1>6, InsertOK
<1>7. CASE InsertDrop(t)
  BY <1>7, InsertDropOK
<1>8. CASE Return(t)
  BY <1>8, ReturnOK
<1>9. CASE LoadDone(t)
  BY <1>9, LoadDoneOK
<1>10. CASE DestroyDone(t)
  BY <1>10, DestroyDoneOK
<1>11. CASE \E k \in Keys : LoadEntry(t, k)
  BY <1>11, LoadEntryOK
<1>12. CASE \E k \in Keys : DestroyEntry(t, k)
  BY <1>12, DestroyEntryOK
<1>13. CASE \E src \in Strong : MergeSource(t, src)
  BY <1>13, MergeSourceOK
<1>14. CASE \E k \in Keys : MergeEntry(t, k)
  BY <1>14, MergeEntryOK
<1>15. CASE MergeSourceDone(t)
  BY <1>15, MergeSourceDoneOK
<1>16. CASE MergeDone(t)
  BY <1>16, MergeDoneOK
<1> QED
  BY <1>1, <1>2, <1>3, <1>4, <1>5, <1>6, <1>7, <1>8, <1>9, <1>10, <1>11, <1>12, <1>13, <1>14, <1>15, <1>16 DEF Step

(* Every step keeps the invariant, and every formed object where it is.       *)
LEMMA NextOK ==
    ASSUME Inv, Next
    PROVE  Inv' /\ Stays
<1>1. CASE \E t \in Threads : Call(t)
  BY <1>1, CallOK
<1>2. CASE \E t \in Threads : Step(t)
  BY <1>2, StepOK
<1>3. CASE \E h \in Handles : Release(h)
  BY <1>3, ReleaseOK
<1>4. CASE \E h \in Handles, g \in Handles : Retain(h, g)
  BY <1>4, RetainOK
<1> QED
  BY <1>1, <1>2, <1>3, <1>4 DEF Next

(* A step that changes nothing keeps the invariant.                           *)
LEMMA StutterOK ==
    ASSUME Inv, UNCHANGED vars
    PROVE  Inv'
<1>1. UNCHANGED <<obj, at, lock, live, disk, th>>
  BY DEF vars
<1> QED
  BY <1>1 DEF Inv

(* The inductive invariant: the reference counts are exact, the weak caches   *)
(* consistent, and every call that is under way finds what it left.           *)
THEOREM CacheInvariant == Spec => []Inv
<1>1. Init => Inv
  BY InitOK
<1>2. Inv /\ [Next]_vars => Inv'
  BY NextOK, StutterOK
<1> QED
  BY <1>1, <1>2, PTL DEF Spec

(* The objects, caches and calls of vk_pipeline_cache.c have their types.     *)
THEOREM CacheTypeOK == Spec => []TypeOK
<1>1. Inv => TypeOK
  BY StateFacts DEF Inv, Types, TypeOK, ObjRecord, CallRecord
<1> QED
  BY <1>1, CacheInvariant, PTL

(* vk_pipeline_cache_object_ref and _unref keep ref_cnt exact: an object is   *)
(* destroyed with its last reference, not before and not later.               *)
THEOREM CacheRefsExact == Spec => []RefsExact
<1>1. Inv => RefsExact
  BY DEF Inv, Data, Exact, Count, RefsExact, Refs
<1> QED
  BY <1>1, CacheInvariant, PTL

(* The last unref of an object takes it out of its weak owner, and nothing    *)
(* else does.                                                                 *)
THEOREM CacheWeakExact == Spec => []WeakExact
<1>1. Inv => WeakExact
  <2> SUFFICES ASSUME Inv PROVE WeakExact
    OBVIOUS
  <2>1. WeakOK(obj, at) /\ Emptied(at, th)
    BY DEF Inv, Data, Control
  <2>2. \A c \in Weak, k \in Keys : at[Entry(c, k)] # NULL =>
           LET x == obj[at[Entry(c, k)]] IN x.ref_cnt > 0 /\ x.key = k /\ x.weak_owner = c
    BY <2>1 DEF WeakOK
  <2>3. \A o \in Objs : obj[o].weak_owner # NULL => at[Entry(obj[o].weak_owner, obj[o].key)] = o
    BY <2>1 DEF WeakOK
  <2>4. \A t \in Threads : th[t].pc = "destroy" /\ th[t].cache \in Weak =>
           \A k \in Keys : at[Entry(th[t].cache, k)] = NULL
    BY <2>1 DEF Emptied
  <2> QED
    BY <2>2, <2>3, <2>4 DEF WeakExact
<1> QED
  BY <1>1, CacheInvariant, PTL

(* assert(object->ops == ops): lookups and insertions give objects of the     *)
(* type and key that the caller asked for.                                    *)
THEOREM CacheResultFormed == Spec => []ResultFormed
<1>1. Inv => ResultFormed
  BY DEF Inv, Local, HandlesOK, Holding, Formed, ResultFormed
<1> QED
  BY <1>1, CacheInvariant, PTL

(* No step of a live cache removes or exchanges a fully formed object.        *)
THEOREM CacheFormedStays == Spec => FormedStays
<1> DEFINE Keeps == \A c \in Strong \cap live, k \in Keys :
                       LET o == at[Entry(c, k)]
                       IN  o # NULL /\ obj[o].ops = ops_of[k] =>
                              at'[Entry(c, k)] = o /\ obj'[o].ops = obj[o].ops
<1>1. Inv /\ [Next]_vars => [Keeps]_vars
  BY NextOK DEF Stays
<1>2. FormedStays <=> [][Keeps]_vars
  BY PTL DEF FormedStays
<1> HIDE DEF Keeps
<1> QED
  BY <1>1, <1>2, CacheInvariant, PTL DEF Spec
=============================================================================
