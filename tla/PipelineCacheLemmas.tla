------------------------- MODULE PipelineCacheLemmas -------------------------
(***************************************************************************)
(* Lemmas for the proofs about PipelineCache, and its inductive invariant  *)
(* Inv.  The first part counts references: what taking, creating, dropping *)
(* and moving one does to the objects f and places a (Data).  The second   *)
(* part says which facts of the invariant a step of one call cannot        *)
(* disturb.  Places and objects after a change are described by Put and    *)
(* Set rather than by their EXCEPT forms.                                  *)
(***************************************************************************)
EXTENDS PipelineCache, FiniteSetTheorems, TLAPS

(* The number of references to object o.                                      *)
Count(a, o) == Cardinality({p \in Counted : a[p] = o})

(* Which places own a reference and which do not.                             *)
LEMMA PlaceFacts ==
    /\ \A h \in Handles : Handle(h) \in Counted
    /\ \A t \in Threads : Object(t) \in Counted /\ Other(t) \in Counted
    /\ \A c \in Strong, k \in Keys : Entry(c, k) \in Counted
    /\ \A c \in Weak, k \in Keys : Entry(c, k) \in Places \ Counted
    /\ \A c \in Caches, k \in Keys : Entry(c, k) \in Places
    /\ Counted \subseteq Places
BY CacheAssumption DEF Counted, Places, Locals, Entries, Handle, Object, Other, Entry, Caches

(* Different handles, local variables and entries are different places.       *)
LEMMA Distinct ==
    /\ \A h, g : Handle(h) = Handle(g) => h = g
    /\ \A t, u : Object(t) = Object(u) => t = u
    /\ \A t, u : Other(t) = Other(u) => t = u
    /\ \A c, d, k, l : Entry(c, k) = Entry(d, l) => c = d /\ k = l
    /\ \A h, t : Handle(h) # Object(t) /\ Handle(h) # Other(t)
    /\ \A t, u : Object(t) # Other(u)
    /\ \A h, c, k : Handle(h) # Entry(c, k)
    /\ \A t, c, k : Object(t) # Entry(c, k) /\ Other(t) # Entry(c, k)
BY DEF Handle, Object, Other, Entry

(* Finitely many places own references, so that they can be counted.          *)
LEMMA CountedFinite == IsFiniteSet(Counted)
<1>1. IsFiniteSet({"handle"}) /\ IsFiniteSet({"entry"}) /\ IsFiniteSet({"object", "other"})
  <2>1. IsFiniteSet({"handle"}) /\ IsFiniteSet({"entry"}) /\ IsFiniteSet({"object"})
    BY FS_Singleton
  <2>2. IsFiniteSet({"object"} \cup {"other"})
    BY <2>1, FS_AddElement
  <2>3. {"object", "other"} = {"object"} \cup {"other"}
    OBVIOUS
  <2> QED
    BY <2>1, <2>2, <2>3
<1>2. IsFiniteSet({"handle"} \X Handles)
  BY <1>1, CacheAssumption, FS_Product
<1>3. IsFiniteSet({"object", "other"} \X Threads)
  BY <1>1, CacheAssumption, FS_Product
<1>4. IsFiniteSet(Strong \X Keys)
  BY CacheAssumption, FS_Product
<1>5. IsFiniteSet({"entry"} \X (Strong \X Keys))
  BY <1>1, <1>4, FS_Product
<1> QED
  BY <1>2, <1>3, <1>5, FS_Union DEF Counted, Locals, Entries

(* The number of references to an object is a natural number.                 *)
LEMMA CountNat ==
    ASSUME NEW a, NEW o
    PROVE  /\ IsFiniteSet({p \in Counted : a[p] = o})
           /\ Count(a, o) \in Nat
<1>1. {p \in Counted : a[p] = o} \subseteq Counted
  OBVIOUS
<1> QED
  BY <1>1, CountedFinite, FS_Subset, FS_CardinalityType DEF Count

(* No place that is counted changes.                                          *)
LEMMA Unmoved ==
    ASSUME NEW a, NEW b, \A q \in Counted : b[q] = a[q], NEW o
    PROVE  Count(b, o) = Count(a, o)
<1>1. {q \in Counted : b[q] = o} = {q \in Counted : a[q] = o}
  OBVIOUS
<1> QED
  BY <1>1 DEF Count

(* An object at a place that owns a reference is counted.                     *)
LEMMA Referenced ==
    ASSUME NEW a, NEW o, NEW p \in Counted, a[p] = o
    PROVE  Count(a, o) > 0
<1>1. {q \in Counted : a[q] = o} # {}
  OBVIOUS
<1> QED
  BY <1>1, CountNat, FS_EmptySet DEF Count

(* An object with count 0 is at no place that owns a reference.               *)
LEMMA Unreferenced ==
    ASSUME NEW a, NEW o, Count(a, o) = 0, NEW p \in Counted
    PROVE  a[p] # o
BY Referenced, CountNat

(* A count that is not 0 comes from some place.                               *)
LEMMA HasReference ==
    ASSUME NEW a, NEW o, Count(a, o) # 0
    PROVE  \E p \in Counted : a[p] = o
<1>1. {q \in Counted : a[q] = o} # {}
  BY FS_EmptySet DEF Count
<1> QED
  BY <1>1

(* An object with count 1 is at one place that owns a reference.              *)
LEMMA Alone ==
    ASSUME NEW a, NEW o, Count(a, o) = 1, NEW p \in Counted, NEW q \in Counted, a[p] = o, a[q] = o
    PROVE  p = q
<1> DEFINE A == {r \in Counted : a[r] = o}
<1>1. Cardinality(A) = 1 /\ IsFiniteSet(A)
  BY CountNat DEF Count
<1>2. PICK r : A = {r}
  BY <1>1, FS_Singleton
<1> QED
  BY <1>2
-----------------------------------------------------------------------------

ObjRecord == [ref_cnt : Nat, key : Keys \cup {NULL}, ops : {"raw", "real", NULL},
              weak_owner : Weak \cup {NULL}]

Exact(f, a) == \A o \in Objs : f[o].ref_cnt = Count(a, o)

Alive(f) == \A o \in Objs :
    f[o] = Free \/ (f[o].ref_cnt > 0 /\ f[o].key \in Keys /\ f[o].ops \in {"raw", "real"})

Suits(x, k) == x.key = k /\ x.weak_owner = NULL /\ x.ops \in {"raw", ops_of[k]}

StrongOK(f, a) == \A c \in Strong, k \in Keys : a[Entry(c, k)] # NULL => Suits(f[a[Entry(c, k)]], k)

WeakOK(f, a) ==
    /\ \A c \in Weak, k \in Keys : a[Entry(c, k)] # NULL =>
          LET x == f[a[Entry(c, k)]]
          IN  x.ref_cnt > 0 /\ x.key = k /\ x.weak_owner = c /\ x.ops = ops_of[k]
    /\ \A o \in Objs : f[o].weak_owner # NULL => a[Entry(f[o].weak_owner, f[o].key)] = o

Data(f, a) ==
    /\ f \in [Objs -> ObjRecord]
    /\ a \in [Places -> Objs \cup {NULL}]
    /\ Exact(f, a) /\ Alive(f) /\ StrongOK(f, a) /\ WeakOK(f, a)

(* The object x may be put at place p.                                        *)
Fits(p, x) == \A c \in Strong, k \in Keys : p = Entry(c, k) => Suits(x, k)

(* vk_pipeline_cache_object_ref adds one to ref_cnt of one object.            *)
LEMMA RefFacts ==
    ASSUME NEW f \in [Objs -> ObjRecord], NEW o \in Objs
    PROVE  /\ Ref(f, o) \in [Objs -> ObjRecord]
           /\ Ref(f, o)[o].ref_cnt = f[o].ref_cnt + 1
           /\ \A q \in Objs : q # o => Ref(f, o)[q] = f[q]
           /\ \A q \in Objs : /\ Ref(f, o)[q].key = f[q].key /\ Ref(f, o)[q].ops = f[q].ops
                              /\ Ref(f, o)[q].weak_owner = f[q].weak_owner
BY DEF Ref, ObjRecord

(* vk_pipeline_cache_object_unref takes one from ref_cnt, and frees the       *)
(* object at zero.                                                            *)
LEMMA UnrefFacts ==
    ASSUME NEW f \in [Objs -> ObjRecord], NEW o \in Objs, f[o].ref_cnt > 0
    PROVE  /\ Unref(f, o) \in [Objs -> ObjRecord]
           /\ Unref(f, o)[o].ref_cnt = f[o].ref_cnt - 1
           /\ \A q \in Objs : q # o => Unref(f, o)[q] = f[q]
           /\ f[o].ref_cnt = 1 => Unref(f, o)[o] = Free
           /\ f[o].ref_cnt # 1 => /\ Unref(f, o)[o].key = f[o].key /\ Unref(f, o)[o].ops = f[o].ops
                                  /\ Unref(f, o)[o].weak_owner = f[o].weak_owner
<1>1. Free \in ObjRecord
  BY DEF Free, ObjRecord
<1>2. CASE f[o].ref_cnt = 1
  BY <1>1, <1>2 DEF Unref, ObjRecord, Free
<1>3. CASE f[o].ref_cnt # 1
  BY <1>3 DEF Unref, ObjRecord
<1> QED
  BY <1>2, <1>3

(* The fields that vk_pipeline_cache_object_init sets.                        *)
LEMMA NewFacts ==
    ASSUME NEW k \in Keys, NEW ops \in {"raw", "real"}
    PROVE  /\ New(k, ops) \in ObjRecord /\ New(k, ops).ref_cnt = 1
           /\ New(k, ops).key = k /\ New(k, ops).ops = ops /\ New(k, ops).weak_owner = NULL
BY DEF New, ObjRecord

(* The fields of an object that does not exist.                               *)
LEMMA FreeFacts ==
    Free.ref_cnt = 0 /\ Free.key = NULL /\ Free.ops = NULL /\ Free.weak_owner = NULL /\ Free \in ObjRecord
BY DEF Free, ObjRecord

(* In consistent data an object that is referred to exists.                   *)
LEMMA RefersTo ==
    ASSUME NEW f, NEW a, Data(f, a), NEW p \in Counted, a[p] # NULL
    PROVE  a[p] \in Objs /\ f[a[p]].ref_cnt > 0 /\ f[a[p]].key \in Keys /\ f[a[p]].ops \in {"raw", "real"}
<1>1. a[p] \in Objs
  BY PlaceFacts DEF Data
<1>2. f[a[p]].ref_cnt > 0
  BY <1>1, Referenced DEF Data, Exact
<1> QED
  BY <1>1, <1>2, FreeFacts DEF Data, Alive
-----------------------------------------------------------------------------
(* What operations are composed of *)

(* b is a with x at place p; g is f with x as object o.                       *)
Put(a, b, p, x) == b \in [Places -> Objs \cup {NULL}] /\ b[p] = x /\ \A q \in Places : q # p => b[q] = a[q]
Set(f, g, o, x) == g \in [Objs -> ObjRecord] /\ g[o] = x /\ \A q \in Objs : q # o => g[q] = f[q]

(* One place changes.                                                         *)
LEMMA PutCount ==
    ASSUME NEW a, NEW b, NEW p \in Counted, NEW x, Put(a, b, p, x), NEW o
    PROVE  /\ a[p] # o /\ x = o => Count(b, o) = Count(a, o) + 1
           /\ a[p] = o /\ x # o => Count(b, o) = Count(a, o) - 1
           /\ (a[p] = o <=> x = o) => Count(b, o) = Count(a, o)
<1> DEFINE A == {q \in Counted : a[q] = o}
           B == {q \in Counted : b[q] = o}
<1>0. b[p] = x /\ \A q \in Counted : q # p => b[q] = a[q]
  BY PlaceFacts DEF Put
<1>1. IsFiniteSet(A) /\ Cardinality(A) \in Nat /\ IsFiniteSet(B)
  BY CountNat DEF Count
<1>2. Count(a, o) = Cardinality(A) /\ Count(b, o) = Cardinality(B)
  BY DEF Count
<1>3. ASSUME a[p] # o, x = o PROVE Cardinality(B) = Cardinality(A) + 1
  <2>1. B = A \cup {p} /\ p \notin A
    BY <1>0, <1>3
  <2> QED
    BY <2>1, <1>1, FS_AddElement
<1>4. ASSUME a[p] = o, x # o PROVE Cardinality(B) = Cardinality(A) - 1
  <2>1. B = A \ {p} /\ p \in A
    BY <1>0, <1>4
  <2> QED
    BY <2>1, <1>1, FS_RemoveElement
<1>5. ASSUME a[p] = o <=> x = o PROVE A = B
  BY <1>0, <1>5
<1> QED
  BY <1>2, <1>3, <1>4, <1>5

(* The parts of Data that most proofs need.                                   *)
LEMMA DataFacts ==
    ASSUME NEW f, NEW a, Data(f, a)
    PROVE  /\ f \in [Objs -> ObjRecord] /\ a \in [Places -> Objs \cup {NULL}] /\ NULL \notin Objs
           /\ \A o \in Objs : f[o].ref_cnt \in Nat /\ f[o].ref_cnt = Count(a, o)
           /\ \A o \in Objs : f[o].weak_owner # NULL =>
                 /\ f[o].weak_owner \in Weak /\ f[o].key \in Keys /\ f[o].ref_cnt > 0
                 /\ Entry(f[o].weak_owner, f[o].key) \in Places \ Counted
           /\ \A o \in Objs : f[o].ref_cnt > 0 => f[o].key \in Keys /\ f[o].ops \in {"raw", "real"}
<1>1. f \in [Objs -> ObjRecord] /\ a \in [Places -> Objs \cup {NULL}] /\ NULL \notin Objs
  BY CacheAssumption DEF Data
<1>2. \A o \in Objs : f[o].ref_cnt \in Nat /\ f[o].ref_cnt = Count(a, o)
  BY <1>1 DEF Data, Exact, ObjRecord
<1>3. \A o \in Objs : f[o].ref_cnt > 0 => f[o].key \in Keys /\ f[o].ops \in {"raw", "real"}
  BY FreeFacts DEF Data, Alive
<1>4. \A o \in Objs : f[o].weak_owner # NULL => f[o].weak_owner \in Weak /\ f[o].key \in Keys /\ f[o].ref_cnt > 0
  BY <1>1, FreeFacts DEF Data, Alive, ObjRecord
<1> QED
  BY <1>1, <1>2, <1>3, <1>4, PlaceFacts

(* What a cache has.                                                          *)
LEMMA EntryFacts ==
    ASSUME NEW f, NEW a, Data(f, a), NEW c \in Caches, NEW k \in Keys, a[Entry(c, k)] # NULL
    PROVE  /\ a[Entry(c, k)] \in Objs /\ f[a[Entry(c, k)]].ref_cnt > 0
           /\ f[a[Entry(c, k)]].key = k /\ f[a[Entry(c, k)]].ops \in {"raw", ops_of[k]}
           /\ c \in Strong => f[a[Entry(c, k)]].weak_owner = NULL
           /\ c \in Weak => f[a[Entry(c, k)]].weak_owner = c /\ f[a[Entry(c, k)]].ops = ops_of[k]
<1>1. a[Entry(c, k)] \in Objs
  BY PlaceFacts, DataFacts
<1>2. CASE c \in Strong
  <2>1. Suits(f[a[Entry(c, k)]], k) /\ Entry(c, k) \in Counted
    BY <1>2, PlaceFacts DEF Data, StrongOK
  <2>2. c \notin Weak
    BY <1>2, CacheAssumption
  <2> QED
    BY <1>1, <1>2, <2>1, <2>2, RefersTo DEF Suits
<1>3. CASE c \in Weak
  <2>1. c \notin Strong
    BY <1>3, CacheAssumption
  <2> QED
    BY <1>1, <1>3, <2>1 DEF Data, WeakOK
<1> QED
  BY <1>2, <1>3 DEF Caches

(* An object that knows a weak cache is in it.                                *)
LEMMA Owned ==
    ASSUME NEW f, NEW a, Data(f, a), NEW o \in Objs, f[o].weak_owner # NULL
    PROVE  /\ a[Entry(f[o].weak_owner, f[o].key)] = o /\ f[o].weak_owner \in Weak /\ f[o].key \in Keys
           /\ Entry(f[o].weak_owner, f[o].key) \in Places \ Counted
<1>1. WeakOK(f, a)
  BY DEF Data
<1>2. a[Entry(f[o].weak_owner, f[o].key)] = o
  BY <1>1 DEF WeakOK
<1> QED
  BY <1>2, DataFacts

(* A reference is added.                                                      *)
LEMMA Take ==
    ASSUME NEW f, NEW a, NEW b, NEW p \in Counted, NEW o \in Objs,
           Data(f, a), a[p] = NULL, f[o].ref_cnt > 0, Fits(p, f[o]), Put(a, b, p, o)
    PROVE  Data(Ref(f, o), b)
<1> DEFINE g == Ref(f, o)
<1>t. /\ f \in [Objs -> ObjRecord] /\ NULL \notin Objs
      /\ \A q \in Objs : f[q].ref_cnt \in Nat /\ f[q].ref_cnt = Count(a, q)
  BY DataFacts
<1>g. /\ g \in [Objs -> ObjRecord] /\ g[o].ref_cnt = f[o].ref_cnt + 1
      /\ \A q \in Objs : q # o => g[q] = f[q]
      /\ \A q \in Objs : g[q].key = f[q].key /\ g[q].ops = f[q].ops /\ g[q].weak_owner = f[q].weak_owner
  BY <1>t, RefFacts
<1> HIDE DEF g
<1>b. b \in [Places -> Objs \cup {NULL}] /\ b[p] = o /\ \A q \in Places : q # p => b[q] = a[q]
  BY DEF Put
<1>c. \A q \in Objs : g[q].ref_cnt \in Nat
  BY <1>g DEF ObjRecord
<1>1. Exact(g, b)
  <2> SUFFICES ASSUME NEW q \in Objs PROVE g[q].ref_cnt = Count(b, q)
    BY DEF Exact
  <2>1. /\ q = o => Count(b, q) = Count(a, q) + 1
        /\ q # o => Count(b, q) = Count(a, q)
    BY <1>t, PutCount
  <2> QED
    BY <2>1, <1>g, <1>t, <1>c
<1>2. Alive(g)
  BY <1>g, <1>c, <1>t, FreeFacts DEF Data, Alive
<1>3. StrongOK(g, b)
  <2> SUFFICES ASSUME NEW c \in Strong, NEW k \in Keys, b[Entry(c, k)] # NULL
               PROVE  Suits(g[b[Entry(c, k)]], k)
    BY DEF StrongOK
  <2>1. Entry(c, k) \in Places
    BY PlaceFacts
  <2>2. CASE Entry(c, k) = p
    BY <2>2, <1>b, <1>g DEF Fits, Suits
  <2>3. CASE Entry(c, k) # p
    BY <2>1, <2>3, <1>b, <1>g, <1>t DEF Data, StrongOK, Suits
  <2> QED
    BY <2>2, <2>3
<1>4. WeakOK(g, b)
  <2>1. \A c \in Weak, k \in Keys : b[Entry(c, k)] = a[Entry(c, k)] /\ Entry(c, k) \in Places
    BY <1>b, PlaceFacts
  <2>2. \A q \in Objs : f[q].weak_owner # NULL => f[q].weak_owner \in Weak /\ f[q].key \in Keys
    BY DataFacts
  <2>3. \A q \in Objs : f[q].ref_cnt > 0 => g[q].ref_cnt > 0
    BY <1>g, <1>c, <1>t
  <2> QED
    BY <2>1, <2>2, <2>3, <1>g, <1>b DEF Data, WeakOK
<1> QED
  BY <1>g, <1>b, <1>1, <1>2, <1>3, <1>4 DEF Data, g

(* An object is created.                                                      *)
LEMMA Create ==
    ASSUME NEW f, NEW a, NEW g, NEW b, NEW p \in Counted, NEW o \in Objs, NEW k \in Keys, NEW ops \in {"raw", "real"},
           Data(f, a), a[p] = NULL, f[o] = Free, Fits(p, New(k, ops)), Put(a, b, p, o), Set(f, g, o, New(k, ops))
    PROVE  Data(g, b)
<1>t. /\ f \in [Objs -> ObjRecord] /\ NULL \notin Objs
      /\ \A q \in Objs : f[q].ref_cnt \in Nat /\ f[q].ref_cnt = Count(a, q)
  BY DataFacts
<1>g. g \in [Objs -> ObjRecord] /\ g[o] = New(k, ops) /\ \A q \in Objs : q # o => g[q] = f[q]
  BY DEF Set
<1>n. g[o].ref_cnt = 1 /\ g[o].key = k /\ g[o].ops = ops /\ g[o].weak_owner = NULL
  BY <1>g, NewFacts
<1>b. b \in [Places -> Objs \cup {NULL}] /\ b[p] = o /\ \A q \in Places : q # p => b[q] = a[q]
  BY DEF Put
<1>0. f[o].ref_cnt = 0 /\ f[o].weak_owner = NULL /\ \A q \in Counted : a[q] # o
  BY <1>t, FreeFacts, Unreferenced
<1>5. \A q \in Places : a[q] # o
  <2> SUFFICES ASSUME NEW q \in Places, a[q] = o PROVE FALSE
    OBVIOUS
  <2>1. q \notin Counted
    BY <1>0
  <2>2. PICK c \in Weak, l \in Keys : q = Entry(c, l)
    <3>1. q \in {"entry"} \X (Weak \X Keys)
      BY <2>1 DEF Places, Entries
    <3>2. q = <<"entry", <<q[2][1], q[2][2]>>>> /\ q[2][1] \in Weak /\ q[2][2] \in Keys
      BY <3>1
    <3> QED
      BY <3>2 DEF Entry
  <2>3. f[o].ref_cnt > 0
    BY <2>2, <1>t DEF Data, WeakOK
  <2> QED
    BY <2>3, <1>0
<1>1. Exact(g, b)
  <2> SUFFICES ASSUME NEW q \in Objs PROVE g[q].ref_cnt = Count(b, q)
    BY DEF Exact
  <2>1. /\ q = o => Count(b, q) = Count(a, q) + 1
        /\ q # o => Count(b, q) = Count(a, q)
    BY <1>t, PutCount
  <2> QED
    BY <2>1, <1>g, <1>t, <1>n, <1>0
<1>2. Alive(g)
  BY <1>g, <1>n, <1>t DEF Data, Alive
<1>3. StrongOK(g, b)
  <2> SUFFICES ASSUME NEW c \in Strong, NEW l \in Keys, b[Entry(c, l)] # NULL
               PROVE  Suits(g[b[Entry(c, l)]], l)
    BY DEF StrongOK
  <2>1. Entry(c, l) \in Places
    BY PlaceFacts
  <2>2. CASE Entry(c, l) = p
    BY <2>2, <1>b, <1>g DEF Fits, Suits
  <2>3. CASE Entry(c, l) # p
    BY <2>1, <2>3, <1>b, <1>g, <1>t, <1>5 DEF Data, StrongOK, Suits
  <2> QED
    BY <2>2, <2>3
<1>4. WeakOK(g, b)
  <2>1. \A c \in Weak, l \in Keys : b[Entry(c, l)] = a[Entry(c, l)] /\ Entry(c, l) \in Places
    BY <1>b, PlaceFacts
  <2>2. \A q \in Objs : f[q].weak_owner # NULL => f[q].weak_owner \in Weak /\ f[q].key \in Keys
    BY DataFacts
  <2> QED
    BY <2>1, <2>2, <1>g, <1>b, <1>n, <1>5 DEF Data, WeakOK
<1> QED
  BY <1>g, <1>b, <1>1, <1>2, <1>3, <1>4 DEF Data

(* A reference is dropped, which is not the last one or not known to a weak   *)
(* cache.                                                                     *)
LEMMA Drop ==
    ASSUME NEW f, NEW a, NEW b, NEW p \in Counted, NEW o \in Objs,
           Data(f, a), a[p] = o, f[o].weak_owner = NULL \/ f[o].ref_cnt # 1, Put(a, b, p, NULL)
    PROVE  Data(Unref(f, o), b)
<1> DEFINE g == Unref(f, o)
<1>t. /\ f \in [Objs -> ObjRecord] /\ NULL \notin Objs
      /\ \A q \in Objs : f[q].ref_cnt \in Nat /\ f[q].ref_cnt = Count(a, q)
  BY DataFacts
<1>0. f[o].ref_cnt > 0
  BY <1>t, Referenced
<1>g. /\ g \in [Objs -> ObjRecord] /\ g[o].ref_cnt = f[o].ref_cnt - 1
      /\ \A q \in Objs : q # o => g[q] = f[q]
      /\ f[o].ref_cnt = 1 => g[o] = Free
      /\ f[o].ref_cnt # 1 => g[o].key = f[o].key /\ g[o].ops = f[o].ops /\ g[o].weak_owner = f[o].weak_owner
  BY <1>t, <1>0, UnrefFacts
<1> HIDE DEF g
<1>b. b \in [Places -> Objs \cup {NULL}] /\ b[p] = NULL /\ \A q \in Places : q # p => b[q] = a[q]
  BY DEF Put
<1>c. \A q \in Objs : g[q].ref_cnt \in Nat
  BY <1>g DEF ObjRecord
<1>1. Exact(g, b)
  <2> SUFFICES ASSUME NEW q \in Objs PROVE g[q].ref_cnt = Count(b, q)
    BY DEF Exact
  <2>1. /\ q = o => Count(b, q) = Count(a, q) - 1
        /\ q # o => Count(b, q) = Count(a, q)
    BY <1>t, PutCount
  <2> QED
    BY <2>1, <1>g, <1>t, <1>c
<1>2. Alive(g)
  BY <1>g, <1>c, <1>t, <1>0, FreeFacts DEF Data, Alive
<1>s. \A q \in Counted : b[q] = o => f[o].ref_cnt # 1
  <2> SUFFICES ASSUME NEW q \in Counted, b[q] = o, f[o].ref_cnt = 1 PROVE FALSE
    OBVIOUS
  <2>1. Count(b, o) = 0
    BY <1>1, <1>g, <1>t DEF Exact
  <2> QED
    BY <2>1, Unreferenced
<1>3. StrongOK(g, b)
  <2> SUFFICES ASSUME NEW c \in Strong, NEW k \in Keys, b[Entry(c, k)] # NULL
               PROVE  Suits(g[b[Entry(c, k)]], k)
    BY DEF StrongOK
  <2>1. Entry(c, k) \in Places /\ Entry(c, k) \in Counted
    BY PlaceFacts
  <2>2. Entry(c, k) # p /\ b[Entry(c, k)] = a[Entry(c, k)] /\ b[Entry(c, k)] \in Objs
    BY <1>b, <2>1
  <2>3. Suits(f[b[Entry(c, k)]], k)
    BY <2>2 DEF Data, StrongOK
  <2> QED
    BY <2>1, <2>2, <2>3, <1>g, <1>s DEF Suits
<1>4. WeakOK(g, b)
  <2>1. \A c \in Weak, k \in Keys : b[Entry(c, k)] = a[Entry(c, k)] /\ b[Entry(c, k)] \in Objs \cup {NULL}
    BY <1>b, PlaceFacts
  <2>2. \A q \in Objs : f[q].weak_owner # NULL => f[q].weak_owner \in Weak /\ f[q].key \in Keys
    BY DataFacts
  <2>3. \A q \in Objs : g[q].weak_owner # NULL =>
           g[q].weak_owner = f[q].weak_owner /\ g[q].key = f[q].key
    BY <1>g, FreeFacts
  <2>4. \A q \in Objs : f[q].weak_owner # NULL /\ f[q].ref_cnt > 0 =>
           /\ g[q].weak_owner = f[q].weak_owner /\ g[q].key = f[q].key /\ g[q].ops = f[q].ops
           /\ g[q].ref_cnt > 0
    BY <1>g, <1>c, <1>t
  <2>5. ASSUME NEW c \in Weak, NEW k \in Keys, b[Entry(c, k)] # NULL
        PROVE  /\ g[b[Entry(c, k)]].ref_cnt > 0 /\ g[b[Entry(c, k)]].key = k
               /\ g[b[Entry(c, k)]].weak_owner = c /\ g[b[Entry(c, k)]].ops = ops_of[k]
    <3>1. b[Entry(c, k)] \in Objs /\ b[Entry(c, k)] = a[Entry(c, k)] /\ c # NULL
      BY <2>1, <2>5, CacheAssumption DEF Caches
    <3>2. /\ f[b[Entry(c, k)]].ref_cnt > 0 /\ f[b[Entry(c, k)]].key = k
          /\ f[b[Entry(c, k)]].weak_owner = c /\ f[b[Entry(c, k)]].ops = ops_of[k]
      BY <3>1, <2>5 DEF Data, WeakOK
    <3> QED
      BY <3>1, <3>2, <2>4
  <2>6. ASSUME NEW q \in Objs, g[q].weak_owner # NULL
        PROVE  b[Entry(g[q].weak_owner, g[q].key)] = q
    BY <2>6, <2>1, <2>2, <2>3 DEF Data, WeakOK
  <2> QED
    BY <2>5, <2>6, SMTT(30) DEF WeakOK
<1> QED
  BY <1>g, <1>b, <1>1, <1>2, <1>3, <1>4 DEF Data, g

(* The last reference to an object of a weak cache is dropped.                *)
LEMMA DropLast ==
    ASSUME NEW f, NEW a, NEW m, NEW b, NEW p \in Counted, NEW o \in Objs,
           Data(f, a), a[p] = o, f[o].weak_owner # NULL, f[o].ref_cnt = 1,
           Put(a, m, Entry(f[o].weak_owner, f[o].key), NULL), Put(m, b, p, NULL)
    PROVE  Data(Unref(f, o), b)
<1> DEFINE g == Unref(f, o)
           e == Entry(f[o].weak_owner, f[o].key)
<1>t. /\ f \in [Objs -> ObjRecord] /\ NULL \notin Objs
      /\ \A q \in Objs : f[q].ref_cnt \in Nat /\ f[q].ref_cnt = Count(a, q)
  BY DataFacts
<1>e. e \in Places \ Counted /\ a[e] = o /\ f[o].weak_owner \in Weak /\ f[o].key \in Keys
  BY Owned
<1>g. g \in [Objs -> ObjRecord] /\ g[o] = Free /\ \A q \in Objs : q # o => g[q] = f[q]
  BY <1>t, UnrefFacts
<1> HIDE DEF g, e
<1>b. /\ b \in [Places -> Objs \cup {NULL}] /\ b[p] = NULL /\ b[e] = NULL /\ m[p] = o
      /\ \A q \in Places : q # p /\ q # e => b[q] = a[q]
  BY <1>e, PlaceFacts DEF Put, e
<1>1. Exact(g, b)
  <2> SUFFICES ASSUME NEW q \in Objs PROVE g[q].ref_cnt = Count(b, q)
    BY DEF Exact
  <2>1. Count(m, q) = Count(a, q)
    <3>1. \A r \in Counted : m[r] = a[r]
      BY <1>e, PlaceFacts DEF Put, e
    <3> QED
      BY <3>1, Unmoved
  <2>2. /\ q = o => Count(b, q) = Count(m, q) - 1
        /\ q # o => Count(b, q) = Count(m, q)
    BY <1>t, <1>b, PutCount
  <2> QED
    BY <2>1, <2>2, <1>g, <1>t, FreeFacts
<1>2. Alive(g)
  BY <1>g DEF Data, Alive
<1>s. \A q \in Counted : b[q] # o
  BY <1>1, <1>g, FreeFacts, Unreferenced DEF Exact
<1>3. StrongOK(g, b)
  <2> SUFFICES ASSUME NEW c \in Strong, NEW k \in Keys, b[Entry(c, k)] # NULL
               PROVE  Suits(g[b[Entry(c, k)]], k)
    BY DEF StrongOK
  <2>1. Entry(c, k) \in Places /\ Entry(c, k) \in Counted
    BY PlaceFacts
  <2>2. Entry(c, k) # p /\ b[Entry(c, k)] = a[Entry(c, k)] /\ b[Entry(c, k)] \in Objs
    BY <1>b, <1>e, <2>1
  <2>3. Suits(f[b[Entry(c, k)]], k)
    BY <2>2 DEF Data, StrongOK
  <2> QED
    BY <2>1, <2>2, <2>3, <1>g, <1>s DEF Suits
<1>4. WeakOK(g, b)
  <2>1. \A c \in Weak, k \in Keys : Entry(c, k) \in Places /\ Entry(c, k) # p
    BY PlaceFacts
  <2>5. ASSUME NEW c \in Weak, NEW k \in Keys, b[Entry(c, k)] # NULL
        PROVE  /\ g[b[Entry(c, k)]].ref_cnt > 0 /\ g[b[Entry(c, k)]].key = k
               /\ g[b[Entry(c, k)]].weak_owner = c /\ g[b[Entry(c, k)]].ops = ops_of[k]
    <3>1. Entry(c, k) # e /\ b[Entry(c, k)] = a[Entry(c, k)] /\ a[Entry(c, k)] \in Objs
      BY <2>1, <2>5, <1>b
    <3>2. /\ f[a[Entry(c, k)]].ref_cnt > 0 /\ f[a[Entry(c, k)]].key = k
          /\ f[a[Entry(c, k)]].weak_owner = c /\ f[a[Entry(c, k)]].ops = ops_of[k]
      BY <3>1, <1>t DEF Data, WeakOK
    <3>3. a[Entry(c, k)] # o
      BY <3>1, <3>2 DEF e
    <3> QED
      BY <3>1, <3>2, <3>3, <1>g
  <2>6. ASSUME NEW q \in Objs, g[q].weak_owner # NULL
        PROVE  b[Entry(g[q].weak_owner, g[q].key)] = q
    <3>1. q # o /\ g[q] = f[q]
      BY <2>6, <1>g, FreeFacts
    <3>2. a[Entry(f[q].weak_owner, f[q].key)] = q /\ f[q].weak_owner \in Weak /\ f[q].key \in Keys
      BY <2>6, <3>1, Owned
    <3>3. Entry(f[q].weak_owner, f[q].key) # e
      BY <3>1, <3>2, <1>e
    <3> QED
      BY <3>1, <3>2, <3>3, <2>1, <1>b
  <2> QED
    BY <2>5, <2>6, SMTT(30) DEF WeakOK
<1> QED
  BY <1>g, <1>b, <1>1, <1>2, <1>3, <1>4 DEF Data, g

(* A reference moves from one place to another.                               *)
LEMMA Move ==
    ASSUME NEW f, NEW a, NEW m, NEW b, NEW p \in Counted, NEW r \in Counted, NEW o \in Objs,
           Data(f, a), a[p] = o, a[r] = NULL, Fits(r, f[o]), Put(a, m, p, NULL), Put(m, b, r, o)
    PROVE  Data(f, b)
<1>t. /\ f \in [Objs -> ObjRecord] /\ NULL \notin Objs
      /\ \A q \in Objs : f[q].ref_cnt \in Nat /\ f[q].ref_cnt = Count(a, q)
  BY DataFacts
<1>b. /\ b \in [Places -> Objs \cup {NULL}] /\ b[p] = NULL /\ b[r] = o /\ m[r] = NULL /\ p # r
      /\ \A q \in Places : q # p /\ q # r => b[q] = a[q]
  BY <1>t, PlaceFacts DEF Put
<1>1. Exact(f, b)
  <2> SUFFICES ASSUME NEW q \in Objs PROVE Count(b, q) = Count(a, q)
    BY <1>t DEF Exact
  <2>1. /\ q = o => Count(m, q) = Count(a, q) - 1
        /\ q # o => Count(m, q) = Count(a, q)
    BY <1>t, PutCount
  <2>2. /\ q = o => Count(b, q) = Count(m, q) + 1
        /\ q # o => Count(b, q) = Count(m, q)
    BY <1>t, <1>b, PutCount
  <2> QED
    BY <2>1, <2>2, <1>t
<1>3. StrongOK(f, b)
  <2> SUFFICES ASSUME NEW c \in Strong, NEW k \in Keys, b[Entry(c, k)] # NULL
               PROVE  Suits(f[b[Entry(c, k)]], k)
    BY DEF StrongOK
  <2>1. Entry(c, k) \in Places
    BY PlaceFacts
  <2> QED
    BY <2>1, <1>b DEF Data, StrongOK, Fits
<1>4. WeakOK(f, b)
  <2>1. \A c \in Weak, k \in Keys : b[Entry(c, k)] = a[Entry(c, k)]
    BY <1>b, PlaceFacts
  <2>2. \A q \in Objs : f[q].weak_owner # NULL => f[q].weak_owner \in Weak /\ f[q].key \in Keys
    BY DataFacts
  <2>3. WeakOK(f, a)
    BY DEF Data
  <2> QED
    BY <2>1, <2>2, <2>3, SMTT(30) DEF WeakOK
<1> QED
  BY <1>b, <1>1, <1>3, <1>4 DEF Data

(* A weak cache gets an object that no strong cache has.                      *)
LEMMA WeakAdd ==
    ASSUME NEW f, NEW a, NEW g, NEW b, NEW c \in Weak, NEW k \in Keys, NEW o \in Objs,
           Data(f, a), a[Entry(c, k)] = NULL, f[o].ref_cnt > 0, f[o].key = k, f[o].ops = ops_of[k],
           f[o].weak_owner = NULL, \A d \in Strong, l \in Keys : a[Entry(d, l)] # o,
           Put(a, b, Entry(c, k), o),
           g \in [Objs -> ObjRecord], \A q \in Objs : q # o => g[q] = f[q],
           g[o].ref_cnt = f[o].ref_cnt, g[o].key = k, g[o].ops = f[o].ops, g[o].weak_owner = c
    PROVE  Data(g, b)
<1>t. /\ f \in [Objs -> ObjRecord] /\ NULL \notin Objs
      /\ \A q \in Objs : f[q].ref_cnt \in Nat /\ f[q].ref_cnt = Count(a, q)
  BY DataFacts
<1>e. Entry(c, k) \in Places \ Counted
  BY PlaceFacts
<1>w. NULL \notin Weak
  BY CacheAssumption DEF Caches
<1>b. /\ b \in [Places -> Objs \cup {NULL}] /\ b[Entry(c, k)] = o
      /\ \A q \in Places : q # Entry(c, k) => b[q] = a[q]
  BY DEF Put
<1>1. Exact(g, b)
  <2> SUFFICES ASSUME NEW q \in Objs PROVE g[q].ref_cnt = Count(b, q)
    BY DEF Exact
  <2>1. \A r \in Counted : b[r] = a[r]
    BY <1>b, <1>e, PlaceFacts
  <2>2. Count(b, q) = Count(a, q)
    BY <2>1, Unmoved
  <2> QED
    BY <2>2, <1>t
<1>2. Alive(g)
  BY <1>t, DataFacts DEF Data, Alive
<1>3. StrongOK(g, b)
  <2> SUFFICES ASSUME NEW d \in Strong, NEW l \in Keys, b[Entry(d, l)] # NULL
               PROVE  Suits(g[b[Entry(d, l)]], l)
    BY DEF StrongOK
  <2>1. Entry(d, l) \in Places /\ Entry(d, l) # Entry(c, k)
    BY <1>e, PlaceFacts
  <2>2. b[Entry(d, l)] = a[Entry(d, l)] /\ a[Entry(d, l)] # o /\ a[Entry(d, l)] \in Objs
    BY <2>1, <1>b
  <2> QED
    BY <2>2 DEF Data, StrongOK
<1>4. WeakOK(g, b)
  <2>0. \A d \in Weak, l \in Keys : Entry(d, l) \in Places /\ (Entry(d, l) = Entry(c, k) => d = c /\ l = k)
    <3>1. \A d \in Weak, l \in Keys : Entry(d, l) \in Places
      BY PlaceFacts
    <3> QED
      BY <3>1, Distinct
  <2>5. ASSUME NEW d \in Weak, NEW l \in Keys, b[Entry(d, l)] # NULL
        PROVE  /\ g[b[Entry(d, l)]].ref_cnt > 0 /\ g[b[Entry(d, l)]].key = l
               /\ g[b[Entry(d, l)]].weak_owner = d /\ g[b[Entry(d, l)]].ops = ops_of[l]
    <3>1. CASE Entry(d, l) = Entry(c, k)
      BY <3>1, <2>0, <1>b
    <3>2. CASE Entry(d, l) # Entry(c, k)
      <4>1. b[Entry(d, l)] = a[Entry(d, l)] /\ b[Entry(d, l)] \in Objs
        BY <2>0, <2>5, <3>2, <1>b
      <4>2. /\ f[a[Entry(d, l)]].ref_cnt > 0 /\ f[a[Entry(d, l)]].key = l
            /\ f[a[Entry(d, l)]].weak_owner = d /\ f[a[Entry(d, l)]].ops = ops_of[l]
        <5>1. WeakOK(f, a) /\ a[Entry(d, l)] # NULL
          BY <2>5, <4>1 DEF Data
        <5> QED
          BY <5>1 DEF WeakOK
      <4>3. a[Entry(d, l)] # o
        BY <4>2, <1>w
      <4> QED
        BY <4>1, <4>2, <4>3
    <3> QED
      BY <3>1, <3>2
  <2>6. ASSUME NEW q \in Objs, g[q].weak_owner # NULL
        PROVE  b[Entry(g[q].weak_owner, g[q].key)] = q
    <3>1. CASE q = o
      BY <3>1, <1>b
    <3>2. CASE q # o
      <4>1. a[Entry(f[q].weak_owner, f[q].key)] = q /\ f[q].weak_owner \in Weak /\ f[q].key \in Keys
        BY <2>6, <3>2, Owned
      <4>2. Entry(f[q].weak_owner, f[q].key) # Entry(c, k)
        BY <4>1, <1>t
      <4> QED
        BY <4>1, <4>2, <2>0, <1>b, <3>2
    <3> QED
      BY <3>1, <3>2
  <2> QED
    BY <2>5, <2>6, SMTT(30) DEF WeakOK
<1> QED
  BY <1>b, <1>1, <1>2, <1>3, <1>4 DEF Data
-----------------------------------------------------------------------------
(* The inductive invariant *)

CallRecord == [pc : {"idle", "search", "disk", "deserialize", "remove", "unref", "insert",
                     "drop", "return", "load", "destroy", "merge", "merging"},
               cache : Caches \cup {NULL}, key : Keys \cup {NULL}, add : BOOLEAN,
               handle : Handles \cup {NULL}, srcs : SUBSET Strong,
               src : Strong \cup {NULL}, todo : SUBSET Keys]

Raw == {"deserialize", "remove", "unref"}
Formed == {"insert", "drop", "return"}
Holding == Raw \cup Formed
Merging == {"merge", "merging"}
Closing == {"load", "destroy"}

(* The objects in the local variables of thread t, in a call r.               *)
Local(f, a, r, t) ==
    /\ a[Object(t)] # NULL <=> r.pc \in Holding
    /\ a[Other(t)] # NULL <=> r.pc = "drop"
    /\ r.pc \in Holding => f[a[Object(t)]].key = r.key
    /\ r.pc \in Raw => /\ f[a[Object(t)]].ops = "raw" /\ ops_of[r.key] # "raw"
                       /\ f[a[Object(t)]].weak_owner = NULL
    /\ r.pc \in Formed => f[a[Object(t)]].ops = ops_of[r.key]
    /\ r.pc = "insert" => f[a[Object(t)]].ref_cnt = 1 /\ f[a[Object(t)]].weak_owner = NULL

(* Handles are promised to one call each, and have fully formed objects.      *)
HandlesOK(f, a, T) ==
    /\ \A t \in Threads : T[t].handle # NULL => a[Handle(T[t].handle)] = NULL
    /\ \A t, u \in Threads : t # u /\ T[t].handle = T[u].handle => T[t].handle = NULL
    /\ \A h \in Handles : a[Handle(h)] # NULL => f[a[Handle(h)]].ops = ops_of[f[a[Handle(h)]].key]

(* The arguments of a call.                                                   *)
Sound(r) ==
    /\ r.pc \in {"search", "disk"} \cup Holding =>
          r.cache \in Caches /\ r.key \in Keys /\ r.handle \in Handles
    /\ r.pc = "load" => r.cache \in Strong
    /\ r.pc \in Merging => r.cache \in Strong /\ r.cache \notin r.srcs
    /\ r.pc = "merging" => r.src \in r.srcs

(* A cache that is created or destroyed is used by nobody else.               *)
Exclusive(v, T) == \A t \in Threads : T[t].pc \in Closing =>
    /\ T[t].cache \in Caches \ v
    /\ \A u \in Threads \ {t} : T[t].cache # T[u].cache /\ T[t].cache \notin T[u].srcs

(* A merge holds the locks of its caches.                                     *)
Locked(l, T) == \A t \in Threads :
    /\ T[t].pc \in Merging => l[T[t].cache] = t
    /\ T[t].pc = "merging" => l[T[t].src] = t

(* The entries a merge has yet to copy are there.                             *)
TodoThere(a, T) == \A t \in Threads : T[t].pc = "merging" =>
    \A k \in T[t].todo : a[Entry(T[t].src, k)] # NULL

(* A weak cache is empty when it is destroyed.                                *)
Emptied(a, T) == \A t \in Threads : T[t].pc = "destroy" /\ T[t].cache \in Weak =>
    \A k \in Keys : a[Entry(T[t].cache, k)] = NULL

Types(l, v, d, T) ==
    /\ l \in [Caches -> Threads \cup {NULL}] /\ v \in SUBSET Caches /\ d \in SUBSET Keys
    /\ T \in [Threads -> CallRecord]

Control(a, l, v, T) ==
    /\ \A t \in Threads : Sound(T[t])
    /\ Exclusive(v, T) /\ Locked(l, T) /\ TodoThere(a, T) /\ Emptied(a, T)

Inv ==
    /\ Data(obj, at)
    /\ Types(lock, live, disk, th)
    /\ \A t \in Threads : Local(obj, at, th[t], t)
    /\ HandlesOK(obj, at, th)
    /\ Control(at, lock, live, th)
-----------------------------------------------------------------------------
(* What a step leaves alone *)

(* From f to g, objects at the places a keep their key, type and owner; only  *)
(* objects that are new or not private to another thread than t change.       *)
Kept(f, a, g, t) ==
    /\ \A q \in Objs : f[q].ref_cnt > 0 /\ g[q].ref_cnt > 0 => g[q].key = f[q].key /\ g[q].ops = f[q].ops
    /\ \A q \in Objs : f[q].ref_cnt > 0 /\ g[q].ref_cnt > 0 /\ (\E p \in Places : p # Object(t) /\ a[p] = q) =>
          g[q].weak_owner = f[q].weak_owner
    /\ \A q \in Objs : g[q] # f[q] =>
          f[q] = Free \/ \E p \in Places : a[p] = q /\ \A u \in Threads : u # t => p # Object(u)

(* The object of a call that is about to insert it is private.                *)
LEMMA Elsewhere ==
    ASSUME NEW f, NEW a, NEW r, NEW u \in Threads, Data(f, a), Local(f, a, r, u), r.pc = "insert",
           NEW p \in Places, p # Object(u)
    PROVE  a[p] # a[Object(u)]
<1> DEFINE o == a[Object(u)]
<1>1. Object(u) \in Counted /\ o # NULL
  BY PlaceFacts DEF Local, Holding, Formed
<1>2. o \in Objs /\ f[o].ref_cnt = 1 /\ f[o].weak_owner = NULL
  BY <1>1, RefersTo DEF Local
<1>3. Count(a, o) = 1
  BY <1>2, DataFacts
<1>4. CASE p \in Counted
  BY <1>1, <1>3, <1>4, Alone
<1>5. CASE p \notin Counted
  <2>1. p \in {"entry"} \X (Weak \X Keys)
    BY <1>5 DEF Places, Entries
  <2>2. p = <<"entry", <<p[2][1], p[2][2]>>>> /\ p[2][1] \in Weak /\ p[2][2] \in Keys
    BY <2>1
  <2>3. PICK c \in Weak, k \in Keys : p = Entry(c, k)
    BY <2>2 DEF Entry
  <2>4. a[p] # NULL => f[a[p]].weak_owner = c
    BY <2>3 DEF Data, WeakOK
  <2> QED
    BY <2>4, <1>1, <1>2, CacheAssumption DEF Caches
<1> QED
  BY <1>4, <1>5

(* What Kept says is enough for the local variables of the other threads.     *)
LEMMA OthersKeep ==
    ASSUME NEW f, NEW a, NEW g, NEW b, NEW t, NEW u \in Threads, u # t, NEW r,
           Data(f, a), Data(g, b), Kept(f, a, g, t), Local(f, a, r, u),
           b[Object(u)] = a[Object(u)], b[Other(u)] = a[Other(u)]
    PROVE  Local(g, b, r, u)
<1> DEFINE o == a[Object(u)]
<1>0. Object(u) \in Counted /\ Object(u) \in Places /\ Object(u) # Object(t)
  BY PlaceFacts, Distinct
<1>1. CASE o = NULL
  BY <1>1 DEF Local, Holding, Raw, Formed
<1>2. CASE o # NULL
  <2>1. o \in Objs /\ f[o].ref_cnt > 0 /\ g[o].ref_cnt > 0
    BY <1>0, <1>2, RefersTo
  <2>2. g[o].key = f[o].key /\ g[o].ops = f[o].ops /\ g[o].weak_owner = f[o].weak_owner
    BY <1>0, <2>1 DEF Kept
  <2>3. ASSUME r.pc = "insert" PROVE g[o] = f[o]
    <3> SUFFICES ASSUME g[o] # f[o] PROVE FALSE
      OBVIOUS
    <3>1. f[o] # Free
      BY <2>1, FreeFacts
    <3>2. PICK p \in Places : a[p] = o /\ p # Object(u)
      BY <2>1, <3>1 DEF Kept
    <3> QED
      BY <2>3, <3>2, Elsewhere
  <2> QED
    BY <2>1, <2>2, <2>3 DEF Local
<1> QED
  BY <1>1, <1>2

(* What Kept says is enough for the handles, if they keep their objects or    *)
(* lose them.                                                                 *)
LEMMA HandlesKeep ==
    ASSUME NEW f, NEW a, NEW g, NEW b, NEW t, NEW T, NEW S,
           Data(f, a), Data(g, b), Kept(f, a, g, t), HandlesOK(f, a, T),
           \A h \in Handles : b[Handle(h)] = a[Handle(h)] \/ b[Handle(h)] = NULL,
           \A u \in Threads : T[u].handle \in Handles \cup {NULL},
           \A u \in Threads : S[u].handle = T[u].handle \/ S[u].handle = NULL
    PROVE  HandlesOK(g, b, S)
<1>1. \A u \in Threads : S[u].handle # NULL => b[Handle(S[u].handle)] = NULL
  BY DEF HandlesOK
<1>2. \A v, u \in Threads : v # u /\ S[v].handle = S[u].handle => S[v].handle = NULL
  BY DEF HandlesOK
<1>3. ASSUME NEW h \in Handles, b[Handle(h)] # NULL
      PROVE  g[b[Handle(h)]].ops = ops_of[g[b[Handle(h)]].key]
  <2>1. Handle(h) \in Counted /\ b[Handle(h)] = a[Handle(h)]
    BY <1>3, PlaceFacts
  <2>2. a[Handle(h)] \in Objs /\ f[a[Handle(h)]].ref_cnt > 0 /\ g[a[Handle(h)]].ref_cnt > 0
    BY <1>3, <2>1, RefersTo
  <2> QED
    <3>1. f[a[Handle(h)]].ops = ops_of[f[a[Handle(h)]].key]
      BY <1>3, <2>1 DEF HandlesOK
    <3>2. g[a[Handle(h)]].key = f[a[Handle(h)]].key /\ g[a[Handle(h)]].ops = f[a[Handle(h)]].ops
      BY <2>2 DEF Kept
    <3> QED
      BY <2>1, <3>1, <3>2
<1> QED
  BY <1>1, <1>2, <1>3 DEF HandlesOK

(* What a step of thread t, or of none, does to objects and places.           *)
Effect(t) ==
    /\ Data(obj', at') /\ Kept(obj, at, obj', t)
    /\ \A u \in Threads : u # t => at'[Object(u)] = at[Object(u)] /\ at'[Other(u)] = at[Other(u)]
    /\ \A c \in Strong, k \in Keys : at[Entry(c, k)] # NULL /\ at'[Entry(c, k)] = NULL =>
          lock[c] = NULL \/ (t \in Threads /\ th[t].pc = "destroy" /\ th[t].cache = c)
    /\ \A c \in Weak, k \in Keys : at[Entry(c, k)] = NULL /\ at'[Entry(c, k)] # NULL =>
          t \in Threads /\ th[t].pc = "insert" /\ th[t].cache = c

(* Only the call of thread t changes, and goes on, ends or begins.            *)
Only(t) == th' \in [Threads -> CallRecord] /\ \A u \in Threads : u # t => th'[u] = th[u]

GoesOn(t) ==
    /\ th'[t].cache = th[t].cache /\ th'[t].srcs = th[t].srcs /\ th'[t].src = th[t].src
    /\ th'[t].key = th[t].key /\ th'[t].handle = th[t].handle /\ th'[t].todo \subseteq th[t].todo
    /\ th'[t].pc \in Closing \cup Merging => th'[t].pc = th[t].pc
    /\ th'[t].pc \in {"search", "disk"} \cup Holding => th[t].pc \in {"search", "disk"} \cup Holding

Begins(t) ==
    /\ th[t].pc = "idle" /\ th'[t].pc \in {"search", "insert"} /\ th'[t].cache \in live
    /\ th'[t].key \in Keys /\ th'[t].handle \in Handles /\ th'[t].srcs = {}

(* The fields of a thread without a call.                                     *)
LEMMA IdleFacts ==
    /\ Idle.pc = "idle" /\ Idle.cache = NULL /\ Idle.key = NULL /\ Idle.add = FALSE
    /\ Idle.handle = NULL /\ Idle.srcs = {} /\ Idle.src = NULL /\ Idle.todo = {}
    /\ Idle \in CallRecord
BY DEF Idle, CallRecord

(* An effect on objects and places leaves the control of all calls            *)
(* consistent.                                                                *)
LEMMA EffectControl ==
    ASSUME Inv, NEW t, Effect(t)
    PROVE  Control(at', lock, live, th)
<1>0. th \in [Threads -> CallRecord] /\ NULL \notin Threads /\ Strong \subseteq Caches
  BY CacheAssumption DEF Inv, Types, Caches
<1>1. TodoThere(at', th)
  <2> SUFFICES ASSUME NEW u \in Threads, th[u].pc = "merging", NEW k \in th[u].todo, at'[Entry(th[u].src, k)] = NULL
               PROVE  FALSE
    BY DEF TodoThere
  <2> DEFINE c == th[u].src
  <2>1. c \in th[u].srcs /\ lock[c] = u /\ at[Entry(c, k)] # NULL
    BY DEF Inv, Control, Sound, Locked, TodoThere
  <2>2. c \in Strong /\ k \in Keys
    BY <2>1, <1>0 DEF CallRecord
  <2>3. t \in Threads /\ th[t].pc = "destroy" /\ th[t].cache = c
    BY <2>1, <2>2, <1>0 DEF Effect
  <2>4. t # u
    BY <2>3
  <2> QED
    BY <2>1, <2>3, <2>4 DEF Inv, Control, Exclusive, Closing
<1>2. Emptied(at', th)
  <2> SUFFICES ASSUME NEW u \in Threads, th[u].pc = "destroy", th[u].cache \in Weak, NEW k \in Keys,
                      at'[Entry(th[u].cache, k)] # NULL
               PROVE  FALSE
    BY DEF Emptied
  <2>1. at[Entry(th[u].cache, k)] = NULL
    BY DEF Inv, Control, Emptied
  <2>2. t \in Threads /\ th[t].pc = "insert" /\ th[t].cache = th[u].cache
    BY <2>1 DEF Effect
  <2> QED
    BY <2>2 DEF Inv, Control, Exclusive, Closing
<1> QED
  BY <1>1, <1>2 DEF Inv, Control

(* So does the step of one call that goes on or ends.                         *)
LEMMA AdvanceControl ==
    ASSUME NEW a, NEW t \in Threads, Control(a, lock, live, th), Only(t), th'[t] = Idle \/ GoesOn(t)
    PROVE  Control(a, lock, live, th')
<1> USE DEF Closing, Merging
<1>c. NULL \notin Caches
  BY CacheAssumption
<1>1. ASSUME NEW u \in Threads PROVE Sound(th'[u])
  <2>1. CASE u # t
    BY <2>1 DEF Control, Only
  <2>2. CASE u = t /\ th'[t] = Idle
    BY <2>2, IdleFacts DEF Sound, Holding, Raw, Formed
  <2>3. CASE u = t /\ GoesOn(t)
    <3>1. Sound(th[t])
      BY DEF Control
    <3>2. th'[t].pc \in Closing \cup Merging => th'[t].pc = th[t].pc
      BY <2>3 DEF GoesOn
    <3> QED
      BY <2>3, <3>1, <3>2 DEF Sound, GoesOn, Holding, Raw, Formed
  <2> QED
    BY <2>1, <2>2, <2>3
<1>2. Exclusive(live, th')
  <2> SUFFICES ASSUME NEW u \in Threads, th'[u].pc \in Closing
               PROVE  /\ th'[u].cache \in Caches \ live
                      /\ \A v \in Threads \ {u} : th'[u].cache # th'[v].cache /\ th'[u].cache \notin th'[v].srcs
    BY DEF Exclusive
  <2>1. th[u].pc \in Closing /\ th'[u].cache = th[u].cache
    BY IdleFacts DEF Only, GoesOn
  <2>2. th[u].cache \in Caches \ live
    BY <2>1 DEF Control, Exclusive
  <2>3. \A v \in Threads : th'[v].cache \in {th[v].cache, NULL} /\ th'[v].srcs \in {th[v].srcs, {}}
    BY IdleFacts DEF Only, GoesOn
  <2> QED
    BY <2>1, <2>2, <2>3, <1>c DEF Control, Exclusive
<1>6. \A u \in Threads : th'[u].pc \in Closing \cup Merging =>
         /\ th'[u].pc = th[u].pc /\ th'[u].cache = th[u].cache
         /\ th'[u].src = th[u].src /\ th'[u].todo \subseteq th[u].todo
  BY IdleFacts DEF Only, GoesOn
<1>7. Locked(lock, th) /\ TodoThere(a, th) /\ Emptied(a, th)
  BY DEF Control
<1>3. Locked(lock, th')
  BY <1>6, <1>7 DEF Locked
<1>4. TodoThere(a, th')
  BY <1>6, <1>7 DEF TodoThere
<1>5. Emptied(a, th')
  BY <1>6, <1>7 DEF Emptied
<1> QED
  BY <1>1, <1>2, <1>3, <1>4, <1>5 DEF Control

(* So does the start of a lookup or an insertion.                             *)
LEMMA BeginControl ==
    ASSUME NEW a, NEW t \in Threads, Control(a, lock, live, th), Only(t), Begins(t), live \subseteq Caches
    PROVE  Control(a, lock, live, th')
<1> USE DEF Closing, Merging
<1>1. ASSUME NEW u \in Threads PROVE Sound(th'[u])
  BY DEF Control, Only, Begins, Sound
<1>2. Exclusive(live, th')
  <2> SUFFICES ASSUME NEW u \in Threads, th'[u].pc \in Closing
               PROVE  /\ th'[u].cache \in Caches \ live
                      /\ \A v \in Threads \ {u} : th'[u].cache # th'[v].cache /\ th'[u].cache \notin th'[v].srcs
    BY DEF Exclusive
  <2>1. u # t /\ th'[u] = th[u]
    BY DEF Only, Begins
  <2> QED
    BY <2>1 DEF Control, Exclusive, Only, Begins
<1>4. \A u \in Threads : th'[u].pc \in Closing \cup Merging => th'[u] = th[u]
  BY DEF Only, Begins
<1>5. Locked(lock, th) /\ TodoThere(a, th) /\ Emptied(a, th)
  BY DEF Control
<1>3. Locked(lock, th') /\ TodoThere(a, th') /\ Emptied(a, th')
  BY <1>4, <1>5 DEF Locked, TodoThere, Emptied
<1> QED
  BY <1>1, <1>2, <1>3 DEF Control

(* The step of one thread has to establish the facts on its own local         *)
(* variables only.                                                            *)
LEMMA LocalsKeep ==
    ASSUME Inv, NEW t, Effect(t), Only(t), t \in Threads => Local(obj', at', th'[t], t)
    PROVE  \A u \in Threads : Local(obj', at', th'[u], u)
<1> SUFFICES ASSUME NEW u \in Threads, u # t PROVE Local(obj', at', th'[u], u)
  OBVIOUS
<1>1. Data(obj, at) /\ Data(obj', at') /\ Kept(obj, at, obj', t) /\ Local(obj, at, th[u], u)
  BY DEF Inv, Effect
<1>2. at'[Object(u)] = at[Object(u)] /\ at'[Other(u)] = at[Other(u)] /\ th'[u] = th[u]
  BY DEF Effect, Only
<1> QED
  BY <1>1, <1>2, OthersKeep

(* A reference can be added to an object that is at a place the thread may    *)
(* read.                                                                      *)
LEMMA KeptRef ==
    ASSUME NEW f, NEW a, NEW t, NEW p \in Places, NEW o \in Objs, Data(f, a), a[p] = o,
           \A u \in Threads : u # t => p # Object(u)
    PROVE  Kept(f, a, Ref(f, o), t)
<1>1. f \in [Objs -> ObjRecord]
  BY DataFacts
<1>2. /\ \A q \in Objs : q # o => Ref(f, o)[q] = f[q]
      /\ \A q \in Objs : /\ Ref(f, o)[q].key = f[q].key /\ Ref(f, o)[q].ops = f[q].ops
                         /\ Ref(f, o)[q].weak_owner = f[q].weak_owner
  BY <1>1, RefFacts
<1> DEFINE g == Ref(f, o)
<1>3. \A q \in Objs : g[q].key = f[q].key /\ g[q].ops = f[q].ops /\ g[q].weak_owner = f[q].weak_owner
  BY <1>2
<1>4. \A q \in Objs : g[q] # f[q] => q = o
  BY <1>2
<1> HIDE DEF g
<1>5. \A q \in Objs : g[q] # f[q] => \E r \in Places : a[r] = q /\ \A u \in Threads : u # t => r # Object(u)
  BY <1>4
<1>6. Kept(f, a, g, t)
  BY <1>3, <1>5 DEF Kept
<1> QED
  BY <1>6 DEF g

(* A reference can be dropped by the thread that owns it.                     *)
LEMMA KeptUnref ==
    ASSUME NEW f, NEW a, NEW t, NEW p \in Counted, NEW o \in Objs, Data(f, a), a[p] = o,
           \A u \in Threads : u # t => p # Object(u)
    PROVE  Kept(f, a, Unref(f, o), t)
<1>0. f \in [Objs -> ObjRecord] /\ f[o].ref_cnt = Count(a, o)
  BY DataFacts
<1>1. f \in [Objs -> ObjRecord] /\ f[o].ref_cnt > 0 /\ p \in Places
  BY <1>0, Referenced, PlaceFacts
<1>2. /\ \A q \in Objs : q # o => Unref(f, o)[q] = f[q]
      /\ f[o].ref_cnt = 1 => Unref(f, o)[o] = Free
      /\ f[o].ref_cnt # 1 => /\ Unref(f, o)[o].key = f[o].key /\ Unref(f, o)[o].ops = f[o].ops
                             /\ Unref(f, o)[o].weak_owner = f[o].weak_owner
  BY <1>1, UnrefFacts
<1> DEFINE g == Unref(f, o)
<1>3. \A q \in Objs : g[q].ref_cnt > 0 => g[q].key = f[q].key /\ g[q].ops = f[q].ops /\ g[q].weak_owner = f[q].weak_owner
  <2> SUFFICES ASSUME NEW q \in Objs, g[q].ref_cnt > 0
               PROVE  g[q].key = f[q].key /\ g[q].ops = f[q].ops /\ g[q].weak_owner = f[q].weak_owner
    OBVIOUS
  <2>1. CASE q # o
    BY <1>2, <2>1
  <2>2. CASE q = o
    <3>1. f[o].ref_cnt # 1
      BY <1>2, <2>2, FreeFacts
    <3> QED
      BY <1>2, <2>2, <3>1
  <2> QED
    BY <2>1, <2>2
<1>4. \A q \in Objs : g[q] # f[q] => q = o
  BY <1>2
<1> HIDE DEF g
<1>5. \A q \in Objs : g[q] # f[q] => \E r \in Places : a[r] = q /\ \A u \in Threads : u # t => r # Object(u)
  BY <1>1, <1>4
<1>6. Kept(f, a, g, t)
  BY <1>3, <1>5 DEF Kept
<1> QED
  BY <1>6 DEF g

(* An object can be created.                                                  *)
LEMMA KeptNew ==
    ASSUME NEW f, NEW a, NEW g, NEW t, NEW o \in Objs, NEW x, f[o] = Free, Set(f, g, o, x)
    PROVE  Kept(f, a, g, t)
BY FreeFacts DEF Kept, Set

(* The places after vk_pipeline_cache_object_unref on the reference of p.     *)
Leaves(b, p, o) == b = [Forgotten(at, o) EXCEPT ![p] = NULL]

(* An unref with the bookkeeping of the weak owner: the object leaves its     *)
(* place, and its weak cache with the last reference.                         *)
LEMMA Dropped ==
    ASSUME Data(obj, at), NEW t, NEW p \in Counted, NEW o, o = at[p], o # NULL,
           \A u \in Threads : u # t => p # Object(u), NEW b, Leaves(b, p, o)
    PROVE  /\ Data(Unref(obj, o), b) /\ Kept(obj, at, Unref(obj, o), t)
           /\ b[p] = NULL /\ \A q \in Places : q # p => b[q] = at[q] \/ (b[q] = NULL /\ q \notin Counted)
<1>1. /\ obj \in [Objs -> ObjRecord] /\ at \in [Places -> Objs \cup {NULL}] /\ p \in Places
      /\ o \in Objs /\ obj[o].ref_cnt > 0
  BY DataFacts, PlaceFacts, RefersTo
<1>2. Kept(obj, at, Unref(obj, o), t)
  BY <1>1, KeptUnref
<1>3. CASE obj[o].weak_owner = NULL \/ obj[o].ref_cnt # 1
  <2>1. b = [at EXCEPT ![p] = NULL]
    BY <1>3 DEF Forgotten, Forgets, Leaves
  <2>2. Put(at, b, p, NULL)
    BY <2>1, <1>1 DEF Put
  <2>3. Data(Unref(obj, o), b)
    BY <2>2, <1>1, <1>3, Drop
  <2> QED
    BY <2>2, <2>3, <1>2 DEF Put
<1>4. CASE obj[o].weak_owner # NULL /\ obj[o].ref_cnt = 1
  <2> DEFINE e == Entry(obj[o].weak_owner, obj[o].key)
             m == [at EXCEPT ![e] = NULL]
  <2>0. e \in Places \ Counted /\ at[e] = o
    BY <1>1, <1>4, Owned
  <2>1. b = [m EXCEPT ![p] = NULL]
    BY <1>4, <2>0 DEF Forgotten, Forgets, Leaves
  <2>2. Put(at, m, e, NULL)
    BY <2>0, <1>1 DEF Put
  <2> HIDE DEF e, m
  <2>3. Put(m, b, p, NULL)
    BY <2>1, <2>2, <1>1 DEF Put
  <2>4. Data(Unref(obj, o), b)
    BY <2>2, <2>3, <1>1, <1>4, DropLast DEF e
  <2> QED
    BY <2>0, <2>2, <2>3, <2>4, <1>2, <1>1 DEF Put
<1> QED
  BY <1>3, <1>4

(* The body of FormedStays, and when a step satisfies it.                     *)
Stays == \A c \in Strong \cap live, k \in Keys :
    at[Entry(c, k)] # NULL /\ obj[at[Entry(c, k)]].ops = ops_of[k] =>
        at'[Entry(c, k)] = at[Entry(c, k)] /\ obj'[at[Entry(c, k)]].ops = obj[at[Entry(c, k)]].ops

(* Formed objects keep their type, so that it is enough to look at the        *)
(* entries.                                                                   *)
LEMMA StaysIf ==
    ASSUME Inv, NEW t, Effect(t),
           \A c \in Strong \cap live, k \in Keys :
              at[Entry(c, k)] # NULL /\ obj[at[Entry(c, k)]].ops = ops_of[k] =>
                  at'[Entry(c, k)] = at[Entry(c, k)]
    PROVE  Stays
<1> SUFFICES ASSUME NEW c \in Strong \cap live, NEW k \in Keys,
                    at[Entry(c, k)] # NULL, obj[at[Entry(c, k)]].ops = ops_of[k]
             PROVE  obj'[at[Entry(c, k)]].ops = obj[at[Entry(c, k)]].ops
  BY DEF Stays
<1>1. Data(obj, at) /\ Data(obj', at') /\ Kept(obj, at, obj', t)
  BY DEF Inv, Effect
<1>2. Entry(c, k) \in Counted /\ at'[Entry(c, k)] = at[Entry(c, k)]
  BY PlaceFacts
<1>3. at[Entry(c, k)] \in Objs /\ obj[at[Entry(c, k)]].ref_cnt > 0 /\ obj'[at[Entry(c, k)]].ref_cnt > 0
  BY <1>1, <1>2, RefersTo
<1> QED
  BY <1>1, <1>3 DEF Kept

(* A step of a call that keeps the objects, places and locks consistent.      *)
LEMMA Advance ==
    ASSUME Inv, NEW t \in Threads, Effect(t), Only(t), th'[t] = Idle \/ GoesOn(t),
           Local(obj', at', th'[t], t), HandlesOK(obj', at', th'),
           lock' = lock, live' = live, disk' \in SUBSET Keys
    PROVE  Inv'
<1>1. Control(at', lock, live, th')
  BY EffectControl, AdvanceControl
<1>2. \A u \in Threads : Local(obj', at', th'[u], u)
  BY LocalsKeep
<1> QED
  BY <1>1, <1>2 DEF Inv, Effect, Types, Only

(* The same for a step that gives no object to a handle.                      *)
LEMMA AdvancePlain ==
    ASSUME Inv, NEW t \in Threads, Effect(t), Only(t), th'[t] = Idle \/ GoesOn(t),
           Local(obj', at', th'[t], t),
           \A h \in Handles : at'[Handle(h)] = at[Handle(h)] \/ at'[Handle(h)] = NULL,
           lock' = lock, live' = live, disk' \in SUBSET Keys
    PROVE  Inv'
<1>1. Data(obj, at) /\ Data(obj', at') /\ Kept(obj, at, obj', t) /\ HandlesOK(obj, at, th)
  BY DEF Inv, Effect
<1>2. \A u \in Threads : th[u].handle \in Handles \cup {NULL}
  BY DEF Inv, Types, CallRecord
<1>3. \A u \in Threads : th'[u].handle = th[u].handle \/ th'[u].handle = NULL
  BY IdleFacts DEF Only, GoesOn
<1>4. HandlesOK(obj', at', th')
  BY <1>1, <1>2, <1>3, HandlesKeep
<1> QED
  BY <1>4, Advance
=============================================================================
