-------------------------- MODULE ControllerProofs --------------------------
(***************************************************************************)
(* Proofs about Controller, for every set of objects, workers and          *)
(* contents, every number of versions and kills, and with and without the  *)
(* in-memory reader.                                                       *)
(***************************************************************************)
EXTENDS Controller, NaturalFacts, SequenceTheorems

-----------------------------------------------------------------------------
(* The operators.                                                          *)

(* Cache keeps c a map and adds nothing but rev (cache.go:50-66).          *)
LEMMA CacheType ==
    ASSUME NEW s \in SUBSET Revs, NEW rev \in Revs, FlushCache!OnePerKey(s)
    PROVE  /\ FlushCache!Cache(s, rev) \subseteq s \cup {rev}
           /\ FlushCache!OnePerKey(FlushCache!Cache(s, rev))
BY DEF FlushCache!Cache, FlushCache!OnePerKey

(* Whatever was cached and whatever is cached now, the cache holds a       *)
(* version of the object that is not older (cache.go:58-65).               *)
LEMMA CacheKeepsNewest ==
    ASSUME NEW s \in SUBSET Revs, NEW rev \in Revs, NEW r \in s \cup {rev}
    PROVE  \E q \in FlushCache!Cache(s, rev) : q.res = r.res /\ q.rv >= r.rv
<1>1. \A x \in s \cup {rev} : x.rv \in Int
  BY DEF Revs
<1> QED BY <1>1 DEF FlushCache!Cache, ResourceKey

(* The newest revisions of a set that is not empty exist: versions are     *)
(* bounded.                                                                *)
LEMMA NewestExists ==
    ASSUME NEW S \in SUBSET Revs, S # {}
    PROVE  \E r \in S : r \in Newest(S)
<1> DEFINE V == {r.rv : r \in S}
<1>1. V \in SUBSET Nat /\ V # {} /\ \A k \in V : k <= MaxRV
  BY BoundsAssumption DEF Revs
<1>2. PICK n \in V : \A k \in V : k <= n
  <2> HIDE DEF V
  <2> QED BY <1>1, GreatestExists, BoundsAssumption
<1> QED BY <1>2 DEF Newest

(* A revision and its object have the same fields.                         *)
LEMMA ObjectType ==
    ASSUME NEW r \in Revs
    PROVE  /\ Object(r) \in Objects
           /\ Object(r).res = r.res
           /\ Object(r).rv = r.rv
           /\ Object(r).content = r.content
BY DEF Revs, Objects, Object

LEMMA RevisionFromType ==
    ASSUME NEW u \in Objects, NEW d \in BOOLEAN
    PROVE  /\ RevisionFrom(u, d) \in Revs
           /\ RevisionFrom(u, d).res = u.res
           /\ RevisionFrom(u, d).rv = u.rv
           /\ RevisionFrom(u, d).content = u.content
           /\ RevisionFrom(u, d).deleted = d
BY DEF Revs, Objects, RevisionFrom

(* The elements of a queue ...                                             *)
LEMMA ItemOfSeq ==
    ASSUME NEW q \in Seq(Items), NEW i \in DOMAIN q
    PROVE  q[i] \in Items /\ i \in 1..Len(q)
BY LenProperties, ElementOfSeq

(* ... of one to which an item is added ...                                *)
LEMMA ItemOfAppend ==
    ASSUME NEW q \in Seq(Items), NEW item \in Items,
           NEW i \in DOMAIN Append(q, item)
    PROVE  \/ i \in DOMAIN q /\ Append(q, item)[i] = q[i]
           \/ i = Len(q) + 1 /\ Append(q, item)[i] = item
BY LenProperties, AppendProperties

(* ... and of one from which the first is taken.                           *)
LEMMA ItemOfTail ==
    ASSUME NEW q \in Seq(Items), q # <<>>, NEW i \in DOMAIN Tail(q)
    PROVE  i + 1 \in DOMAIN q /\ Tail(q)[i] = q[i + 1]
BY LenProperties, HeadTailProperties

LEMMA ItemOfHead ==
    ASSUME NEW q \in Seq(Items), q # <<>>
    PROVE  1 \in DOMAIN q /\ Head(q) = q[1] /\ Head(q) \in Items
BY LenProperties, HeadTailProperties

(* A revision with another content ...                                     *)
LEMMA ContentOnly ==
    ASSUME NEW r \in Revs, NEW x \in Contents \cup {Lazy}
    PROVE  /\ [r EXCEPT !.content = x] \in Revs
           /\ [r EXCEPT !.content = x].res = r.res
           /\ [r EXCEPT !.content = x].rv = r.rv
           /\ [r EXCEPT !.content = x].deleted = r.deleted
           /\ [r EXCEPT !.content = x].content = x
BY DEF Revs

(* ... and one that SetDeleted has marked.                                 *)
LEMMA TombstoneOnly ==
    ASSUME NEW r \in Revs
    PROVE  /\ [r EXCEPT !.deleted = TRUE] \in Revs
           /\ [r EXCEPT !.deleted = TRUE].res = r.res
           /\ [r EXCEPT !.deleted = TRUE].rv = r.rv
           /\ [r EXCEPT !.deleted = TRUE].content = r.content
           /\ [r EXCEPT !.deleted = TRUE].deleted
BY DEF Revs

-----------------------------------------------------------------------------
(* Type correctness.                                                       *)

(* What a worker has looked up, and what latestCache holds, has been       *)
(* loaded.                                                                 *)
LoadedInv ==
    /\ \A res \in Resources :
          latestCache[res] # None => latestCache[res].content # Lazy
    /\ \A w \in Workers : At(w, "memo") =>
          hand[w].found # None /\ hand[w].found.content # Lazy

TypeInv == TypeOK /\ LoadedInv

LEMMA TypeInit == Init => TypeInv
<1> SUFFICES ASSUME Init PROVE TypeInv
  OBVIOUS
<1>1. FlushCache!OnePerKey(c)
  BY DEF Init, FlushCache!OnePerKey
<1>2. handled \subseteq Resources /\ archive \subseteq Revs
      /\ \A r \in archive : r.content # Lazy
  BY SetupsAssumption DEF Init
<1>3. TypeOK
  BY <1>1, <1>2, BoundsAssumption DEF Init, TypeOK
<1>4. LoadedInv
  BY DEF Init, LoadedInv, At
<1> QED BY <1>3, <1>4 DEF TypeInv

Places == {"taken", "gone", "fetch", "load", "memo", "compare"}

(* A worker goes on with the same item.                                    *)
LEMMA StepFacts ==
    ASSUME TypeOK, NEW w \in Workers, hand[w] # None,
           NEW old \in Objects \cup {None}, NEW at \in Places,
           Step(w, old, at)
    PROVE  /\ hand' \in [Workers -> Tasks \cup {None}]
           /\ \A v \in Workers : v # w => hand'[v] = hand[v]
           /\ hand'[w] \in Tasks /\ hand'[w] # None
           /\ hand'[w].item = hand[w].item
           /\ hand'[w].old = old
           /\ hand'[w].found = None
           /\ hand'[w].at = at
<1>1. hand[w] \in Tasks
  BY DEF TypeOK
<1>2. hand' = [hand EXCEPT ![w] = [hand[w] EXCEPT !.old = old, !.found = None,
                                                  !.at = at]]
  BY DEF Step
<1>3. [hand[w] EXCEPT !.old = old, !.found = None, !.at = at] \in Tasks
  BY <1>1 DEF Tasks, Places
<1> QED BY <1>1, <1>2, <1>3, NoneAssumption DEF TypeOK, Tasks

(* The item of a worker.                                                   *)
LEMMA NewType ==
    ASSUME TypeOK, NEW w \in Workers, hand[w] # None
    PROVE  /\ hand[w] \in Tasks
           /\ hand[w].item \in Items
           /\ New(w) \in Objects /\ New(w).res \in Resources
           /\ hand[w].old \in Objects \cup {None}
           /\ hand[w].found \in Objects \cup {None}
<1>1. hand[w] \in Tasks
  BY DEF TypeOK
<1> QED BY <1>1 DEF Tasks, Items, Objects, New

(* What is loaded for a worker is an object, with content.                 *)
LEMMA LoadedType ==
    ASSUME TypeOK, NEW w \in Workers, hand[w] # None,
           NEW u \in Objects, u.content # Lazy
    PROVE  /\ Loaded(w, u) \in Objects
           /\ Loaded(w, u).content = u.content
BY NewType DEF Objects, Loaded

(* Filling in a content changes no key of the reader.                      *)
LEMMA FillType ==
    ASSUME TypeOK, NEW u \in Objects, Fill(u)
    PROVE  /\ m' \subseteq Revs
           /\ \A x, y \in m' : x.res = y.res /\ x.rv = y.rv => x = y
<1> DEFINE F(r) == IF r.res = u.res /\ r.rv = u.rv /\ r.content = Lazy
                   THEN [r EXCEPT !.content = u.content] ELSE r
<1>1. \A r \in Revs : F(r) \in Revs /\ F(r).res = r.res /\ F(r).rv = r.rv
  BY DEF Revs, Objects
<1>2. m' = {F(r) : r \in m}
  BY DEF Fill
<1>3. m \subseteq Revs /\ \A x, y \in m : x.res = y.res /\ x.rv = y.rv => x = y
  BY DEF TypeOK
<1> HIDE DEF F
<1> QED BY <1>1, <1>2, <1>3

(* The live revision that is looked up is remembered with the task.        *)
LEMMA LoadListedFacts ==
    ASSUME TypeOK, NEW w \in Workers, LoadListed(w)
    PROVE  \E r \in Newest(Live(Of(New(w).res, archive))) :
              /\ Object(r) \in Objects /\ Object(r).content # Lazy
              /\ hand' \in [Workers -> Tasks \cup {None}]
              /\ \A v \in Workers : v # w => hand'[v] = hand[v]
              /\ hand'[w] \in Tasks /\ hand'[w] # None
              /\ hand'[w].item = hand[w].item
              /\ hand'[w].old = hand[w].old
              /\ hand'[w].found = Object(r)
              /\ hand'[w].at = "memo"
<1>1. hand[w] # None /\ hand[w] \in Tasks
  BY NewType DEF LoadListed, Loading, At
<1>2. PICK r \in Newest(Live(Of(New(w).res, archive))) :
          hand' = [hand EXCEPT ![w].found = Object(r), ![w].at = "memo"]
  BY DEF LoadListed
<1>3. r \in archive
  BY <1>2 DEF Newest, Live, Of
<1>4. Object(r) \in Objects /\ Object(r).content # Lazy
  BY <1>3, ObjectType DEF TypeOK
<1> DEFINE task == [hand[w] EXCEPT !.found = Object(r), !.at = "memo"]
<1>5. /\ task \in Tasks /\ task.item = hand[w].item /\ task.old = hand[w].old
      /\ task.found = Object(r) /\ task.at = "memo"
  BY <1>1, <1>4 DEF Tasks
<1>6. hand' = [hand EXCEPT ![w] = task]
  BY <1>2
<1> HIDE DEF task
<1>7. /\ hand' \in [Workers -> Tasks \cup {None}]
      /\ \A v \in Workers : v # w => hand'[v] = hand[v]
      /\ hand'[w] = task /\ task # None
  BY <1>5, <1>6, NoneAssumption DEF TypeOK
<1> QED BY <1>2, <1>4, <1>5, <1>7

(* The end of the process leaves nothing but the archive.                  *)
LEMMA DieType == TypeInv /\ Die /\ crashes' \in 0..MaxCrashes => TypeInv'
<1> SUFFICES ASSUME TypeInv, Die, crashes' \in 0..MaxCrashes PROVE TypeInv'
  OBVIOUS
<1>1. TypeOK'
  BY BoundsAssumption DEF TypeInv, TypeOK, Die, FlushCache!OnePerKey, configVars
<1>2. LoadedInv'
  BY DEF Die, LoadedInv, At
<1> QED BY <1>1, <1>2 DEF TypeInv

LEMMA InformerType == TypeInv /\ InformerStep => TypeInv'
<1> SUFFICES ASSUME TypeInv, NEW res \in handled,
                    \/ \E x \in Contents : Appear(res, x) \/ Change(res, x)
                    \/ \E final \in FinalRV : Vanish(res, final)
                    \/ Resync(res)
             PROVE  TypeInv'
  BY DEF InformerStep
<1> USE DEF TypeInv
<1>1. res \in Resources /\ known[res] \in Objects \cup {None} /\ lastRV \in Nat
      /\ MaxRV \in Nat
  BY BoundsAssumption DEF TypeOK
<1>2. ASSUME NEW item \in Items, Report(item) PROVE queue' \in Seq(Items)
  BY <1>2 DEF Report, TypeOK
<1>3. ASSUME NEW x \in Contents, Appear(res, x) \/ Change(res, x) PROVE TypeInv'
  <2> DEFINE u == [res |-> res, rv |-> lastRV + 1, content |-> x]
  <2>1. lastRV < MaxRV /\ u \in Objects
    BY <1>1, <1>3 DEF Appear, Change, Objects
  <2>2. queue' \in Seq(Items)
    <3>1. \/ Report([old |-> None, new |-> u])
          \/ known[res] # None /\ Report([old |-> known[res], new |-> u])
      BY <1>3 DEF Appear, Change
    <3> QED BY <1>1, <1>2, <2>1, <3>1 DEF Items
  <2>3. known' = [known EXCEPT ![res] = u] /\ lastRV' = lastRV + 1
        /\ UNCHANGED <<configVars, listed, syncVars, hand, flushVars,
                       storeVars, historyVars>>
    BY <1>3 DEF Appear, Change
  <2>4. TypeOK'
    BY <1>1, <2>1, <2>2, <2>3
    DEF TypeOK, configVars, syncVars, flushVars, storeVars, readerVars,
        historyVars, FlushCache!OnePerKey
  <2>5. LoadedInv'
    BY <2>3 DEF LoadedInv, At, storeVars
  <2> QED BY <2>4, <2>5
<1>4. ASSUME NEW final \in FinalRV, Vanish(res, final) PROVE TypeInv'
  <2> DEFINE u == IF final = "fresh" THEN [known[res] EXCEPT !.rv = lastRV + 1]
                  ELSE known[res]
  <2>1. lastRV < MaxRV /\ u \in Objects
    BY <1>1, <1>4 DEF Vanish, Objects
  <2>2. queue' \in Seq(Items)
    BY <1>2, <1>4, <2>1 DEF Vanish, Items
  <2>3. TypeOK'
    BY <1>1, <1>4, <2>1, <2>2
    DEF Vanish, TypeOK, configVars, syncVars, flushVars, storeVars, readerVars,
        FlushCache!OnePerKey
  <2>4. LoadedInv'
    BY <1>4 DEF Vanish, LoadedInv, At, storeVars
  <2> QED BY <2>3, <2>4
<1>5. CASE Resync(res)
  <2>1. [old |-> known[res], new |-> known[res]] \in Items
    BY <1>1, <1>5 DEF Resync, Exists, Items
  <2>2. queue' \in Seq(Items)
    BY <1>2, <1>5, <2>1 DEF Resync
  <2>3. TypeOK'
    BY <1>5, <2>2
    DEF Resync, TypeOK, configVars, syncVars, flushVars, storeVars, readerVars,
        historyVars, FlushCache!OnePerKey
  <2>4. LoadedInv'
    BY <1>5 DEF Resync, LoadedInv, At, storeVars
  <2> QED BY <2>3, <2>4
<1> QED BY <1>3, <1>4, <1>5

LEMMA StartType == TypeInv /\ StartStep => TypeInv'
<1> SUFFICES ASSUME TypeInv, StartStep PROVE TypeInv'
  OBVIOUS
<1> USE DEF TypeInv
<1>1. CASE Start \/ WaitForCacheSync \/ StartWorkers
  <2>1. TypeOK'
    BY <1>1
    DEF Start, WaitForCacheSync, StartWorkers, TypeOK, configVars,
        informerVars, flushVars, storeVars, readerVars, historyVars,
        FlushCache!OnePerKey
  <2>2. LoadedInv'
    BY <1>1 DEF Start, WaitForCacheSync, StartWorkers, LoadedInv, At, storeVars
  <2> QED BY <2>1, <2>2
<1>2. ASSUME NEW res \in handled \ listed, ListObject(res) PROVE TypeInv'
  <2>1. known[res] # None => [old |-> None, new |-> known[res]] \in Items
    BY DEF TypeOK, Items
  <2>2. queue' \in Seq(Items)
    BY <1>2, <2>1 DEF ListObject, TypeOK
  <2>3. TypeOK'
    BY <1>2, <2>2
    DEF ListObject, TypeOK, configVars, syncVars, flushVars, storeVars,
        readerVars, historyVars, FlushCache!OnePerKey
  <2>4. LoadedInv'
    BY <1>2 DEF ListObject, LoadedInv, At, storeVars
  <2> QED BY <2>3, <2>4
<1>3. ASSUME NEW rev \in unsynced, SyncVisit(rev) PROVE TypeInv'
  <2>1. [rev EXCEPT !.content = Lazy] \in Revs
    BY ContentOnly DEF TypeOK
  <2>2. unsynced' \subseteq Revs /\ toDelete' \subseteq Revs
    BY <1>3, <2>1 DEF SyncVisit, TypeOK
  <2>3. TypeOK'
    BY <1>3, <2>2
    DEF SyncVisit, TypeOK, configVars, informerVars, flushVars, storeVars,
        readerVars, historyVars, FlushCache!OnePerKey
  <2>4. LoadedInv'
    BY <1>3 DEF SyncVisit, LoadedInv, At, storeVars
  <2> QED BY <2>3, <2>4
<1>4. CASE SyncWalked
  <2> DEFINE walked == {[r EXCEPT !.content = Lazy] :
                           r \in {q \in archive : q.res \in handled}}
  <2>1. \A r \in walked : r \in Revs /\ r.content = Lazy
    <3>1. \A q \in archive : /\ [q EXCEPT !.content = Lazy] \in Revs
                             /\ [q EXCEPT !.content = Lazy].content = Lazy
      <4>1. \A q \in archive : q \in Revs
        BY DEF TypeOK
      <4> QED BY <4>1, ContentOnly
    <3> QED BY <3>1
  <2>2. m' \subseteq walked /\ \A r \in m' :
            r.deleted \/ [r EXCEPT !.deleted = TRUE] \notin walked
    BY <1>4 DEF SyncWalked
  <2>3. m' \subseteq Revs
    BY <2>1, <2>2
  <2>4. ASSUME NEW x \in m', NEW y \in m', x.res = y.res, x.rv = y.rv
        PROVE  x = y
    <3> HIDE DEF walked
    <3>1. x \in Revs /\ y \in Revs /\ x.content = Lazy /\ y.content = Lazy
      BY <2>1, <2>2
    <3>2. x.deleted = y.deleted
      <4>1. x.deleted /\ ~y.deleted => [y EXCEPT !.deleted = TRUE] = x
        BY <2>4, <3>1 DEF Revs
      <4>2. y.deleted /\ ~x.deleted => [x EXCEPT !.deleted = TRUE] = y
        BY <2>4, <3>1 DEF Revs
      <4>3. x.deleted \in BOOLEAN /\ y.deleted \in BOOLEAN
        BY <3>1 DEF Revs
      <4> QED BY <2>2, <4>1, <4>2, <4>3
    <3> QED BY <2>4, <3>1, <3>2 DEF Revs
  <2>5. latest' \in [Resources -> 0..MaxRV]
    <3>1. ASSUME NEW res \in Resources, Of(res, m') # {}
          PROVE  (CHOOSE r \in Newest(Of(res, m')) : TRUE).rv \in 0..MaxRV
      <4>1. Of(res, m') \in SUBSET Revs
        BY <2>3 DEF Of
      <4>2. \E r : r \in Newest(Of(res, m'))
        BY <3>1, <4>1, NewestExists
      <4>3. (CHOOSE r \in Newest(Of(res, m')) : TRUE) \in Revs
        BY <4>1, <4>2 DEF Newest
      <4> QED BY <4>3, BoundsAssumption DEF Revs
    <3>2. latest' = [res \in Resources |->
                        IF Of(res, m') = {} THEN 0
                        ELSE (CHOOSE r \in Newest(Of(res, m')) : TRUE).rv]
      BY <1>4 DEF SyncWalked
    <3>3. 0 \in 0..MaxRV
      BY BoundsAssumption
    <3> QED BY <3>1, <3>2, <3>3
  <2>6. TypeOK'
    BY <1>4, <2>3, <2>4, <2>5
    DEF SyncWalked, TypeOK, configVars, informerVars, flushVars, historyVars,
        FlushCache!OnePerKey
  <2>7. LoadedInv'
    BY <1>4 DEF SyncWalked, LoadedInv, At
  <2> QED BY <2>6, <2>7
<1>5. ASSUME NEW rev \in toDelete, SyncDelete(rev) PROVE TypeInv'
  <2> DEFINE tombstone == [rev EXCEPT !.deleted = TRUE]
             F(r) == IF r = rev THEN tombstone ELSE r
  <2>1. rev \in Revs /\ tombstone \in Revs
    BY TombstoneOnly DEF TypeOK
  <2>2. c' \subseteq Revs /\ FlushCache!OnePerKey(c')
    BY <1>5, <2>1, CacheType DEF SyncDelete, TypeOK
  <2>3. \A r \in Revs : F(r) \in Revs /\ F(r).res = r.res /\ F(r).rv = r.rv
    BY <2>1 DEF Revs
  <2>4. m' = {F(r) : r \in m}
    BY <1>5 DEF SyncDelete
  <2>5. m' \subseteq Revs /\ \A x, y \in m' : x.res = y.res /\ x.rv = y.rv => x = y
    <3> HIDE DEF F
    <3> QED BY <2>3, <2>4 DEF TypeOK
  <2>6. TypeOK'
    BY <1>5, <2>2, <2>5
    DEF SyncDelete, TypeOK, configVars, informerVars, historyVars,
        FlushCache!OnePerKey
  <2>7. LoadedInv'
    BY <1>5 DEF SyncDelete, LoadedInv, At
  <2> QED BY <2>6, <2>7
<1> QED BY <1>1, <1>2, <1>3, <1>4, <1>5 DEF StartStep

(* The parts of the state that a worker changes.                           *)
LEMMA WorkerTypeOK ==
    ASSUME TypeOK, hand' \in [Workers -> Tasks \cup {None}],
           queue' \in Seq(Items), filtered' \subseteq Resources,
           c' \subseteq Revs, FlushCache!OnePerKey(c'),
           latestCache' \in [Resources -> Objects \cup {None}],
           m' \subseteq Revs,
           \A x, y \in m' : x.res = y.res /\ x.rv = y.rv => x = y,
           UNCHANGED <<configVars, known, listed, lastRV, syncVars, flushing,
                       archive, latest, crashes, recreated, late>>
    PROVE  TypeOK'
BY DEF TypeOK, configVars, syncVars, FlushCache!OnePerKey

LEMMA WorkerType == TypeInv /\ (\E w \in Workers : WorkerStep(w)) => TypeInv'
<1> SUFFICES ASSUME TypeInv, NEW w \in Workers, WorkerStep(w) PROVE TypeInv'
  OBVIOUS
<1> USE DEF TypeInv
<1>0. /\ hand \in [Workers -> Tasks \cup {None}]
      /\ queue \in Seq(Items)
      /\ filtered \subseteq Resources
      /\ c \subseteq Revs /\ FlushCache!OnePerKey(c)
      /\ latestCache \in [Resources -> Objects \cup {None}]
      /\ m \subseteq Revs
      /\ \A x, y \in m : x.res = y.res /\ x.rv = y.rv => x = y
  BY DEF TypeOK
<1>1. ASSUME Take(w) \/ TakeUnselected(w) PROVE TypeInv'
  <2>1. queue # <<>> /\ Head(queue) \in Items /\ queue' \in Seq(Items)
    BY <1>0, <1>1 DEF Take, TakeUnselected, CanTake
  <2>2. CASE Take(w)
    <3> DEFINE task == [item |-> Head(queue), old |-> Head(queue).old,
                        found |-> None, at |-> "taken"]
    <3>1. task \in Tasks
      BY <2>1 DEF Tasks, Items
    <3>2. hand' \in [Workers -> Tasks \cup {None}]
      BY <1>0, <2>2, <3>1 DEF Take
    <3>3. TypeOK'
      BY <1>0, <2>1, <2>2, <3>2, WorkerTypeOK
      DEF Take, flushVars, storeVars, readerVars, historyVars
    <3>4. LoadedInv'
      BY <1>0, <2>2 DEF Take, LoadedInv, At, storeVars
    <3> QED BY <3>3, <3>4
  <2>3. CASE TakeUnselected(w)
    <3>1. filtered' \subseteq Resources
      BY <1>0, <2>1, <2>3 DEF TakeUnselected, Items, Objects
    <3>2. TypeOK'
      BY <1>0, <2>1, <2>3, <3>1, WorkerTypeOK
      DEF TakeUnselected, flushVars, storeVars, readerVars
    <3>3. LoadedInv'
      BY <2>3 DEF TakeUnselected, LoadedInv, At, storeVars
    <3> QED BY <3>2, <3>3
  <2> QED BY <1>1, <2>2, <2>3
<1>2. ASSUME NEW at \in {"taken", "gone", "fetch", "load", "compare"},
             NEW old \in Objects \cup {None}, hand[w] # None, Step(w, old, at),
             UNCHANGED <<configVars, informerVars, syncVars, flushVars,
                         storeVars, historyVars>>
      PROVE  TypeInv'
  <2>1. hand' \in [Workers -> Tasks \cup {None}]
    BY <1>2, StepFacts DEF Places
  <2>2. TypeOK'
    BY <1>0, <1>2, <2>1, WorkerTypeOK
    DEF informerVars, flushVars, storeVars, readerVars, historyVars
  <2>3. LoadedInv'
    BY <1>2, StepFacts DEF LoadedInv, At, Places, storeVars
  <2> QED BY <2>2, <2>3
<1>3. ASSUME LookUp(w) PROVE TypeInv'
  <2>1. hand[w] # None /\ hand[w].old \in Objects \cup {None}
    BY <1>3, NewType DEF LookUp, At
  <2>2. \E at \in {"taken", "gone", "fetch", "load", "compare"} :
            Step(w, hand[w].old, at)
    BY <1>3 DEF LookUp
  <2> QED BY <1>2, <1>3, <2>1, <2>2 DEF LookUp
<1>4. ASSUME NEW rev \in Revs, At(w, "gone") \/ At(w, "compare"),
             c' \in {c, FlushCache!Cache(c, rev)},
             hand' = [hand EXCEPT ![w] = None],
             UNCHANGED <<configVars, informerVars, syncVars, flushing,
                         storeVars, historyVars>>
      PROVE  TypeInv'
  <2>1. c' \subseteq Revs /\ FlushCache!OnePerKey(c')
    BY <1>0, <1>4, CacheType
  <2>2. TypeOK'
    BY <1>0, <1>4, <2>1, WorkerTypeOK
    DEF informerVars, storeVars, readerVars, historyVars
  <2>3. LoadedInv'
    BY <1>0, <1>4 DEF LoadedInv, At, storeVars
  <2> QED BY <2>2, <2>3
<1>5. ASSUME Bury(w) PROVE TypeInv'
  BY <1>4, <1>5, NewType, RevisionFromType DEF Bury, At
<1>6. ASSUME Compare(w) PROVE TypeInv'
  <2>1. RevisionFrom(New(w), FALSE) \in Revs
    BY <1>6, NewType, RevisionFromType DEF Compare, At
  <2> QED BY <1>4, <1>6, <2>1 DEF Compare
<1>7. ASSUME Fetch(w) PROVE TypeInv'
  <2>1. hand[w] # None
    BY <1>7 DEF Fetch, At
  <2>2. CASE Step(w, None, "compare")
    BY <1>2, <1>7, <2>1, <2>2 DEF Fetch
  <2>3. ASSUME NEW r \in Of(New(w).res, m),
               Step(w, Object(r), IF r.content = Lazy /\ r.rv # New(w).rv
                                  THEN "load" ELSE "compare")
        PROVE  TypeInv'
    <3>1. Object(r) \in Objects
      BY <1>0, ObjectType DEF Of
    <3> QED BY <1>2, <1>7, <2>1, <2>3, <3>1 DEF Fetch
  <2> QED BY <1>7, <2>2, <2>3 DEF Fetch
<1>8. ASSUME LoadFails(w) PROVE TypeInv'
  BY <1>2, <1>8 DEF LoadFails, Loading, At
<1>9. ASSUME NEW u \in Objects, u.content # Lazy, hand[w] # None, Load(w, u),
             latestCache' \in {latestCache,
                               [latestCache EXCEPT ![New(w).res] = u]},
             UNCHANGED <<configVars, informerVars, syncVars, flushVars,
                         archive, latest, historyVars>>
      PROVE  TypeInv'
  <2>1. Loaded(w, u) \in Objects
    BY <1>9, LoadedType
  <2>2. /\ hand' \in [Workers -> Tasks \cup {None}]
        /\ \A v \in Workers : v # w => hand'[v] = hand[v]
        /\ hand'[w].at = "compare"
    BY <1>9, <2>1, StepFacts DEF Load, Places
  <2>3. /\ m' \subseteq Revs
        /\ \A x, y \in m' : x.res = y.res /\ x.rv = y.rv => x = y
    BY <1>9, <2>1, FillType DEF Load
  <2>4. latestCache' \in [Resources -> Objects \cup {None}]
    BY <1>0, <1>9
  <2>5. TypeOK'
    BY <1>0, <1>9, <2>2, <2>3, <2>4, WorkerTypeOK
    DEF informerVars, flushVars, historyVars
  <2>6. LoadedInv'
    BY <1>0, <1>9, <2>2 DEF LoadedInv, At
  <2> QED BY <2>5, <2>6
<1>10. ASSUME LoadLatest(w) PROVE TypeInv'
  <2>1. hand[w] # None /\ New(w).res \in Resources
    BY <1>10, NewType DEF LoadLatest, Loading, At
  <2>2. latestCache[New(w).res] \in Objects
        /\ latestCache[New(w).res].content # Lazy
    BY <1>0, <1>10, <2>1 DEF LoadLatest, LoadedInv
  <2> QED BY <1>9, <1>10, <2>1, <2>2 DEF LoadLatest
<1>11. ASSUME LoadListed(w) PROVE TypeInv'
  <2>1. PICK r \in Newest(Live(Of(New(w).res, archive))) :
            /\ Object(r) \in Objects /\ Object(r).content # Lazy
            /\ hand' \in [Workers -> Tasks \cup {None}]
            /\ \A v \in Workers : v # w => hand'[v] = hand[v]
            /\ hand'[w].found = Object(r)
    BY <1>11, LoadListedFacts
  <2>2. TypeOK'
    BY <1>0, <1>11, <2>1, WorkerTypeOK
    DEF LoadListed, informerVars, flushVars, storeVars, readerVars, historyVars
  <2>3. LoadedInv'
    BY <1>0, <1>11, <2>1, NoneAssumption DEF LoadListed, LoadedInv, At, storeVars
  <2> QED BY <2>2, <2>3
<1>12. ASSUME Memoize(w) PROVE TypeInv'
  <2>1. /\ hand[w] # None /\ hand[w].found \in Objects
        /\ hand[w].found.content # Lazy /\ New(w).res \in Resources
    BY <1>12, NewType DEF Memoize, LoadedInv, At
  <2>2. CASE Load(w, hand[w].found)
    BY <1>9, <1>12, <2>1, <2>2 DEF Memoize
  <2>3. CASE Step(w, None, "compare") /\ UNCHANGED m
    <3>1. /\ hand' \in [Workers -> Tasks \cup {None}]
          /\ \A v \in Workers : v # w => hand'[v] = hand[v]
          /\ hand'[w].at = "compare"
      BY <2>1, <2>3, StepFacts DEF Places
    <3>2. latestCache' \in [Resources -> Objects \cup {None}]
      BY <1>0, <1>12, <2>1 DEF Memoize
    <3>3. TypeOK'
      BY <1>0, <1>12, <2>3, <3>1, <3>2, WorkerTypeOK
      DEF Memoize, informerVars, flushVars, historyVars
    <3>4. LoadedInv'
      BY <1>0, <1>12, <2>1, <3>1 DEF Memoize, LoadedInv, At
    <3> QED BY <3>3, <3>4
  <2> QED BY <1>12, <2>2, <2>3 DEF Memoize
<1>13. ASSUME LoadNothing(w) PROVE TypeInv'
  <2>1. CASE Fatal
    BY <2>1, DieType DEF Fatal, TypeOK
  <2>2. CASE ~Fatal
    BY <1>2, <1>13, <2>2 DEF LoadNothing, At
  <2> QED BY <2>1, <2>2
<1> QED BY <1>1, <1>3, <1>5, <1>6, <1>7, <1>8, <1>10, <1>11, <1>12, <1>13
        DEF WorkerStep

(* What Write makes of the stores and of the cache.                        *)
LEMMA WriteFacts ==
    ASSUME TypeOK, NEW rev \in Revs, rev.content # Lazy, Write(rev)
    PROVE  /\ c' = {x \in c : ~(x.res = rev.res /\ x.rv = rev.rv)}
           /\ archive' \subseteq Revs
           /\ \A r \in archive' : r.content # Lazy
           /\ m' \subseteq Revs
           /\ \A x, y \in m' : x.res = y.res /\ x.rv = y.rv => x = y
           /\ latest' \in [Resources -> 0..MaxRV]
<1>1. c' = {x \in c : ~(x.res = rev.res /\ x.rv = rev.rv)}
  BY DEF Write, FlushCache!Delete, ResourceKey
<1>2. archive' \subseteq Revs /\ \A r \in archive' : r.content # Lazy
  BY DEF Write, TypeOK
<1>3. m' \subseteq Revs /\ \A x, y \in m' : x.res = y.res /\ x.rv = y.rv => x = y
  BY DEF Write, Set, TypeOK
<1>4. rev.rv \in 0..MaxRV
  BY BoundsAssumption DEF Revs
<1>5. latest' \in [Resources -> 0..MaxRV]
  BY <1>4 DEF Write, TypeOK
<1> QED BY <1>1, <1>2, <1>3, <1>5

(* A tombstone of syncStore gets the content of some loaded object.        *)
LEMMA FlushLazyLoads ==
    ASSUME TypeInv, NEW rev \in flushing, FlushLazy(rev)
    PROVE  \E u \in Objects :
              /\ u.content # Lazy
              /\ \/ u = latestCache[rev.res]
                 \/ \E r \in Live(Of(rev.res, archive)) : u = Object(r)
              /\ latestCache' = [latestCache EXCEPT ![rev.res] = u]
              /\ Write([rev EXCEPT !.content = u.content])
<1> USE DEF TypeInv
<1>1. rev \in Revs /\ rev.res \in Resources
  BY DEF TypeOK, Revs
<1>2. PICK u \in IF latestCache[rev.res] # None THEN {latestCache[rev.res]}
                 ELSE {Object(r) : r \in Newest(Live(Of(rev.res, archive)))} :
          /\ latestCache' = [latestCache EXCEPT ![rev.res] = u]
          /\ Write([rev EXCEPT !.content = u.content])
  BY DEF FlushLazy
<1>3. CASE latestCache[rev.res] # None
  BY <1>1, <1>2, <1>3 DEF TypeOK, LoadedInv
<1>4. CASE latestCache[rev.res] = None
  <2>1. PICK r \in Live(Of(rev.res, archive)) : u = Object(r)
    BY <1>2, <1>4 DEF Newest
  <2>2. r \in archive
    BY DEF Live, Of
  <2>3. u \in Objects /\ u.content # Lazy
    BY <2>1, <2>2, ObjectType DEF TypeOK
  <2> QED BY <1>2, <2>1, <2>3
<1> QED BY <1>3, <1>4

LEMMA FlusherType == TypeInv /\ FlusherStep => TypeInv'
<1> SUFFICES ASSUME TypeInv, FlusherStep PROVE TypeInv'
  OBVIOUS
<1> USE DEF TypeInv
<1>1. CASE StartFlush
  <2>1. TypeOK'
    BY <1>1
    DEF StartFlush, FlushCache!SafeCopy, TypeOK, configVars, informerVars,
        syncVars, storeVars, readerVars, historyVars, FlushCache!OnePerKey
  <2>2. LoadedInv'
    BY <1>1 DEF StartFlush, LoadedInv, At, storeVars
  <2> QED BY <2>1, <2>2
<1>2. ASSUME NEW rev \in Revs, rev.content # Lazy, Write(rev),
             latestCache' \in [Resources -> Objects \cup {None}],
             \A res \in Resources :
                 latestCache'[res] # None => latestCache'[res].content # Lazy
      PROVE  TypeInv'
  <2>1. /\ c' = {x \in c : ~(x.res = rev.res /\ x.rv = rev.rv)}
        /\ archive' \subseteq Revs
        /\ \A r \in archive' : r.content # Lazy
        /\ m' \subseteq Revs
        /\ \A x, y \in m' : x.res = y.res /\ x.rv = y.rv => x = y
        /\ latest' \in [Resources -> 0..MaxRV]
    BY <1>2, WriteFacts
  <2>2. c' \subseteq Revs /\ FlushCache!OnePerKey(c') /\ flushing' \subseteq Revs
    BY <1>2, <2>1 DEF TypeOK, FlushCache!OnePerKey, Write
  <2>3. UNCHANGED <<configVars, informerVars, syncVars, hand, historyVars>>
    BY <1>2 DEF Write
  <2>4. TypeOK'
    BY <1>2, <2>1, <2>2, <2>3
    DEF TypeOK, configVars, informerVars, syncVars, historyVars
  <2>5. LoadedInv'
    BY <1>2, <2>3 DEF LoadedInv, At
  <2> QED BY <2>4, <2>5
<1>3. ASSUME NEW rev \in flushing, Flush(rev) PROVE TypeInv'
  <2>1. rev \in Revs /\ rev.content # Lazy /\ Object(rev) \in Objects
        /\ Object(rev).content = rev.content
    BY <1>3, ObjectType DEF Flush, TypeOK
  <2>2. latestCache' \in [Resources -> Objects \cup {None}]
    BY <1>3, <2>1 DEF Flush, TypeOK
  <2>3. \A res \in Resources :
            latestCache'[res] # None => latestCache'[res].content # Lazy
    BY <1>3, <2>1 DEF Flush, TypeOK, LoadedInv
  <2> QED BY <1>2, <1>3, <2>1, <2>2, <2>3 DEF Flush
<1>4. ASSUME NEW rev \in flushing, FlushLazy(rev) PROVE TypeInv'
  <2>1. rev \in Revs /\ rev.res \in Resources
    BY DEF TypeOK, Revs
  <2>2. PICK u \in Objects :
            /\ u.content # Lazy
            /\ latestCache' = [latestCache EXCEPT ![rev.res] = u]
            /\ Write([rev EXCEPT !.content = u.content])
    BY <1>4, FlushLazyLoads
  <2>3. [rev EXCEPT !.content = u.content] \in Revs
        /\ [rev EXCEPT !.content = u.content].content # Lazy
    BY <2>1, <2>2 DEF Revs, Objects
  <2>4. latestCache' \in [Resources -> Objects \cup {None}]
    BY <2>1, <2>2 DEF TypeOK
  <2>5. \A res \in Resources :
            latestCache'[res] # None => latestCache'[res].content # Lazy
    BY <2>1, <2>2 DEF TypeOK, LoadedInv
  <2> QED BY <1>2, <2>2, <2>3, <2>4, <2>5
<1>5. ASSUME NEW rev \in flushing, FlushNothing(rev) PROVE TypeInv'
  BY <1>5, DieType DEF FlushNothing, Fatal, TypeOK
<1> QED BY <1>1, <1>3, <1>4, <1>5 DEF FlusherStep

LEMMA TypeNext == TypeInv /\ [Next]_vars => TypeInv'
<1> SUFFICES ASSUME TypeInv, [Next]_vars PROVE TypeInv'
  OBVIOUS
<1>1. CASE Crash
  <2>1. crashes' \in 0..MaxCrashes
    BY <1>1, BoundsAssumption DEF Crash, TypeInv, TypeOK
  <2> QED BY <1>1, <2>1, DieType DEF Crash
<1>2. CASE UNCHANGED vars
  <2>1. TypeOK'
    BY <1>2
    DEF TypeInv, TypeOK, vars, configVars, informerVars, syncVars, flushVars,
        storeVars, readerVars, historyVars, FlushCache!OnePerKey
  <2>2. LoadedInv'
    BY <1>2 DEF TypeInv, LoadedInv, At, vars, storeVars
  <2> QED BY <2>1, <2>2 DEF TypeInv
<1> QED BY <1>1, <1>2, InformerType, StartType, WorkerType, FlusherType DEF Next

LEMMA TypeAlways == Spec => []TypeInv
BY TypeInit, TypeNext, PTL DEF Spec

(* Every reachable state is well typed: the flusher's cache and the reader *)
(* hold one revision per key, and a blob always has its content            *)
(* (cache.go:50-88, inmemory_getter.go:76-94, revision.go:155-174).        *)
THEOREM TypeCorrect == Spec => []TypeOK
BY TypeAlways, PTL DEF TypeInv

-----------------------------------------------------------------------------
(* What is buried, and what the reader names.                              *)

(* The parts of Run() come one after the other: nobody works before the    *)
(* informers have listed, nothing is queued before the walk is over.       *)
Started ==
    /\ phase \in {"walk", "delete", "run"} => listed = handled
    /\ phase \in {"down", "list", "walk"} => c = {} /\ flushing = {}
    /\ \A w \in Workers : hand[w] # None => phase = "run"

(* Only watched objects are known, and only they are reported.             *)
Watched ==
    /\ \A res \in Resources :
          known[res] # None => /\ res \in handled
                               /\ known[res].res = res
                               /\ known[res].rv <= lastRV
    /\ \A i \in DOMAIN queue : queue[i].new.res \in listed
    /\ \A w \in Workers : hand[w] # None => New(w).res \in handled

(* A version of a watched object that has been given out: the object is    *)
(* there, or it has been.                                                  *)
GivenOut(r) ==
    r.res \in handled => /\ r.rv <= lastRV
                         /\ known[r.res] # None \/ r.res \in recreated

(* Everything on the way to the archive, and everything in it, has been    *)
(* given out by the API server.                                            *)
Issued ==
    /\ \A i \in DOMAIN queue : GivenOut(queue[i].new)
    /\ \A w \in Workers : hand[w] # None => GivenOut(New(w))
    /\ \A r \in archive \cup unsynced \cup toDelete \cup c \cup flushing :
          GivenOut(r)

(* An object that is there is newer than r.                                *)
Past(r) == known[r.res] # None => r.rv < known[r.res].rv

(* Whatever is, or will become, a tombstone is of the past.                *)
Doomed ==
    /\ \A r \in archive \cup c \cup flushing : r.deleted => Past(r)
    /\ \A r \in toDelete : Past(r)
    /\ \A w \in Workers : At(w, "gone") => Past(New(w))

(* What Sync found stale was deleted, and what the reader has not loaded   *)
(* is of a watched object.                                                 *)
Stale ==
    /\ \A r \in toDelete : /\ r.content = Lazy
                           /\ r.res \in handled => r.res \in recreated
    /\ \A x \in m : x.content = Lazy => x.res \in handled

SafeInv == Started /\ Watched /\ Issued /\ Doomed /\ Stale /\ ReaderNamesBlobs

LEMMA SafeInit == Init => SafeInv
<1> SUFFICES ASSUME Init PROVE SafeInv
  OBVIOUS
<1>1. \A r \in archive : r.res \notin handled
  BY SetupsAssumption DEF Init
<1>2. Started /\ Watched /\ Stale /\ ReaderNamesBlobs
  BY DEF Init, Started, Watched, Stale, ReaderNamesBlobs
<1>3. Issued
  BY <1>1 DEF Init, Issued, GivenOut
<1>4. Doomed
  <2>1. \A r \in archive : known[r.res] = None
    <3>1. \A r \in archive : r.res \in Resources
      BY SetupsAssumption DEF Init, Revs
    <3> QED BY <3>1 DEF Init
  <2> QED BY <2>1 DEF Init, Doomed, Past, At
<1> QED BY <1>2, <1>3, <1>4 DEF SafeInv

(* The end of the process.                                                 *)
LEMMA DieSafe == TypeInv /\ SafeInv /\ Die => SafeInv'
<1> SUFFICES ASSUME TypeInv, SafeInv, Die PROVE SafeInv'
  OBVIOUS
<1> USE DEF SafeInv
<1>1. Started' /\ Stale' /\ ReaderNamesBlobs'
  BY DEF Die, Started, Stale, ReaderNamesBlobs
<1>2. Watched'
  BY DEF Die, Watched, configVars
<1>3. Issued'
  BY DEF Die, Issued, GivenOut, configVars
<1>4. Doomed'
  BY DEF Die, Doomed, Past, At
<1> QED BY <1>1, <1>2, <1>3, <1>4

(* A step of the cluster gives out a higher version or none.               *)
LEMMA InformerSafe == TypeInv /\ SafeInv /\ InformerStep => SafeInv'
<1> SUFFICES ASSUME TypeInv, SafeInv, NEW res \in handled,
                    \/ \E x \in Contents : Appear(res, x) \/ Change(res, x)
                    \/ \E final \in FinalRV : Vanish(res, final)
                    \/ Resync(res)
             PROVE  SafeInv'
  BY DEF InformerStep
<1> USE DEF TypeInv, SafeInv
<1>1. res \in Resources /\ lastRV \in Nat /\ queue \in Seq(Items)
      /\ known \in [Resources -> Objects \cup {None}]
  BY DEF TypeOK
<1>2. /\ UNCHANGED <<configVars, listed, syncVars, hand, flushVars, storeVars>>
      /\ handled' = handled /\ listed' = listed /\ phase' = phase
      /\ unsynced' = unsynced /\ toDelete' = toDelete /\ hand' = hand
      /\ c' = c /\ flushing' = flushing /\ archive' = archive /\ m' = m
      /\ recreated \subseteq recreated'
      /\ lastRV' \in {lastRV, lastRV + 1}
  BY DEF Appear, Change, Vanish, Resync, configVars, syncVars, flushVars,
         storeVars, readerVars, historyVars
<1>3. \/ known' = known
      \/ /\ known' = [known EXCEPT ![res] = None] /\ res \in recreated'
      \/ \E u \in Objects : /\ known' = [known EXCEPT ![res] = u]
                            /\ u.res = res /\ u.rv = lastRV + 1
                            /\ lastRV' = lastRV + 1
  <2>1. ASSUME NEW x \in Contents, Appear(res, x) \/ Change(res, x)
        PROVE  \E u \in Objects : /\ known' = [known EXCEPT ![res] = u]
                                  /\ u.res = res /\ u.rv = lastRV + 1
                                  /\ lastRV' = lastRV + 1
    <3> DEFINE u == [res |-> res, rv |-> lastRV + 1, content |-> x]
    <3>1. u \in Objects
      BY <1>1, <2>1, BoundsAssumption DEF Appear, Change, Objects
    <3>2. known' = [known EXCEPT ![res] = u] /\ lastRV' = lastRV + 1
      BY <2>1 DEF Appear, Change
    <3> QED BY <3>1, <3>2
  <2> QED BY <2>1 DEF Vanish, Resync
<1>4. \A r \in Revs \cup Objects : GivenOut(r) => GivenOut(r)'
  <2>1. \A r \in Revs \cup Objects : r.res \in Resources /\ r.rv \in Int
    BY DEF Revs, Objects
  <2> QED BY <1>1, <1>2, <1>3, <2>1, NoneAssumption DEF GivenOut
<1>5. \A r \in Revs \cup Objects : GivenOut(r) /\ Past(r) => Past(r)'
  <2>1. \A r \in Revs \cup Objects : r.res \in Resources /\ r.rv \in Int
    BY DEF Revs, Objects
  <2> QED BY <1>1, <1>2, <1>3, <2>1, NoneAssumption DEF GivenOut, Past
<1> DEFINE Given(r) == r.res \in handled' =>
                          /\ r.rv <= lastRV'
                          /\ known'[r.res] # None \/ r.res \in recreated'
<1>6. \E item \in Items : /\ Report(item)
                          /\ item.new.res = res /\ Given(item.new)
  <2>1. ASSUME NEW x \in Contents, Appear(res, x) \/ Change(res, x)
        PROVE  \E item \in Items : /\ Report(item)
                                   /\ item.new.res = res /\ Given(item.new)
    <3> DEFINE u == [res |-> res, rv |-> lastRV + 1, content |-> x]
    <3>1. u \in Objects
      BY <1>1, <2>1, BoundsAssumption DEF Appear, Change, Objects
    <3>2. \E old \in Objects \cup {None} : Report([old |-> old, new |-> u])
      BY <1>1, <2>1 DEF Appear, Change
    <3>3. known'[res] = u /\ lastRV' = lastRV + 1
      BY <1>1, <2>1 DEF Appear, Change
    <3>4. Given(u)
      BY <1>1, <3>1, <3>3, NoneAssumption
    <3> QED BY <3>1, <3>2, <3>4 DEF Items
  <2>2. ASSUME NEW final \in FinalRV, Vanish(res, final)
        PROVE  \E item \in Items : /\ Report(item)
                                   /\ item.new.res = res /\ Given(item.new)
    <3> DEFINE u == IF final = "fresh"
                    THEN [known[res] EXCEPT !.rv = lastRV + 1] ELSE known[res]
    <3>1. /\ known[res] \in Objects /\ known[res].res = res
          /\ known[res].rv <= lastRV /\ lastRV + 1 \in 1..MaxRV
      BY <1>1, <2>2, BoundsAssumption DEF Vanish, Watched
    <3>2. u \in Objects /\ u.res = res /\ u.rv <= lastRV + 1
      BY <1>1, <3>1 DEF Objects
    <3>3. lastRV' = lastRV + 1 /\ res \in recreated'
          /\ Report([old |-> None, new |-> u])
      BY <2>2 DEF Vanish
    <3>4. Given(u)
      BY <3>2, <3>3
    <3> HIDE DEF u
    <3> QED BY <3>2, <3>3, <3>4 DEF Items
  <2>3. ASSUME Resync(res)
        PROVE  \E item \in Items : /\ Report(item)
                                   /\ item.new.res = res /\ Given(item.new)
    <3>1. /\ known[res] \in Objects /\ known[res].res = res
          /\ known[res].rv <= lastRV /\ known' = known /\ lastRV' = lastRV
      BY <1>1, <2>3 DEF Resync, Exists, Watched
    <3> QED BY <2>3, <3>1, NoneAssumption DEF Resync, Items
  <2> QED BY <2>1, <2>2, <2>3
<1>7. \A i \in DOMAIN queue' : /\ queue'[i].new.res \in listed
                               /\ Given(queue'[i].new)
  <2>1. PICK item \in Items : /\ Report(item)
                              /\ item.new.res = res /\ Given(item.new)
    BY <1>6
  <2>2. \A i \in DOMAIN queue : /\ queue[i].new.res \in listed
                                /\ Given(queue[i].new)
    <3>1. \A i \in DOMAIN queue : queue[i].new \in Objects
      BY <1>1, ItemOfSeq DEF Items
    <3> QED BY <1>4, <3>1 DEF Watched, Issued, GivenOut
  <2>3. CASE queue' = queue
    BY <2>2, <2>3
  <2>4. CASE queue' = Append(queue, item) /\ item.new.res \in listed
    <3>1. \A i \in DOMAIN queue' :
              \/ i \in DOMAIN queue /\ queue'[i] = queue[i]
              \/ queue'[i] = item
      BY <1>1, <2>4, ItemOfAppend
    <3> QED BY <2>1, <2>2, <2>4, <3>1
  <2> QED BY <2>1, <2>3, <2>4 DEF Report
<1>8. \A w \in Workers : hand[w] # None => New(w) \in Objects
  BY NewType
<1>9. archive \cup unsynced \cup toDelete \cup c \cup flushing \subseteq Revs
  BY DEF TypeOK
<1>10. Started'
  BY <1>2 DEF Started
<1>11. Watched'
  BY <1>1, <1>2, <1>3, <1>7, NoneAssumption DEF Watched, Objects, New
<1>12. Issued'
  <2>1. \A i \in DOMAIN queue' : GivenOut(queue[i].new)'
    BY <1>7 DEF GivenOut
  <2> QED BY <1>2, <1>4, <1>8, <1>9, <2>1 DEF Issued, New
<1>13. Doomed'
  BY <1>2, <1>5, <1>8, <1>9 DEF Doomed, Issued, New, At
<1>14. Stale' /\ ReaderNamesBlobs'
  BY <1>2 DEF Stale, ReaderNamesBlobs
<1> QED BY <1>10, <1>11, <1>12, <1>13, <1>14

(* While the process starts.                                               *)
LEMMA StartSafe == TypeInv /\ SafeInv /\ StartStep => SafeInv'
<1> SUFFICES ASSUME TypeInv, SafeInv, StartStep PROVE SafeInv'
  OBVIOUS
<1> USE DEF TypeInv, SafeInv
<1>1. CASE Start \/ WaitForCacheSync \/ StartWorkers
  <2>1. /\ UNCHANGED <<handled, known, listed, queue, lastRV, toDelete, hand,
                       c, flushing, archive, m, recreated>>
        /\ unsynced' \subseteq unsynced \cup archive
    BY <1>1 DEF Start, WaitForCacheSync, StartWorkers, configVars,
                informerVars, flushVars, storeVars, readerVars, historyVars
  <2>2. Started'
    <3>1. CASE Start
      BY <2>1, <3>1 DEF Start, Started
    <3>2. CASE WaitForCacheSync
      BY <2>1, <3>2 DEF WaitForCacheSync, Started
    <3>3. CASE StartWorkers
      BY <2>1, <3>3 DEF StartWorkers, Started
    <3> QED BY <1>1, <3>1, <3>2, <3>3
  <2>3. Watched' /\ Stale' /\ ReaderNamesBlobs' /\ Doomed'
    BY <2>1
    DEF Watched, Stale, ReaderNamesBlobs, Doomed, Past, At, New
  <2>4. Issued'
    BY <2>1 DEF Issued, GivenOut, New
  <2> QED BY <2>2, <2>3, <2>4
<1>2. ASSUME NEW res \in handled \ listed, ListObject(res) PROVE SafeInv'
  <2>1. UNCHANGED <<handled, known, lastRV, phase, unsynced, toDelete, hand, c,
                    flushing, archive, m, recreated>>
    BY <1>2 DEF ListObject, configVars, syncVars, flushVars, storeVars,
                readerVars, historyVars
  <2>2. \A i \in DOMAIN queue' : queue'[i].new.res \in listed'
                                 /\ \/ \E j \in DOMAIN queue :
                                          queue'[i] = queue[j]
                                    \/ queue'[i].new = known[res]
                                       /\ known[res] # None
    <3>1. queue \in Seq(Items) /\ res \in Resources
      BY DEF TypeOK
    <3>2. CASE known[res] = None
      BY <1>2, <3>2 DEF ListObject, Watched
    <3>3. CASE known[res] # None
      <4> DEFINE item == [old |-> None, new |-> known[res]]
      <4>1. item \in Items /\ item.new.res = res
        BY <3>1, <3>3 DEF TypeOK, Items, Watched
      <4>2. queue' = Append(queue, item) /\ listed' = listed \cup {res}
        BY <1>2, <3>3 DEF ListObject
      <4>3. \A i \in DOMAIN queue' :
                \/ i \in DOMAIN queue /\ queue'[i] = queue[i]
                \/ queue'[i] = item
        BY <3>1, <4>1, <4>2, ItemOfAppend
      <4> QED BY <3>3, <4>1, <4>2, <4>3 DEF Watched
    <3> QED BY <3>2, <3>3
  <2>3. Started'
    BY <1>2, <2>1 DEF ListObject, Started
  <2>4. Watched'
    BY <2>1, <2>2 DEF Watched, New
  <2>5. Issued'
    <3>1. known[res] # None => GivenOut(known[res])
      BY DEF Watched, GivenOut, TypeOK
    <3>2. \A i \in DOMAIN queue' : GivenOut(queue'[i].new)
      BY <2>2, <3>1 DEF Issued
    <3> QED BY <2>1, <3>2 DEF Issued, GivenOut, New
  <2>6. Doomed' /\ Stale' /\ ReaderNamesBlobs'
    BY <2>1 DEF Doomed, Past, Stale, ReaderNamesBlobs, At, New
  <2> QED BY <2>3, <2>4, <2>5, <2>6
<1>3. ASSUME NEW rev \in unsynced, SyncVisit(rev) PROVE SafeInv'
  <2>1. /\ UNCHANGED <<handled, known, listed, queue, lastRV, phase, hand, c,
                       flushing, archive, m, recreated>>
        /\ unsynced' \subseteq unsynced
        /\ phase = "walk"
    BY <1>3 DEF SyncVisit, configVars, informerVars, flushVars, storeVars,
                readerVars, historyVars
  <2> DEFINE lazy == [rev EXCEPT !.content = Lazy]
  <2>2. /\ rev \in Revs /\ rev.res \in Resources
        /\ lazy.res = rev.res /\ lazy.rv = rev.rv /\ lazy.content = Lazy
    <3>1. rev \in Revs
      BY DEF TypeOK
    <3> QED BY <3>1, ContentOnly DEF Revs
  <2>3. toDelete' \subseteq toDelete \cup {lazy}
        /\ (lazy \in toDelete' \ toDelete => known[rev.res] = None)
    <3>1. rev.res \notin handled => known[rev.res] = None
      BY <2>2 DEF Watched
    <3>2. listed = handled
      BY <2>1 DEF Started
    <3> QED BY <1>3, <3>1, <3>2 DEF SyncVisit, Exists
  <2>4. GivenOut(rev) /\ GivenOut(lazy)
    BY <2>2 DEF Issued, GivenOut
  <2>5. Started' /\ Watched' /\ ReaderNamesBlobs'
    BY <2>1 DEF Started, Watched, ReaderNamesBlobs, New
  <2> HIDE DEF lazy
  <2>6. Issued'
    BY <2>1, <2>3, <2>4 DEF Issued, GivenOut, New
  <2>7. Doomed'
    BY <2>1, <2>2, <2>3 DEF Doomed, Past, At, New
  <2>8. Stale'
    BY <2>1, <2>2, <2>3, <2>4 DEF Stale, GivenOut
  <2> QED BY <2>5, <2>6, <2>7, <2>8
<1>4. CASE SyncWalked
  <2>1. /\ UNCHANGED <<handled, known, listed, queue, lastRV, unsynced,
                       toDelete, hand, c, flushing, archive, recreated>>
        /\ phase = "walk" /\ phase' = "delete"
    BY <1>4 DEF SyncWalked, configVars, informerVars, flushVars, historyVars
  <2>2. \A x \in m' : \E r \in archive :
            x = [r EXCEPT !.content = Lazy] /\ r.res \in handled
    BY <1>4 DEF SyncWalked
  <2>3. \A x \in m' : \E r \in archive :
            /\ x.res = r.res /\ x.rv = r.rv /\ x.deleted = r.deleted
            /\ r.res \in handled
    <3>1. archive \subseteq Revs
      BY DEF TypeOK
    <3>2. \A r \in archive : /\ [r EXCEPT !.content = Lazy].res = r.res
                             /\ [r EXCEPT !.content = Lazy].rv = r.rv
                             /\ [r EXCEPT !.content = Lazy].deleted = r.deleted
      BY <3>1, ContentOnly
    <3> QED BY <2>2, <3>2
  <2>4. Started'
    BY <2>1 DEF Started
  <2>5. Watched' /\ Issued' /\ Doomed'
    BY <2>1 DEF Watched, Issued, Doomed, GivenOut, Past, At, New
  <2>6. Stale' /\ ReaderNamesBlobs'
    BY <2>1, <2>3 DEF Stale, ReaderNamesBlobs
  <2> QED BY <2>4, <2>5, <2>6
<1>5. ASSUME NEW rev \in toDelete, SyncDelete(rev) PROVE SafeInv'
  <2>1. /\ UNCHANGED <<handled, known, listed, queue, lastRV, phase, unsynced,
                       hand, flushing, archive, recreated>>
        /\ toDelete' \subseteq toDelete
        /\ phase = "delete"
    BY <1>5 DEF SyncDelete, configVars, informerVars, historyVars
  <2> DEFINE tombstone == [rev EXCEPT !.deleted = TRUE]
  <2>2. /\ rev \in Revs /\ tombstone \in Revs
        /\ tombstone.res = rev.res /\ tombstone.rv = rev.rv
        /\ tombstone.content = rev.content /\ tombstone.deleted
    BY TombstoneOnly DEF TypeOK
  <2>3. c' \subseteq c \cup {tombstone}
    BY <1>5, <2>2, CacheType DEF SyncDelete, TypeOK
  <2>4. \A x \in m' : x \in m \/ (rev \in m /\ x = tombstone)
    BY <1>5 DEF SyncDelete
  <2> HIDE DEF tombstone
  <2>5. Started' /\ Watched'
    BY <2>1 DEF Started, Watched, New
  <2>6. Issued'
    BY <2>1, <2>2, <2>3 DEF Issued, GivenOut, New
  <2>7. Doomed'
    BY <2>1, <2>2, <2>3 DEF Doomed, Past, At, New
  <2>8. Stale'
    BY <2>1, <2>2, <2>4 DEF Stale
  <2>9. ReaderNamesBlobs'
    <3>1. ASSUME rev \in m PROVE \E r \in archive :
             /\ r.res = tombstone.res /\ r.rv = tombstone.rv
             /\ r.deleted => tombstone.deleted
             /\ tombstone.deleted /\ ~r.deleted => tombstone.res \in recreated
      <4>1. PICK r \in archive : /\ r.res = rev.res /\ r.rv = rev.rv
                                 /\ rev.deleted /\ ~r.deleted
                                    => rev.res \in recreated
                                 /\ r.deleted => rev.deleted
        BY <3>1 DEF ReaderNamesBlobs
      <4>2. rev.res \in handled => rev.res \in recreated
        BY DEF Stale
      <4>3. rev.res \in handled
        BY <3>1 DEF Stale
      <4> QED BY <2>2, <4>1, <4>2, <4>3
    <3> QED BY <2>1, <2>4, <3>1 DEF ReaderNamesBlobs
  <2> QED BY <2>5, <2>6, <2>7, <2>8, <2>9
<1> QED BY <1>1, <1>2, <1>3, <1>4, <1>5 DEF StartStep

(* A worker that keeps its item, and at most fills in a content of the     *)
(* reader.                                                                 *)
LEMMA KeepsItemSafe ==
    ASSUME TypeInv, SafeInv, NEW w \in Workers, hand[w] # None,
           \A v \in Workers : v # w => hand'[v] = hand[v],
           hand'[w] # None, hand'[w].item = hand[w].item,
           hand'[w].at = "gone" => Past(New(w)),
           \A x \in m' : \E y \in m :
               /\ x.res = y.res /\ x.rv = y.rv /\ x.deleted = y.deleted
               /\ x.content = Lazy => y.content = Lazy,
           UNCHANGED <<handled, known, listed, queue, lastRV, phase, unsynced,
                       toDelete, c, flushing, archive, recreated>>
    PROVE  SafeInv'
<1> USE DEF SafeInv
<1>1. \A v \in Workers : (hand'[v] # None <=> hand[v] # None)
                         /\ (hand[v] # None => hand'[v].item = hand[v].item)
  OBVIOUS
<1>2. Started'
  BY <1>1 DEF Started
<1>3. Watched'
  BY <1>1 DEF Watched, New
<1>4. Issued'
  BY <1>1 DEF Issued, GivenOut, New
<1>5. Doomed'
  <2>1. \A v \in Workers : At(v, "gone")' => Past(New(v))
    BY DEF Doomed, At
  <2> QED BY <1>1, <2>1 DEF Doomed, Past, New, At
<1>6. Stale' /\ ReaderNamesBlobs'
  BY DEF Stale, ReaderNamesBlobs
<1> QED BY <1>2, <1>3, <1>4, <1>5, <1>6

(* The reader after a content was filled in.                               *)
LEMMA FillKeeps ==
    ASSUME TypeOK, NEW u \in Objects, Fill(u)
    PROVE  \A x \in m' : \E y \in m :
               /\ x.res = y.res /\ x.rv = y.rv /\ x.deleted = y.deleted
               /\ x.content = Lazy => y.content = Lazy
<1>1. m \subseteq Revs /\ u.content \in Contents \cup {Lazy}
  BY DEF TypeOK, Objects
<1>2. \A y \in m : /\ [y EXCEPT !.content = u.content].res = y.res
                   /\ [y EXCEPT !.content = u.content].rv = y.rv
                   /\ [y EXCEPT !.content = u.content].deleted = y.deleted
  BY <1>1, ContentOnly
<1> QED BY <1>2 DEF Fill

LEMMA WorkerSafe ==
    TypeInv /\ SafeInv /\ (\E w \in Workers : WorkerStep(w)) => SafeInv'
<1> SUFFICES ASSUME TypeInv, SafeInv, NEW w \in Workers, WorkerStep(w)
             PROVE  SafeInv'
  OBVIOUS
<1> USE DEF TypeInv, SafeInv
<1>1. ASSUME Take(w) \/ TakeUnselected(w) PROVE SafeInv'
  <2>1. /\ UNCHANGED <<handled, known, listed, lastRV, phase, unsynced,
                       toDelete, c, flushing, archive, m, recreated>>
        /\ phase = "run" /\ queue # <<>> /\ queue' = Tail(queue)
    BY <1>1 DEF Take, TakeUnselected, CanTake, configVars, syncVars, flushVars,
                storeVars, readerVars, historyVars
  <2>2. queue \in Seq(Items) /\ hand \in [Workers -> Tasks \cup {None}]
    BY DEF TypeOK
  <2>3. Head(queue).new.res \in handled /\ GivenOut(Head(queue).new)
    BY <2>1, <2>2, ItemOfHead DEF Started, Watched, Issued
  <2>4. \A i \in DOMAIN queue' : queue'[i].new.res \in listed
                                 /\ GivenOut(queue'[i].new)
    BY <2>1, <2>2, ItemOfTail DEF Watched, Issued
  <2>5. \A v \in Workers : \/ hand'[v] = hand[v]
                           \/ hand'[v].item = Head(queue) /\ hand'[v].at = "taken"
    BY <1>1, <2>2 DEF Take, TakeUnselected
  <2>6. Started'
    BY <2>1 DEF Started
  <2>7. Watched'
    BY <2>1, <2>3, <2>4, <2>5 DEF Watched, New
  <2>8. Issued'
    BY <2>1, <2>3, <2>4, <2>5 DEF Issued, GivenOut, New
  <2>9. Doomed'
    BY <2>1, <2>5 DEF Doomed, Past, At, New
  <2>10. Stale' /\ ReaderNamesBlobs'
    BY <2>1 DEF Stale, ReaderNamesBlobs
  <2> QED BY <2>6, <2>7, <2>8, <2>9, <2>10
<1>2. ASSUME NEW at \in Places, at = "gone" => Past(New(w)),
             NEW old \in Objects \cup {None}, hand[w] # None, Step(w, old, at),
             UNCHANGED <<configVars, informerVars, syncVars, flushVars,
                         storeVars, historyVars>>
      PROVE  SafeInv'
  <2>1. /\ \A v \in Workers : v # w => hand'[v] = hand[v]
        /\ hand'[w] # None /\ hand'[w].item = hand[w].item /\ hand'[w].at = at
    BY <1>2, StepFacts
  <2> QED BY <1>2, <2>1, KeepsItemSafe
          DEF configVars, informerVars, syncVars, flushVars, storeVars,
              readerVars, historyVars
<1>3. ASSUME LookUp(w) PROVE SafeInv'
  <2>1. hand[w] # None /\ hand[w].old \in Objects \cup {None}
        /\ New(w).res \in Resources
    BY <1>3, NewType DEF LookUp, At
  <2>2. New(w).res \in listed
    BY <2>1 DEF Started, Watched
  <2>3. \E at \in Places : Step(w, hand[w].old, at)
                           /\ (at = "gone" => known[New(w).res] = None)
    BY <1>3, <2>2 DEF LookUp, Exists, Places
  <2> QED BY <1>2, <1>3, <2>1, <2>3 DEF LookUp, Past
<1>4. ASSUME NEW rev \in Revs, hand[w] # None,
             rev.res = New(w).res, rev.rv = New(w).rv,
             rev.deleted => Past(New(w)),
             c' \in {c, FlushCache!Cache(c, rev)},
             hand' = [hand EXCEPT ![w] = None],
             UNCHANGED <<configVars, informerVars, syncVars, flushing,
                         storeVars, historyVars>>
      PROVE  SafeInv'
  <2>1. UNCHANGED <<handled, known, listed, queue, lastRV, phase, unsynced,
                    toDelete, flushing, archive, m, recreated>>
    BY <1>4 DEF configVars, informerVars, syncVars, storeVars, readerVars,
                historyVars
  <2>2. \A v \in Workers : hand'[v] # None => v # w /\ hand'[v] = hand[v]
    BY <1>4 DEF TypeOK
  <2>3. c' \subseteq c \cup {rev}
    BY <1>4, CacheType DEF TypeOK
  <2>4. GivenOut(rev) /\ (rev.deleted => Past(rev))
    BY <1>4 DEF Issued, GivenOut, Past
  <2>5. phase = "run"
    BY <1>4 DEF Started
  <2>6. Started'
    BY <2>1, <2>2, <2>5 DEF Started
  <2>7. Watched'
    BY <2>1, <2>2 DEF Watched, New
  <2>8. Issued'
    BY <2>1, <2>2, <2>3, <2>4 DEF Issued, GivenOut, New
  <2>9. Doomed'
    BY <2>1, <2>2, <2>3, <2>4 DEF Doomed, Past, At, New
  <2>10. Stale' /\ ReaderNamesBlobs'
    BY <2>1 DEF Stale, ReaderNamesBlobs
  <2> QED BY <2>6, <2>7, <2>8, <2>9, <2>10
<1>5. ASSUME Bury(w) PROVE SafeInv'
  <2>1. hand[w] # None /\ Past(New(w))
    BY <1>5 DEF Bury, At, Doomed
  <2> DEFINE rev == RevisionFrom(New(w), TRUE)
  <2>2. rev \in Revs /\ rev.res = New(w).res /\ rev.rv = New(w).rv
    BY <2>1, NewType, RevisionFromType
  <2>3. /\ c' \in {c, FlushCache!Cache(c, rev)}
        /\ hand' = [hand EXCEPT ![w] = None]
        /\ UNCHANGED <<configVars, informerVars, syncVars, flushing,
                       storeVars, historyVars>>
    BY <1>5 DEF Bury
  <2> HIDE DEF rev
  <2> QED BY <1>4, <2>1, <2>2, <2>3
<1>6. ASSUME Compare(w) PROVE SafeInv'
  <2>1. hand[w] # None
    BY <1>6 DEF Compare, At
  <2> DEFINE rev == RevisionFrom(New(w), FALSE)
  <2>2. rev \in Revs /\ rev.res = New(w).res /\ rev.rv = New(w).rv /\ ~rev.deleted
    BY <2>1, NewType, RevisionFromType
  <2>3. /\ c' \in {c, FlushCache!Cache(c, rev)}
        /\ hand' = [hand EXCEPT ![w] = None]
        /\ UNCHANGED <<configVars, informerVars, syncVars, flushing,
                       storeVars, historyVars>>
    BY <1>6 DEF Compare
  <2> HIDE DEF rev
  <2> QED BY <1>4, <2>1, <2>2, <2>3
<1>7. ASSUME Fetch(w) PROVE SafeInv'
  <2>1. hand[w] # None
    BY <1>7 DEF Fetch, At
  <2>2. \E old \in Objects \cup {None}, at \in Places :
            Step(w, old, at) /\ at # "gone"
    <3>1. \A r \in Of(New(w).res, m) : Object(r) \in Objects
      BY ObjectType DEF Of, TypeOK
    <3>2. CASE Step(w, None, "compare")
      BY <3>2 DEF Places
    <3>3. ASSUME NEW r \in Of(New(w).res, m),
                 Step(w, Object(r), IF r.content = Lazy /\ r.rv # New(w).rv
                                    THEN "load" ELSE "compare")
          PROVE  \E old \in Objects \cup {None}, at \in Places :
                     Step(w, old, at) /\ at # "gone"
      BY <3>1, <3>3 DEF Places
    <3> QED BY <1>7, <3>2, <3>3 DEF Fetch
  <2> QED BY <1>2, <1>7, <2>1, <2>2 DEF Fetch
<1>8. ASSUME LoadFails(w) PROVE SafeInv'
  BY <1>2, <1>8 DEF LoadFails, Loading, At, Places
<1>9. ASSUME NEW u \in Objects, u.content # Lazy, hand[w] # None, Load(w, u),
             UNCHANGED <<configVars, informerVars, syncVars, flushVars,
                         archive, latest, historyVars>>
      PROVE  SafeInv'
  <2>1. Loaded(w, u) \in Objects
    BY <1>9, LoadedType
  <2>2. /\ \A v \in Workers : v # w => hand'[v] = hand[v]
        /\ hand'[w] # None /\ hand'[w].item = hand[w].item
        /\ hand'[w].at = "compare"
    BY <1>9, <2>1, StepFacts DEF Load, Places
  <2>3. \A x \in m' : \E y \in m :
            /\ x.res = y.res /\ x.rv = y.rv /\ x.deleted = y.deleted
            /\ x.content = Lazy => y.content = Lazy
    BY <1>9, <2>1, FillKeeps DEF Load
  <2> QED BY <1>9, <2>2, <2>3, KeepsItemSafe
          DEF configVars, informerVars, syncVars, flushVars, historyVars
<1>10. ASSUME LoadLatest(w) PROVE SafeInv'
  <2>1. hand[w] # None /\ New(w).res \in Resources
    BY <1>10, NewType DEF LoadLatest, Loading, At
  <2>2. latestCache[New(w).res] \in Objects
        /\ latestCache[New(w).res].content # Lazy
    BY <1>10, <2>1 DEF LoadLatest, LoadedInv, TypeOK
  <2> QED BY <1>9, <1>10, <2>1, <2>2 DEF LoadLatest
<1>11. ASSUME LoadListed(w) PROVE SafeInv'
  <2>1. hand[w] # None
    BY <1>11 DEF LoadListed, Loading, At
  <2>2. /\ \A v \in Workers : v # w => hand'[v] = hand[v]
        /\ hand'[w] # None /\ hand'[w].item = hand[w].item
        /\ hand'[w].at = "memo"
    BY <1>11, LoadListedFacts
  <2> QED BY <1>11, <2>1, <2>2, KeepsItemSafe
          DEF LoadListed, configVars, informerVars, syncVars, flushVars,
              storeVars, readerVars, historyVars
<1>12. ASSUME Memoize(w) PROVE SafeInv'
  <2>1. /\ hand[w] # None /\ hand[w].found \in Objects
        /\ hand[w].found.content # Lazy
    BY <1>12, NewType DEF Memoize, LoadedInv, At
  <2>2. CASE Load(w, hand[w].found)
    BY <1>9, <1>12, <2>1, <2>2 DEF Memoize
  <2>3. CASE Step(w, None, "compare") /\ UNCHANGED m
    <3>1. /\ \A v \in Workers : v # w => hand'[v] = hand[v]
          /\ hand'[w] # None /\ hand'[w].item = hand[w].item
          /\ hand'[w].at = "compare"
      BY <2>1, <2>3, StepFacts DEF Places
    <3> QED BY <1>12, <2>1, <2>3, <3>1, KeepsItemSafe
            DEF Memoize, configVars, informerVars, syncVars, flushVars,
                historyVars
  <2> QED BY <1>12, <2>2, <2>3 DEF Memoize
<1>13. ASSUME LoadNothing(w) PROVE SafeInv'
  <2>1. CASE Fatal
    BY <2>1, DieSafe DEF Fatal
  <2>2. CASE ~Fatal
    BY <1>2, <1>13, <2>2 DEF LoadNothing, At, Places
  <2> QED BY <2>1, <2>2
<1> QED BY <1>1, <1>3, <1>5, <1>6, <1>7, <1>8, <1>10, <1>11, <1>12, <1>13
        DEF WorkerStep

(* The flusher writes what was queued.                                     *)
LEMMA FlusherSafe == TypeInv /\ SafeInv /\ FlusherStep => SafeInv'
<1> SUFFICES ASSUME TypeInv, SafeInv, FlusherStep PROVE SafeInv'
  OBVIOUS
<1> USE DEF TypeInv, SafeInv
<1>1. CASE StartFlush
  <2>1. /\ UNCHANGED <<handled, known, listed, queue, lastRV, phase, unsynced,
                       toDelete, hand, c, archive, m, recreated>>
        /\ flushing' = c
    BY <1>1 DEF StartFlush, FlushCache!SafeCopy, configVars, informerVars,
                syncVars, storeVars, readerVars, historyVars
  <2>2. Started' /\ Watched'
    BY <2>1 DEF Started, Watched, New
  <2>3. Issued'
    BY <2>1 DEF Issued, GivenOut, New
  <2>4. Doomed' /\ Stale' /\ ReaderNamesBlobs'
    BY <2>1 DEF Doomed, Past, Stale, ReaderNamesBlobs, At, New
  <2> QED BY <2>2, <2>3, <2>4
<1>2. ASSUME NEW old \in flushing, NEW rev \in Revs, rev.content # Lazy,
             rev.res = old.res, rev.rv = old.rv, rev.deleted = old.deleted,
             Write(rev)
      PROVE  SafeInv'
  <2>1. /\ UNCHANGED <<handled, known, listed, queue, lastRV, phase, unsynced,
                       toDelete, hand, recreated>>
        /\ flushing' \subseteq flushing
        /\ archive' = {r \in archive : \/ r.res # rev.res \/ r.rv # rev.rv
                                       \/ r.deleted # rev.deleted} \cup {rev}
        /\ m' \subseteq {r \in m : r.res # rev.res \/ r.rv # rev.rv} \cup {rev}
           \/ m' = m
    BY <1>2 DEF Write, Set, configVars, informerVars, syncVars, historyVars
  <2>2. c' \subseteq c
    BY <1>2, WriteFacts
  <2>3. GivenOut(rev) /\ (rev.deleted => Past(rev))
    BY <1>2 DEF Issued, Doomed, GivenOut, Past
  <2>4. archive' \subseteq archive \cup {rev}
    BY <2>1
  <2>5. Started' /\ Watched'
    BY <2>1, <2>2 DEF Started, Watched, New
  <2>6. Issued'
    BY <2>1, <2>2, <2>3, <2>4 DEF Issued, GivenOut, New
  <2>7. Doomed'
    BY <2>1, <2>2, <2>3, <2>4 DEF Doomed, Past, At, New
  <2>8. Stale'
    BY <1>2, <2>1 DEF Stale
  <2>9. ReaderNamesBlobs'
    BY <2>1 DEF ReaderNamesBlobs
  <2> QED BY <2>5, <2>6, <2>7, <2>8, <2>9
<1>3. ASSUME NEW rev \in flushing, Flush(rev) PROVE SafeInv'
  BY <1>2, <1>3 DEF Flush, TypeOK
<1>4. ASSUME NEW rev \in flushing, FlushLazy(rev) PROVE SafeInv'
  <2>1. rev \in Revs
    BY DEF TypeOK
  <2>2. PICK u \in Objects : /\ u.content # Lazy
                             /\ Write([rev EXCEPT !.content = u.content])
    BY <1>4, FlushLazyLoads
  <2>3. u.content \in Contents \cup {Lazy}
    BY DEF Objects
  <2> QED BY <1>2, <2>1, <2>2, <2>3, ContentOnly
<1>5. ASSUME NEW rev \in flushing, FlushNothing(rev) PROVE SafeInv'
  BY <1>5, DieSafe DEF FlushNothing, Fatal
<1> QED BY <1>1, <1>3, <1>4, <1>5 DEF FlusherStep

LEMMA SafeNext == TypeInv /\ SafeInv /\ [Next]_vars => SafeInv'
<1> SUFFICES ASSUME TypeInv, SafeInv, [Next]_vars PROVE SafeInv'
  OBVIOUS
<1>1. CASE Crash
  BY <1>1, DieSafe DEF Crash
<1>2. CASE UNCHANGED vars
  BY <1>2
  DEF vars, configVars, informerVars, syncVars, flushVars, storeVars,
      readerVars, historyVars, SafeInv, Started, Watched, Issued, GivenOut,
      Doomed, Past, Stale, ReaderNamesBlobs, At, New
<1> QED BY <1>1, <1>2, InformerSafe, StartSafe, WorkerSafe, FlusherSafe DEF Next

LEMMA SafeAlways == Spec => [](TypeInv /\ SafeInv)
BY TypeInit, TypeNext, SafeInit, SafeNext, PTL DEF Spec

(* An object of the cluster never has a tombstone of its own version:      *)
(* Doomed follows every tombstone from where it is decided on to the       *)
(* archive (controller.go:324-339, 398, 576-586).                          *)
THEOREM LivingNeverBuried == Spec => []LivingAreNotBuried
<1>1. SafeInv => LivingAreNotBuried
  BY DEF SafeInv, Doomed, Past, LivingAreNotBuried
<1> QED BY <1>1, SafeAlways, PTL

(* The in-memory reader only names blobs that are there                    *)
(* (readwrite.go:48-64, controller.go:335).                                *)
THEOREM ReaderAlwaysNamesBlobs == Spec => []ReaderNamesBlobs
<1>1. SafeInv => ReaderNamesBlobs
  BY DEF SafeInv
<1> QED BY <1>1, SafeAlways, PTL
=============================================================================
