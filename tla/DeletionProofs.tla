--------------------------- MODULE DeletionProofs ---------------------------
(***************************************************************************)
(* The proof of DeletionsCaptured for every set of objects, workers and    *)
(* contents, every number of versions and kills, and with and without the  *)
(* in-memory reader: an object that is gone ends up buried.                *)
(***************************************************************************)
EXTENDS ControllerProofs

-----------------------------------------------------------------------------
(* What becomes of a deleted object.  Each of these says that a version of *)
(* the object that is not older than n is ...                              *)

(* ... a tombstone ...                                                     *)
Marked(res, n) ==
    \E r \in archive \cup c \cup flushing :
       r.deleted /\ r.res = res /\ r.rv >= n

(* ... archived, and has yet to be compared with the informer at start ... *)
Uncompared(res, n) ==
    \/ phase \in {"down", "list"} /\ \E r \in archive : r.res = res /\ r.rv >= n
    \/ \E r \in unsynced \cup toDelete : r.res = res /\ r.rv >= n

(* ... reported ...                                                        *)
Reported(res, n) ==
    \E i \in DOMAIN queue : queue[i].new.res = res /\ queue[i].new.rv >= n

(* ... or with a worker that has not looked it up, or found it gone.       *)
Taken(res, n) ==
    \E w \in Workers : /\ At(w, "taken") \/ At(w, "gone")
                       /\ New(w).res = res /\ New(w).rv >= n

(* Of an object that is not there, such a version is a tombstone or will   *)
(* become one.                                                             *)
Passing(res, n) ==
    Marked(res, n) \/ Uncompared(res, n) \/ Reported(res, n) \/ Taken(res, n)

(* Version n of the object may be about to be written as a live revision.  *)
Reviving(res, n) ==
    \/ \E r \in c \cup flushing : ~r.deleted /\ r.res = res /\ r.rv = n
    \/ \E w \in Workers : /\ hand[w] # None
                          /\ ~At(w, "taken") /\ ~At(w, "gone")
                          /\ New(w).res = res /\ New(w).rv = n

(* Whatever is archived of the object is followed by a tombstone, and what *)
(* may still join it by a tombstone of a later version: the flusher's      *)
(* cache keeps the first of two revisions of one version (cache.go:62).    *)
Dying(res) ==
    /\ \A r \in archive : r.res = res => Passing(res, r.rv)
    /\ \A n \in 1..MaxRV : Reviving(res, n) => Passing(res, n + 1)

(* The store is walked and compared before the workers start.              *)
Compared ==
    /\ phase # "walk" => unsynced = {}
    /\ phase = "run" => toDelete = {}

(* The objects whose deletion is to be captured.                           *)
Gone(res) ==
    res \in handled /\ res \notin filtered \cup late /\ known[res] = None

DeletionInv ==
    /\ FlushCache!OnePerKey(flushing)
    /\ Compared
    /\ \A res \in Resources : Gone(res) => Dying(res)

-----------------------------------------------------------------------------

LEMMA DeletionInit == Init => DeletionInv
<1> SUFFICES ASSUME Init PROVE DeletionInv
  OBVIOUS
<1>1. \A r \in archive : r.res \notin handled
  BY SetupsAssumption DEF Init
<1>2. FlushCache!OnePerKey(flushing) /\ Compared
  BY DEF Init, FlushCache!OnePerKey, Compared
<1>3. ASSUME NEW res \in Resources, Gone(res) PROVE Dying(res)
  <2>1. \A r \in archive : r.res # res
    BY <1>1, <1>3 DEF Gone
  <2>2. \A n : ~Reviving(res, n)
    BY DEF Init, Reviving
  <2> QED BY <2>1, <2>2 DEF Dying
<1> QED BY <1>2, <1>3 DEF DeletionInv

(* After the end of the process everything archived is compared again.     *)
LEMMA DieDeletion == TypeInv /\ DeletionInv /\ Die => DeletionInv'
<1> SUFFICES ASSUME TypeInv, DeletionInv, Die PROVE DeletionInv'
  OBVIOUS
<1>1. FlushCache!OnePerKey(flushing)' /\ Compared'
  BY DEF Die, FlushCache!OnePerKey, Compared
<1>2. ASSUME NEW res \in Resources PROVE Dying(res)'
  <2>1. \A r \in archive' : r.rv >= r.rv
    BY DEF Die, TypeInv, TypeOK, Revs
  <2>2. \A r \in archive' : r.res = res => Uncompared(res, r.rv)'
    BY <2>1 DEF Die, Uncompared
  <2>3. \A n : ~Reviving(res, n)'
    BY DEF Die, Reviving
  <2> QED BY <2>2, <2>3 DEF Dying, Passing
<1> QED BY <1>1, <1>2 DEF DeletionInv

(* A step that loses none of the tombstones, and adds nothing that is not  *)
(* followed by one, leaves the object dying.                               *)
LEMMA KeepsDying ==
    ASSUME TypeInv, NEW res \in Resources, Dying(res),
           \A n \in Nat : Passing(res, n) => Passing(res, n)',
           \A r \in archive' : r.res = res => r \in archive
                                              \/ Passing(res, r.rv)',
           \A n \in 1..MaxRV : Reviving(res, n)' => Reviving(res, n)
                                                    \/ Passing(res, n + 1)'
    PROVE  Dying(res)'
<1>1. \A r \in archive : r.rv \in Nat
  BY DEF TypeInv, TypeOK, Revs
<1>2. \A n \in 1..MaxRV : n + 1 \in Nat
  BY BoundsAssumption
<1> QED BY <1>1, <1>2 DEF Dying

(* The elements of a queue to which an item is added are still there.      *)
LEMMA AppendKeeps ==
    ASSUME NEW q \in Seq(Items), NEW item \in Items
    PROVE  /\ \A i \in DOMAIN q : i \in DOMAIN Append(q, item)
                                  /\ Append(q, item)[i] = q[i]
           /\ Len(q) + 1 \in DOMAIN Append(q, item)
           /\ Append(q, item)[Len(q) + 1] = item
BY LenProperties, AppendProperties

-----------------------------------------------------------------------------
(* The cluster.                                                            *)

LEMMA InformerDeletion ==
    TypeInv /\ SafeInv /\ DeletionInv /\ InformerStep => DeletionInv'
<1> SUFFICES ASSUME TypeInv, SafeInv, DeletionInv, NEW obj \in handled,
                    \/ \E x \in Contents : Appear(obj, x) \/ Change(obj, x)
                    \/ \E final \in FinalRV : Vanish(obj, final)
                    \/ Resync(obj)
             PROVE  DeletionInv'
  BY DEF InformerStep
<1>1. obj \in Resources /\ lastRV \in Nat /\ queue \in Seq(Items)
      /\ known \in [Resources -> Objects \cup {None}]
  BY DEF TypeInv, TypeOK
<1>2. /\ UNCHANGED <<handled, listed, phase, unsynced, toDelete, hand, c,
                     flushing, archive, filtered>>
      /\ late \subseteq late'
  BY DEF Appear, Change, Vanish, Resync, configVars, syncVars, flushVars,
         storeVars, readerVars, historyVars
<1>3. \/ \A res \in Resources : known'[res] = None => known[res] = None
      \/ \E final \in FinalRV : Vanish(obj, final)
  <2>1. ASSUME NEW x \in Contents, Appear(obj, x) \/ Change(obj, x)
        PROVE  \A res \in Resources : known'[res] = None => known[res] = None
    <3> DEFINE u == [res |-> obj, rv |-> lastRV + 1, content |-> x]
    <3>1. u \in Objects
      BY <1>1, <2>1, BoundsAssumption DEF Appear, Change, Objects
    <3>2. known' = [known EXCEPT ![obj] = u]
      BY <2>1 DEF Appear, Change
    <3> HIDE DEF u
    <3> QED BY <1>1, <3>1, <3>2, NoneAssumption
  <2> QED BY <2>1 DEF Resync
<1>4. \E item \in Items : Report(item)
  <2>1. ASSUME NEW x \in Contents, Appear(obj, x) \/ Change(obj, x)
        PROVE  \E item \in Items : Report(item)
    <3> DEFINE u == [res |-> obj, rv |-> lastRV + 1, content |-> x]
    <3>1. u \in Objects
      BY <1>1, <2>1, BoundsAssumption DEF Appear, Change, Objects
    <3>2. \E old \in Objects \cup {None} : Report([old |-> old, new |-> u])
      BY <1>1, <2>1 DEF Appear, Change
    <3> QED BY <3>1, <3>2 DEF Items
  <2>2. ASSUME NEW final \in FinalRV, Vanish(obj, final)
        PROVE  \E item \in Items : Report(item)
    <3> DEFINE u == IF final = "fresh"
                    THEN [known[obj] EXCEPT !.rv = lastRV + 1] ELSE known[obj]
    <3>1. known[obj] \in Objects /\ lastRV + 1 \in 1..MaxRV
      BY <1>1, <2>2, BoundsAssumption DEF Vanish
    <3>2. u \in Objects
      BY <3>1 DEF Objects
    <3>3. Report([old |-> None, new |-> u])
      BY <2>2 DEF Vanish
    <3> HIDE DEF u
    <3> QED BY <3>2, <3>3 DEF Items
  <2>3. ASSUME Resync(obj) PROVE \E item \in Items : Report(item)
    BY <1>1, <2>3 DEF Resync, Exists, Items
  <2> QED BY <2>1, <2>2, <2>3
<1>5. \A i \in DOMAIN queue : i \in DOMAIN queue' /\ queue'[i] = queue[i]
  BY <1>1, <1>4, AppendKeeps DEF Report
<1>6. ASSUME NEW res \in Resources, NEW n
      PROVE  /\ Passing(res, n) => Passing(res, n)'
             /\ Reviving(res, n)' => Reviving(res, n)
  <2>1. Marked(res, n) => Marked(res, n)'
    BY <1>2 DEF Marked
  <2>2. Uncompared(res, n) => Uncompared(res, n)'
    BY <1>2 DEF Uncompared
  <2>3. Reported(res, n) => Reported(res, n)'
    BY <1>5 DEF Reported
  <2>4. Taken(res, n) => Taken(res, n)'
    BY <1>2 DEF Taken, At, New
  <2>5. Reviving(res, n)' => Reviving(res, n)
    BY <1>2 DEF Reviving, At, New
  <2> QED BY <2>1, <2>2, <2>3, <2>4, <2>5 DEF Passing
<1>7. FlushCache!OnePerKey(flushing)' /\ Compared'
  BY <1>2 DEF DeletionInv, Compared, FlushCache!OnePerKey
<1>8. ASSUME NEW res \in Resources, Gone(res)' PROVE Dying(res)'
  <2>1. CASE known[res] = None
    <3>1. Dying(res)
      BY <1>2, <1>8, <2>1 DEF Gone, DeletionInv
    <3> QED BY <1>2, <1>6, <3>1, KeepsDying
  <2>2. CASE known[res] # None
    <3>1. PICK final \in FinalRV : Vanish(obj, final)
      BY <1>3, <1>8, <2>2 DEF Gone
    <3>2. res = obj
      BY <1>1, <1>8, <2>2, <3>1 DEF Gone, Vanish
    <3>3. final = "fresh"
      <4>1. final = "last" => obj \in late'
        BY <3>1 DEF Vanish
      <4> QED BY <1>8, <3>2, <4>1, FinalRVAssumption DEF Gone
    <3> DEFINE u == [known[obj] EXCEPT !.rv = lastRV + 1]
    <3>4. known[obj] \in Objects /\ known[obj].res = obj /\ lastRV + 1 \in 1..MaxRV
      BY <1>1, <3>1, BoundsAssumption DEF Vanish, SafeInv, Watched
    <3>5. u \in Objects /\ u.res = obj /\ u.rv = lastRV + 1
      BY <3>4 DEF Objects
    <3>6. Report([old |-> None, new |-> u])
      BY <3>1, <3>3 DEF Vanish
    <3> HIDE DEF u
    <3>7. /\ \A r \in archive : r.res = res => r.rv \in Nat /\ r.rv <= lastRV
          /\ \A n \in 1..MaxRV : Reviving(res, n)' => n <= lastRV
      <4>1. \A r \in archive \cup c \cup flushing :
               r.rv \in Nat /\ (r.res = res => r.rv <= lastRV)
        BY <1>2, <3>2 DEF SafeInv, Issued, GivenOut, TypeInv, TypeOK, Revs
      <4>2. \A w \in Workers : hand[w] # None /\ New(w).res = res
                               => New(w).rv <= lastRV
        BY <3>2 DEF SafeInv, Issued, GivenOut
      <4>3. \A n \in 1..MaxRV : Reviving(res, n)' => n <= lastRV
        BY <1>6, <4>1, <4>2 DEF Reviving
      <4> QED BY <4>1, <4>3
    <3>8. CASE obj \in listed
      <4> DEFINE item == [old |-> None, new |-> u]
      <4>1. item \in Items /\ item.new = u
        BY <3>5 DEF Items
      <4>2. queue' = Append(queue, item)
        BY <3>5, <3>6, <3>8 DEF Report
      <4>3. Len(queue) + 1 \in DOMAIN queue' /\ queue'[Len(queue) + 1] = item
        BY <1>1, <4>1, <4>2, AppendKeeps
      <4> HIDE DEF item
      <4>4. \A n \in Nat : n <= lastRV + 1 => Reported(res, n)'
        BY <1>1, <3>2, <3>5, <4>1, <4>3 DEF Reported
      <4>5. \A r \in archive' : r.res = res => Passing(res, r.rv)'
        BY <1>1, <1>2, <3>7, <4>4 DEF Passing
      <4>6. \A n \in 1..MaxRV : Reviving(res, n)' => Passing(res, n + 1)'
        BY <1>1, <3>7, <4>4, BoundsAssumption DEF Passing
      <4> QED BY <4>5, <4>6 DEF Dying
    <3>9. CASE obj \notin listed
      <4>1. phase \in {"down", "list"}
        BY <3>9 DEF SafeInv, Started, TypeInv, TypeOK
      <4>2. c = {} /\ flushing = {} /\ \A w \in Workers : hand[w] = None
        BY <4>1 DEF SafeInv, Started
      <4>3. \A n : ~Reviving(res, n)'
        BY <1>2, <4>2 DEF Reviving
      <4>4. \A r \in archive' : r.res = res => Uncompared(res, r.rv)'
        BY <1>2, <3>7, <4>1 DEF Uncompared
      <4> QED BY <4>3, <4>4 DEF Dying, Passing
    <3> QED BY <3>8, <3>9
  <2> QED BY <2>1, <2>2
<1> QED BY <1>7, <1>8 DEF DeletionInv

-----------------------------------------------------------------------------
(* The flusher's cache.                                                    *)

(* Passing is about a version or any later one.                            *)
LEMMA PassingDown ==
    ASSUME TypeInv', NEW res, NEW n \in Nat, NEW k \in Nat, n <= k,
           Passing(res, k)'
    PROVE  Passing(res, n)'
<1> USE DEF TypeInv, TypeOK
<1>1. \A r \in (archive \cup c \cup flushing \cup unsynced \cup toDelete)' :
          r.rv >= k => r.rv >= n
  BY DEF Revs
<1>2. \A i \in DOMAIN queue' : queue'[i].new.rv >= k => queue'[i].new.rv >= n
  <2>1. queue' \in Seq(Items)
    OBVIOUS
  <2>2. \A i \in DOMAIN queue' : queue'[i] \in Items
    BY ONLY <2>1, ItemOfSeq
  <2>3. \A i \in DOMAIN queue' : queue'[i].new.rv \in Int
    BY <2>2 DEF Items, Objects
  <2> QED BY <2>3
<1>3. \A w \in Workers :
          hand'[w] # None /\ New(w)'.rv >= k => New(w)'.rv >= n
  <2>1. \A w \in Workers : hand'[w] # None => hand'[w].item.new.rv \in Int
    BY DEF Tasks, Items, Objects
  <2> QED BY <2>1 DEF New
<1>4. Marked(res, k)' => Marked(res, n)'
  BY <1>1 DEF Marked
<1>5. Uncompared(res, k)' => Uncompared(res, n)'
  BY <1>1 DEF Uncompared
<1>6. Reported(res, k)' => Reported(res, n)'
  BY <1>2 DEF Reported
<1>7. Taken(res, k)' => Taken(res, n)'
  BY <1>3 DEF Taken, At
<1> QED BY <1>4, <1>5, <1>6, <1>7 DEF Passing

(* A step may drop what is not newer than v, if something of that version  *)
(* is passing afterwards, or was about to be written as a live revision:   *)
(* then a later version is passing anyway.                                 *)
LEMMA MayDrop ==
    ASSUME TypeInv', NEW res \in Resources, Dying(res), NEW v \in Nat,
           \A n \in Nat : n > v /\ Passing(res, n) => Passing(res, n)',
           \/ Passing(res, v)'
           \/ \E x \in 1..MaxRV : x >= v /\ Reviving(res, x)
    PROVE  /\ Passing(res, v)'
           /\ \A n \in Nat : Passing(res, n) => Passing(res, n)'
<1>1. \E k \in Nat : k >= v /\ Passing(res, k)'
  <2>1. ASSUME NEW x \in 1..MaxRV, x >= v, Reviving(res, x)
        PROVE  x + 1 \in Nat /\ x + 1 > v /\ Passing(res, x + 1)'
    <3>1. x + 1 \in Nat /\ x + 1 > v
      BY <2>1, BoundsAssumption
    <3> QED BY <2>1, <3>1 DEF Dying
  <2> QED BY <2>1
<1>2. PICK k \in Nat : k >= v /\ Passing(res, k)'
  BY <1>1
<1>3. \A n \in Nat : n <= v => Passing(res, n)'
  <2>1. SUFFICES ASSUME NEW n \in Nat, n <= v PROVE Passing(res, n)'
    OBVIOUS
  <2>2. n <= k
    BY <1>2, <2>1
  <2> QED BY <1>2, <2>2, PassingDown
<1> QED BY <1>3

(* Cache drops the entry of an older version, or rev (cache.go:58-65).     *)
LEMMA CacheDrops ==
    ASSUME NEW s \in SUBSET Revs, NEW rev \in Revs
    PROVE  /\ \A x \in s : x.res # rev.res \/ x.rv >= rev.rv
                           => x \in FlushCache!Cache(s, rev)
           /\ \E x \in FlushCache!Cache(s, rev) :
                 x.res = rev.res /\ x.rv >= rev.rv /\ (x = rev \/ x \in s)
           /\ FlushCache!Cache(s, rev) \subseteq s \cup {rev}
<1>1. \A x \in s \cup {rev} : x.rv \in Int
  BY DEF Revs
<1> QED BY <1>1 DEF FlushCache!Cache, ResourceKey

(* A revision gets into the cache or is dropped: a tombstone that was      *)
(* passing before, or a live one that was about to be written.             *)
LEMMA CacheDying ==
    ASSUME TypeInv, TypeInv', NEW res \in Resources, Dying(res),
           NEW rev \in Revs, c' = FlushCache!Cache(c, rev),
           UNCHANGED <<phase, archive, flushing, queue>>,
           \A w \in Workers : hand'[w] # None => hand'[w] = hand[w],
           \A n \in Nat : rev.res # res \/ n > rev.rv =>
              /\ Uncompared(res, n) => Uncompared(res, n)'
              /\ Taken(res, n) => Taken(res, n)',
           rev.res = res /\ ~rev.deleted => Reviving(res, rev.rv)
    PROVE  Dying(res)'
<1>1. /\ c \subseteq Revs /\ c' \subseteq Revs
      /\ rev.rv \in Nat /\ rev.rv \in 1..MaxRV
      /\ \A x \in c \cup c' : x.rv \in Nat /\ x.rv \in 1..MaxRV
  BY BoundsAssumption DEF TypeInv, TypeOK, Revs
<1>2. /\ \A x \in c : x.res # rev.res \/ x.rv >= rev.rv => x \in c'
      /\ \E x \in c' : x.res = rev.res /\ x.rv >= rev.rv /\ (x = rev \/ x \in c)
      /\ c' \subseteq c \cup {rev}
  BY <1>1, CacheDrops
<1>3. ASSUME NEW n \in Nat, rev.res # res \/ n > rev.rv, Passing(res, n)
      PROVE  Passing(res, n)'
  <2>1. Marked(res, n) => Marked(res, n)'
    <3>1. \A x \in c : x.res = res /\ x.rv >= n
                       => x.res # rev.res \/ x.rv >= rev.rv
      BY <1>1, <1>3
    <3> QED BY <1>2, <3>1 DEF Marked
  <2>2. Reported(res, n) => Reported(res, n)'
    BY DEF Reported
  <2> QED BY <1>3, <2>1, <2>2 DEF Passing
<1>4. ASSUME NEW n \in 1..MaxRV, Reviving(res, n)' PROVE Reviving(res, n)
  <2>1. \A r \in (c \cup flushing)' :
           ~r.deleted /\ r.res = res => r \in c \cup flushing \/ r = rev
    BY <1>2
  <2>2. CASE \E r \in (c \cup flushing)' : ~r.deleted /\ r.res = res /\ r.rv = n
    BY <2>1, <2>2 DEF Reviving
  <2>3. CASE \E w \in Workers : /\ hand'[w] # None
                                /\ ~At(w, "taken")' /\ ~At(w, "gone")'
                                /\ New(w)'.res = res /\ New(w)'.rv = n
    BY <2>3 DEF Reviving, At, New
  <2> QED BY <1>4, <2>2, <2>3 DEF Reviving
<1>5. \A n \in Nat : Passing(res, n) => Passing(res, n)'
  <2>1. CASE rev.res # res
    BY <1>3, <2>1
  <2>2. CASE rev.res = res
    <3>1. PICK x \in c' : x.res = res /\ x.rv >= rev.rv /\ (x = rev \/ x \in c)
      BY <1>2, <2>2
    <3>2. CASE x.deleted
      <4>1. Marked(res, rev.rv)'
        BY <3>1, <3>2 DEF Marked
      <4> QED BY <1>1, <1>3, <4>1, MayDrop DEF Passing
    <3>3. CASE ~x.deleted
      <4>1. Reviving(res, x.rv)
        BY <2>2, <3>1, <3>3 DEF Reviving
      <4> QED BY <1>1, <1>3, <3>1, <4>1, MayDrop
    <3> QED BY <3>2, <3>3
  <2> QED BY <2>1, <2>2
<1> QED BY <1>4, <1>5, KeepsDying

-----------------------------------------------------------------------------
(* The start of the process.                                               *)

(* Nothing that matters for the deletion of an object has changed.         *)
LEMMA SameDying ==
    ASSUME TypeInv, DeletionInv, NEW res \in Resources, Gone(res)',
           UNCHANGED <<handled, known, filtered, late, archive, c, flushing,
                       hand>>,
           \A n \in Nat : /\ Uncompared(res, n) => Uncompared(res, n)'
                          /\ Reported(res, n) => Reported(res, n)'
    PROVE  Dying(res)'
<1>1. Dying(res)
  BY DEF DeletionInv, Gone
<1>2. \A n \in Nat : Passing(res, n) => Passing(res, n)'
  BY DEF Passing, Marked, Taken, At, New
<1>3. \A n \in 1..MaxRV : Reviving(res, n)' => Reviving(res, n)
  BY DEF Reviving, At, New
<1> QED BY <1>1, <1>2, <1>3, KeepsDying

LEMMA StartDeletion ==
    TypeInv /\ TypeInv' /\ SafeInv /\ DeletionInv /\ StartStep => DeletionInv'
<1> SUFFICES ASSUME TypeInv, TypeInv', SafeInv, DeletionInv, StartStep
             PROVE  DeletionInv'
  OBVIOUS
<1> USE DEF DeletionInv
<1>1. CASE Start \/ WaitForCacheSync \/ SyncWalked \/ StartWorkers
  <2>1. /\ UNCHANGED <<handled, known, filtered, late, archive, c, flushing,
                       hand, queue, toDelete>>
        /\ \/ Start /\ unsynced' = unsynced
           \/ WaitForCacheSync /\ unsynced' = archive
           \/ SyncWalked /\ unsynced' = unsynced
           \/ StartWorkers /\ unsynced' = unsynced
    BY <1>1 DEF Start, WaitForCacheSync, SyncWalked, StartWorkers, configVars,
                informerVars, flushVars, storeVars, readerVars, historyVars
  <2>2. Compared'
    BY <2>1 DEF Compared, Start, WaitForCacheSync, SyncWalked, StartWorkers
  <2>3. ASSUME NEW res \in Resources, NEW n
        PROVE  Uncompared(res, n) => Uncompared(res, n)'
    <3>1. CASE Start
      BY <2>1, <3>1 DEF Uncompared, Start
    <3>2. CASE WaitForCacheSync
      BY <2>1, <3>2 DEF Uncompared, WaitForCacheSync, Compared
    <3>3. CASE SyncWalked
      BY <2>1, <3>3 DEF Uncompared, SyncWalked
    <3>4. CASE StartWorkers
      BY <2>1, <3>4 DEF Uncompared, StartWorkers
    <3> QED BY <2>1, <3>1, <3>2, <3>3, <3>4
  <2>4. \A res \in Resources : Gone(res)' => Dying(res)'
    BY <2>1, <2>3, SameDying DEF Reported
  <2> QED BY <2>1, <2>2, <2>4 DEF FlushCache!OnePerKey
<1>2. ASSUME NEW obj \in handled \ listed, ListObject(obj) PROVE DeletionInv'
  <2>1. UNCHANGED <<handled, known, filtered, late, archive, c, flushing, hand,
                    phase, unsynced, toDelete>>
    BY <1>2 DEF ListObject, configVars, syncVars, flushVars, storeVars,
                readerVars, historyVars
  <2>2. \A i \in DOMAIN queue : i \in DOMAIN queue' /\ queue'[i] = queue[i]
    <3>1. queue \in Seq(Items) /\ obj \in Resources
      BY DEF TypeInv, TypeOK
    <3>2. CASE known[obj] = None
      BY <1>2, <3>2 DEF ListObject
    <3>3. CASE known[obj] # None
      <4> DEFINE item == [old |-> None, new |-> known[obj]]
      <4>1. item \in Items
        BY <3>1, <3>3 DEF TypeInv, TypeOK, Items
      <4>2. queue' = Append(queue, item)
        BY <1>2, <3>3 DEF ListObject
      <4> HIDE DEF item
      <4> QED BY <3>1, <4>1, <4>2, AppendKeeps
    <3> QED BY <3>2, <3>3
  <2>3. \A res \in Resources : Gone(res)' => Dying(res)'
    <3>1. ASSUME NEW res \in Resources, NEW n
          PROVE  /\ Uncompared(res, n) => Uncompared(res, n)'
                 /\ Reported(res, n) => Reported(res, n)'
      BY <2>1, <2>2 DEF Uncompared, Reported
    <3> QED BY <2>1, <3>1, SameDying
  <2> QED BY <2>1, <2>3 DEF FlushCache!OnePerKey, Compared
<1>3. ASSUME NEW rev \in unsynced, SyncVisit(rev) PROVE DeletionInv'
  <2>1. /\ UNCHANGED <<handled, known, listed, filtered, late, archive, c,
                       flushing, hand, queue, phase>>
        /\ phase = "walk" /\ unsynced' = unsynced \ {rev}
        /\ toDelete \subseteq toDelete'
    BY <1>3 DEF SyncVisit, configVars, informerVars, flushVars, storeVars,
                readerVars, historyVars
  <2> DEFINE lazy == [rev EXCEPT !.content = Lazy]
  <2>2. rev \in Revs /\ lazy.res = rev.res /\ lazy.rv = rev.rv
    <3>1. rev \in Revs
      BY DEF TypeInv, TypeOK
    <3> QED BY <3>1, ContentOnly
  <2>3. ASSUME NEW res \in Resources, Gone(res)', rev.res = res
        PROVE  lazy \in toDelete'
    BY <1>3, <2>1, <2>3 DEF SyncVisit, Gone, Exists
  <2> HIDE DEF lazy
  <2>4. ASSUME NEW res \in Resources, Gone(res)' PROVE Dying(res)'
    <3>1. \A n \in Nat : Uncompared(res, n) => Uncompared(res, n)'
      BY <2>1, <2>2, <2>3, <2>4 DEF Uncompared
    <3> QED BY <2>1, <2>4, <3>1, SameDying DEF Reported
  <2> QED BY <2>1, <2>4 DEF FlushCache!OnePerKey, Compared
<1>4. ASSUME NEW rev \in toDelete, SyncDelete(rev) PROVE DeletionInv'
  <2> DEFINE tombstone == [rev EXCEPT !.deleted = TRUE]
  <2>1. /\ UNCHANGED <<handled, known, filtered, late, archive, flushing, hand,
                       queue, phase, unsynced>>
        /\ phase = "delete" /\ toDelete' = toDelete \ {rev}
        /\ c' = FlushCache!Cache(c, tombstone)
    BY <1>4 DEF SyncDelete, configVars, informerVars, historyVars
  <2>2. /\ rev \in Revs /\ tombstone \in Revs
        /\ tombstone.res = rev.res /\ tombstone.rv = rev.rv
        /\ tombstone.deleted
    BY TombstoneOnly DEF TypeInv, TypeOK
  <2> HIDE DEF tombstone
  <2>3. ASSUME NEW res \in Resources, Gone(res)' PROVE Dying(res)'
    <3>1. Dying(res)
      BY <2>1, <2>3 DEF Gone
    <3>2. ASSUME NEW n \in Nat, tombstone.res # res \/ n > tombstone.rv
          PROVE  /\ Uncompared(res, n) => Uncompared(res, n)'
                 /\ Taken(res, n) => Taken(res, n)'
      <4>1. rev.rv \in Nat
        BY <2>2, BoundsAssumption DEF Revs
      <4>2. ~(rev.res = res /\ rev.rv >= n)
        BY <2>2, <3>2, <4>1
      <4> QED BY <2>1, <4>2 DEF Uncompared, Taken, At, New
    <3> QED BY <2>1, <2>2, <3>1, <3>2, CacheDying
  <2> QED BY <2>1, <2>3 DEF FlushCache!OnePerKey, Compared
<1> QED BY <1>1, <1>2, <1>3, <1>4 DEF StartStep

-----------------------------------------------------------------------------
(* The workers.                                                            *)

(* The items of a queue are the first one and those of its tail.           *)
LEMMA TailKeeps ==
    ASSUME NEW q \in Seq(Items), q # <<>>, NEW i \in DOMAIN q
    PROVE  \/ q[i] = Head(q)
           \/ \E j \in DOMAIN Tail(q) : Tail(q)[j] = q[i]
<1>1. i \in 1..Len(q) /\ Len(q) \in Nat
  BY LenProperties
<1>2. CASE i = 1
  BY <1>2, HeadTailProperties
<1>3. CASE i # 1
  <2>1. i - 1 \in 1..Len(Tail(q)) /\ Tail(q)[i - 1] = q[(i - 1) + 1]
    BY <1>1, <1>3, HeadTailProperties
  <2>2. DOMAIN Tail(q) = 1..Len(Tail(q))
    BY HeadTailProperties, LenProperties
  <2> QED BY <1>1, <2>1, <2>2
<1> QED BY <1>2, <1>3

(* A worker goes on with its item.  If it has not looked the object up, or *)
(* found it gone, and the object is gone, it will bury it.                 *)
LEMMA KeepsItemDeletion ==
    ASSUME TypeInv, DeletionInv, NEW w \in Workers, hand[w] # None,
           \A v \in Workers : v # w => hand'[v] = hand[v],
           hand'[w] # None, hand'[w].item = hand[w].item,
           known[New(w).res] = None =>
              (hand[w].at \in {"taken", "gone"} <=> hand'[w].at \in {"taken", "gone"}),
           UNCHANGED <<handled, known, queue, phase, unsynced, toDelete, c,
                       flushing, archive, filtered, late>>
    PROVE  DeletionInv'
<1> USE DEF DeletionInv
<1>1. \A v \in Workers : (hand'[v] # None <=> hand[v] # None)
                         /\ (hand[v] # None => New(v)' = New(v))
  BY DEF New
<1>2. \A v \in Workers : known[New(v).res] = None =>
          (At(v, "taken") \/ At(v, "gone") <=> At(v, "taken")' \/ At(v, "gone")')
  BY DEF At
<1>3. ASSUME NEW res \in Resources, Gone(res)' PROVE Dying(res)'
  <2>1. Dying(res) /\ known[res] = None
    BY <1>3 DEF Gone
  <2>2. \A n \in Nat : Taken(res, n) => Taken(res, n)'
    BY <1>1, <1>2, <2>1 DEF Taken, At
  <2>3. \A n \in Nat : Passing(res, n) => Passing(res, n)'
    BY <2>2 DEF Passing, Marked, Uncompared, Reported
  <2>4. \A n \in 1..MaxRV : Reviving(res, n)' => Reviving(res, n)
    BY <1>1, <1>2, <2>1 DEF Reviving
  <2> QED BY <2>1, <2>3, <2>4, KeepsDying
<1> QED BY <1>3 DEF FlushCache!OnePerKey, Compared

(* A worker is done with its item and gives a revision of it to the        *)
(* flusher, a tombstone if the object is gone.                             *)
LEMMA QueueDeletion ==
    ASSUME TypeInv, TypeInv', DeletionInv, NEW w \in Workers, hand[w] # None,
           NEW rev \in Revs, rev.res = New(w).res, rev.rv = New(w).rv,
           rev.deleted <=> hand[w].at = "gone", hand[w].at # "taken",
           c' = FlushCache!Cache(c, rev),
           hand' = [hand EXCEPT ![w] = None],
           UNCHANGED <<handled, known, queue, phase, unsynced, toDelete,
                       flushing, archive, filtered, late>>
    PROVE  DeletionInv'
<1> USE DEF DeletionInv
<1>1. \A v \in Workers : /\ hand'[v] # None => hand'[v] = hand[v]
                         /\ v # w => hand'[v] = hand[v]
  BY DEF TypeInv, TypeOK
<1>2. rev.rv \in Nat
  BY BoundsAssumption DEF Revs
<1>3. ASSUME NEW res \in Resources, Gone(res)' PROVE Dying(res)'
  <2>1. Dying(res)
    BY <1>3 DEF Gone
  <2>2. ASSUME NEW n \in Nat, rev.res # res \/ n > rev.rv
        PROVE  /\ Uncompared(res, n) => Uncompared(res, n)'
               /\ Taken(res, n) => Taken(res, n)'
    <3>1. ~(New(w).res = res /\ New(w).rv >= n)
      BY <1>2, <2>2
    <3>2. Taken(res, n) => Taken(res, n)'
      BY <1>1, <3>1 DEF Taken, At, New
    <3> QED BY <3>2 DEF Uncompared
  <2>3. rev.res = res /\ ~rev.deleted => Reviving(res, rev.rv)
    BY DEF Reviving, At
  <2> QED BY <1>1, <2>1, <2>2, <2>3, CacheDying
<1> QED BY <1>3 DEF FlushCache!OnePerKey, Compared

LEMMA WorkerDeletion ==
    ASSUME TypeInv, TypeInv', SafeInv, DeletionInv, NEW w \in Workers,
           WorkerStep(w)
    PROVE  DeletionInv'
<1> USE DEF TypeInv
<1>1. ASSUME Take(w) \/ TakeUnselected(w) PROVE DeletionInv'
  <2>1. /\ UNCHANGED <<handled, known, phase, unsynced, toDelete, c, flushing,
                       archive, late>>
        /\ hand[w] = None /\ queue # <<>> /\ queue' = Tail(queue)
        /\ filtered \subseteq filtered'
    BY <1>1 DEF Take, TakeUnselected, CanTake, configVars, syncVars, flushVars,
                storeVars, readerVars, historyVars
  <2>2. queue \in Seq(Items) /\ hand \in [Workers -> Tasks \cup {None}]
    BY DEF TypeOK
  <2>3. /\ \A v \in Workers : v # w => hand'[v] = hand[v]
        /\ \/ hand'[w] = None /\ Head(queue).new.res \in filtered'
           \/ hand'[w].item = Head(queue) /\ hand'[w].at = "taken"
              /\ hand'[w] # None
    <3>1. CASE TakeUnselected(w)
      BY <2>1, <3>1 DEF TakeUnselected
    <3>2. CASE Take(w)
      <4>1. Head(queue) \in Items
        BY <2>1, <2>2, ItemOfHead
      <4> DEFINE task == [item |-> Head(queue), old |-> Head(queue).old,
                          found |-> None, at |-> "taken"]
      <4>2. task \in Tasks
        BY <4>1 DEF Items, Tasks
      <4>3. hand' = [hand EXCEPT ![w] = task]
        BY <3>2 DEF Take
      <4>4. task # None
        BY <4>2, NoneAssumption
      <4> QED BY <2>2, <4>3, <4>4
    <3> QED BY <1>1, <3>1, <3>2
  <2>4. ASSUME NEW res \in Resources, Gone(res)' PROVE Dying(res)'
    <3>1. Dying(res)
      BY <2>1, <2>4 DEF Gone, DeletionInv
    <3>2. \A n \in Nat : Taken(res, n) => Taken(res, n)'
      BY <2>1, <2>3 DEF Taken, At, New
    <3>3. ASSUME NEW n \in Nat, Reported(res, n)
          PROVE  Reported(res, n)' \/ Taken(res, n)'
      <4>1. PICK i \in DOMAIN queue : queue[i].new.res = res
                                      /\ queue[i].new.rv >= n
        BY <3>3 DEF Reported
      <4>2. CASE queue[i] = Head(queue)
        <5>1. hand'[w].item = Head(queue) /\ hand'[w].at = "taken"
              /\ hand'[w] # None
          BY <2>3, <2>4, <4>1, <4>2 DEF Gone
        <5> QED BY <4>1, <4>2, <5>1 DEF Taken, At, New
      <4>3. CASE \E j \in DOMAIN Tail(queue) : Tail(queue)[j] = queue[i]
        BY <2>1, <4>1, <4>3 DEF Reported
      <4> QED BY <2>1, <2>2, <4>2, <4>3, TailKeeps
    <3>4. \A n \in Nat : Passing(res, n) => Passing(res, n)'
      BY <2>1, <3>2, <3>3 DEF Passing, Marked, Uncompared
    <3>5. \A n \in 1..MaxRV : Reviving(res, n)' => Reviving(res, n)
      BY <2>1, <2>3 DEF Reviving, At, New
    <3> QED BY <2>1, <3>1, <3>4, <3>5, KeepsDying
  <2> QED BY <2>1, <2>4 DEF DeletionInv, FlushCache!OnePerKey, Compared
<1>2. ASSUME NEW at \in Places, NEW old \in Objects \cup {None},
             hand[w] # None, Step(w, old, at),
             known[New(w).res] = None =>
                (hand[w].at \in {"taken", "gone"} <=> at \in {"taken", "gone"}),
             UNCHANGED <<configVars, informerVars, syncVars, flushVars,
                         archive, historyVars>>
      PROVE  DeletionInv'
  <2>1. /\ \A v \in Workers : v # w => hand'[v] = hand[v]
        /\ hand'[w] # None /\ hand'[w].item = hand[w].item /\ hand'[w].at = at
    BY <1>2, StepFacts
  <2> QED BY <1>2, <2>1, KeepsItemDeletion
          DEF configVars, informerVars, syncVars, flushVars, historyVars
<1>3. ASSUME LookUp(w) PROVE DeletionInv'
  <2>1. hand[w] # None /\ hand[w].old \in Objects \cup {None}
        /\ hand[w].at = "taken"
    BY <1>3, NewType DEF LookUp, At
  <2>2. \E at \in Places : Step(w, hand[w].old, at)
                           /\ (known[New(w).res] = None => at = "gone")
    BY <1>3 DEF LookUp, Exists, Places
  <2> QED BY <1>2, <1>3, <2>1, <2>2 DEF LookUp, storeVars
<1>4. ASSUME Bury(w) PROVE DeletionInv'
  <2>1. hand[w] # None /\ hand[w].at = "gone"
    BY <1>4 DEF Bury, At
  <2> DEFINE rev == RevisionFrom(New(w), TRUE)
  <2>2. rev \in Revs /\ rev.res = New(w).res /\ rev.rv = New(w).rv /\ rev.deleted
    BY <2>1, NewType, RevisionFromType
  <2>3. c' = FlushCache!Cache(c, rev) /\ hand' = [hand EXCEPT ![w] = None]
    BY <1>4 DEF Bury
  <2> HIDE DEF rev
  <2> QED BY <1>4, <2>1, <2>2, <2>3, QueueDeletion
          DEF Bury, configVars, informerVars, syncVars, storeVars, historyVars
<1>5. ASSUME Compare(w) PROVE DeletionInv'
  <2>1. hand[w] # None /\ hand[w].at = "compare"
    BY <1>5 DEF Compare, At
  <2>2. UNCHANGED <<handled, known, queue, phase, unsynced, toDelete, flushing,
                    archive, filtered, late>>
    BY <1>5 DEF Compare, configVars, informerVars, syncVars, storeVars,
                historyVars
  <2> DEFINE rev == RevisionFrom(New(w), FALSE)
  <2>3. rev \in Revs /\ rev.res = New(w).res /\ rev.rv = New(w).rv /\ ~rev.deleted
    BY <2>1, NewType, RevisionFromType
  <2>4. c' \in {c, FlushCache!Cache(c, rev)} /\ hand' = [hand EXCEPT ![w] = None]
    BY <1>5 DEF Compare
  <2> HIDE DEF rev
  <2>5. CASE c' = FlushCache!Cache(c, rev)
    BY <2>1, <2>2, <2>3, <2>4, <2>5, QueueDeletion
  <2>6. CASE c' = c
    <3>1. \A v \in Workers : /\ hand'[v] # None => hand'[v] = hand[v]
                             /\ v # w => hand'[v] = hand[v]
      BY <2>4 DEF TypeOK
    <3>2. ASSUME NEW res \in Resources, Gone(res)' PROVE Dying(res)'
      <4>1. Dying(res)
        BY <2>2, <3>2 DEF Gone, DeletionInv
      <4>2. \A n \in Nat : Taken(res, n) => Taken(res, n)'
        BY <2>1, <3>1 DEF Taken, At, New
      <4>3. \A n \in Nat : Passing(res, n) => Passing(res, n)'
        BY <2>2, <2>6, <4>2 DEF Passing, Marked, Uncompared, Reported
      <4>4. \A n \in 1..MaxRV : Reviving(res, n)' => Reviving(res, n)
        BY <2>2, <2>6, <3>1 DEF Reviving, At, New
      <4> QED BY <2>2, <4>1, <4>3, <4>4, KeepsDying
    <3> QED BY <2>2, <3>2 DEF DeletionInv, FlushCache!OnePerKey, Compared
  <2> QED BY <2>4, <2>5, <2>6
<1>6. ASSUME NEW old \in Objects \cup {None},
             NEW at \in {"load", "compare"},
             Loading(w) \/ At(w, "fetch") \/ At(w, "memo"), Step(w, old, at),
             UNCHANGED <<configVars, informerVars, syncVars, flushVars,
                         archive, historyVars>>
      PROVE  DeletionInv'
  <2>1. hand[w] # None /\ hand[w].at \notin {"taken", "gone"}
    BY <1>6 DEF Loading, At
  <2> QED BY <1>2, <1>6, <2>1 DEF Places
<1>7. ASSUME Fetch(w) PROVE DeletionInv'
  <2>1. \A r \in Of(New(w).res, m) : Object(r) \in Objects
    BY ObjectType DEF Of, TypeOK
  <2>2. \E old \in Objects \cup {None}, at \in {"load", "compare"} :
            Step(w, old, at)
    BY <1>7, <2>1 DEF Fetch
  <2> QED BY <1>6, <1>7, <2>2 DEF Fetch, storeVars
<1>8. ASSUME LoadFails(w) PROVE DeletionInv'
  BY <1>6, <1>8 DEF LoadFails, storeVars
<1>9. ASSUME LoadLatest(w) PROVE DeletionInv'
  <2>1. hand[w] # None /\ New(w).res \in Resources
    BY <1>9, NewType DEF LoadLatest, Loading, At
  <2>2. latestCache[New(w).res] \in Objects
        /\ latestCache[New(w).res].content # Lazy
    BY <1>9, <2>1 DEF LoadLatest, LoadedInv, TypeOK
  <2>3. Loaded(w, latestCache[New(w).res]) \in Objects
    BY <2>1, <2>2, LoadedType
  <2> QED BY <1>6, <1>9, <2>3 DEF LoadLatest, Load
<1>10. ASSUME LoadListed(w) PROVE DeletionInv'
  <2>1. hand[w] # None /\ hand[w].at \notin {"taken", "gone"}
    BY <1>10 DEF LoadListed, Loading, At
  <2>2. /\ \A v \in Workers : v # w => hand'[v] = hand[v]
        /\ hand'[w] # None /\ hand'[w].item = hand[w].item
        /\ hand'[w].at = "memo"
    BY <1>10, LoadListedFacts
  <2> QED BY <1>10, <2>1, <2>2, KeepsItemDeletion
          DEF LoadListed, configVars, informerVars, syncVars, flushVars,
              storeVars, historyVars
<1>11. ASSUME Memoize(w) PROVE DeletionInv'
  <2>1. /\ hand[w] # None /\ hand[w].found \in Objects
        /\ hand[w].found.content # Lazy
    BY <1>11, NewType DEF Memoize, LoadedInv, At
  <2>2. Loaded(w, hand[w].found) \in Objects
    BY <2>1, LoadedType
  <2>3. \E old \in Objects \cup {None} : Step(w, old, "compare")
    BY <1>11, <2>2 DEF Memoize, Load
  <2> QED BY <1>6, <1>11, <2>3 DEF Memoize
<1>12. ASSUME LoadNothing(w) PROVE DeletionInv'
  <2>1. CASE Fatal
    BY <2>1, DieDeletion DEF Fatal
  <2>2. CASE ~Fatal
    BY <1>6, <1>12, <2>2 DEF LoadNothing, storeVars
  <2> QED BY <2>1, <2>2
<1> QED BY <1>1, <1>3, <1>4, <1>5, <1>7, <1>8, <1>9, <1>10, <1>11, <1>12
        DEF WorkerStep

-----------------------------------------------------------------------------
(* The flusher.                                                            *)

(* The blob of a revision is written, and the revision leaves the cache    *)
(* unless it has been replaced since.  If a tombstone of the same version  *)
(* leaves the cache unwritten, a later one is on its way.                  *)
LEMMA WriteDeletion ==
    ASSUME TypeInv, TypeInv', SafeInv, DeletionInv, NEW old \in flushing,
           NEW rev \in Revs, rev.content # Lazy, rev.res = old.res,
           rev.rv = old.rv, rev.deleted = old.deleted, Write(rev)
    PROVE  DeletionInv'
<1> USE DEF TypeInv
<1>1. /\ UNCHANGED <<handled, known, queue, phase, unsynced, toDelete, hand,
                     filtered, late>>
      /\ flushing' = {r \in flushing : r.res # rev.res}
      /\ archive' = {r \in archive : \/ r.res # rev.res \/ r.rv # rev.rv
                                     \/ r.deleted # rev.deleted} \cup {rev}
  BY DEF Write, configVars, informerVars, syncVars, historyVars
<1>2. c' = {x \in c : ~(x.res = rev.res /\ x.rv = rev.rv)}
  BY WriteFacts
<1>3. FlushCache!OnePerKey(flushing)'
  BY <1>1 DEF DeletionInv, FlushCache!OnePerKey
<1>4. \A r \in flushing : r.res = rev.res => r = old
  BY DEF DeletionInv, FlushCache!OnePerKey, ResourceKey
<1>5. /\ rev.rv \in Nat /\ rev.rv \in 1..MaxRV
      /\ \A r \in archive \cup c \cup flushing : r.rv \in Nat
  BY BoundsAssumption DEF TypeOK, Revs
<1>6. phase \notin {"down", "list"}
  BY DEF SafeInv, Started
<1>7. ASSUME NEW res \in Resources, Gone(res)' PROVE Dying(res)'
  <2>1. Dying(res)
    BY <1>1, <1>7 DEF Gone, DeletionInv
  <2>2. ASSUME NEW n \in Nat, rev.res # res \/ n > rev.rv, Passing(res, n)
        PROVE  Passing(res, n)'
    <3>1. Marked(res, n) => Marked(res, n)'
      <4>1. \A r \in archive \cup c \cup flushing :
               r.res = res /\ r.rv >= n => r \in (archive \cup c \cup flushing)'
        BY <1>1, <1>2, <1>4, <1>5, <2>2
      <4> QED BY <4>1 DEF Marked
    <3>2. Uncompared(res, n) => Uncompared(res, n)'
      BY <1>1, <1>6 DEF Uncompared
    <3>3. Reported(res, n) => Reported(res, n)'
      BY <1>1 DEF Reported
    <3>4. Taken(res, n) => Taken(res, n)'
      BY <1>1 DEF Taken, At, New
    <3> QED BY <2>2, <3>1, <3>2, <3>3, <3>4 DEF Passing
  <2>3. \A n \in 1..MaxRV : Reviving(res, n)' => Reviving(res, n)
    BY <1>1, <1>2 DEF Reviving, At, New
  <2>4. CASE rev.res # res
    <3>1. \A r \in archive' : r.res = res => r \in archive
      BY <1>1, <2>4
    <3> QED BY <2>1, <2>2, <2>3, <2>4, <3>1, KeepsDying
  <2>5. CASE rev.res = res
    <3>1. \/ Passing(res, rev.rv)'
          \/ \E x \in 1..MaxRV : x >= rev.rv /\ Reviving(res, x)
      <4>1. CASE rev.deleted
        <5>1. rev \in archive' /\ rev.rv >= rev.rv
          BY <1>1, <1>5
        <5> QED BY <2>5, <4>1, <5>1 DEF Passing, Marked
      <4>2. CASE ~rev.deleted
        <5>1. ~old.deleted
          BY <4>2, Zenon
        <5>2. Reviving(res, rev.rv)
          BY <2>5, <5>1, Zenon DEF Reviving
        <5> QED BY <1>5, <5>2
      <4> QED BY <4>1, <4>2
    <3>2. /\ Passing(res, rev.rv)'
          /\ \A n \in Nat : Passing(res, n) => Passing(res, n)'
      BY <1>5, <2>1, <2>2, <3>1, MayDrop
    <3>3. \A r \in archive' : r \in archive \/ r = rev
      BY <1>1
    <3> QED BY <2>1, <2>3, <3>2, <3>3, KeepsDying
  <2> QED BY <2>4, <2>5
<1> QED BY <1>1, <1>3, <1>7 DEF DeletionInv, Compared

LEMMA FlusherDeletion ==
    TypeInv /\ TypeInv' /\ SafeInv /\ DeletionInv /\ FlusherStep => DeletionInv'
<1> SUFFICES ASSUME TypeInv, TypeInv', SafeInv, DeletionInv, FlusherStep
             PROVE  DeletionInv'
  OBVIOUS
<1>1. CASE StartFlush
  <2>1. /\ UNCHANGED <<handled, known, filtered, late, archive, c, hand, queue,
                       phase, unsynced, toDelete>>
        /\ flushing = {} /\ flushing' = c
    BY <1>1 DEF StartFlush, FlushCache!SafeCopy, configVars, informerVars,
                syncVars, storeVars, readerVars, historyVars
  <2>2. FlushCache!OnePerKey(flushing)'
    BY <2>1 DEF TypeInv, TypeOK, FlushCache!OnePerKey
  <2>3. ASSUME NEW res \in Resources, Gone(res)' PROVE Dying(res)'
    <3>1. Dying(res)
      BY <2>1, <2>3 DEF Gone, DeletionInv
    <3>2. \A n \in Nat : Passing(res, n) => Passing(res, n)'
      BY <2>1 DEF Passing, Marked, Uncompared, Reported, Taken, At, New
    <3>3. \A n \in 1..MaxRV : Reviving(res, n)' => Reviving(res, n)
      BY <2>1 DEF Reviving, At, New
    <3> QED BY <2>1, <3>1, <3>2, <3>3, KeepsDying
  <2> QED BY <2>1, <2>2, <2>3 DEF DeletionInv, Compared
<1>2. ASSUME NEW rev \in flushing, Flush(rev) PROVE DeletionInv'
  BY <1>2, WriteDeletion DEF Flush, TypeInv, TypeOK
<1>3. ASSUME NEW rev \in flushing, FlushLazy(rev) PROVE DeletionInv'
  <2>1. rev \in Revs
    BY DEF TypeInv, TypeOK
  <2>2. PICK u \in Objects : /\ u.content # Lazy
                             /\ Write([rev EXCEPT !.content = u.content])
    BY <1>3, FlushLazyLoads
  <2>3. u.content \in Contents \cup {Lazy}
    BY DEF Objects
  <2> DEFINE loaded == [rev EXCEPT !.content = u.content]
  <2>4. /\ loaded \in Revs /\ loaded.content # Lazy
        /\ loaded.res = rev.res /\ loaded.rv = rev.rv
        /\ loaded.deleted = rev.deleted
    BY <2>1, <2>2, <2>3, ContentOnly
  <2> HIDE DEF loaded
  <2>5. Write(loaded)
    BY <2>2 DEF loaded
  <2> QED BY <2>4, <2>5, WriteDeletion
<1>4. ASSUME NEW rev \in flushing, FlushNothing(rev) PROVE DeletionInv'
  BY <1>4, DieDeletion DEF FlushNothing, Fatal
<1> QED BY <1>1, <1>2, <1>3, <1>4 DEF FlusherStep

-----------------------------------------------------------------------------

LEMMA DeletionNext ==
    TypeInv /\ TypeInv' /\ SafeInv /\ DeletionInv /\ [Next]_vars => DeletionInv'
<1> SUFFICES ASSUME TypeInv, TypeInv', SafeInv, DeletionInv, [Next]_vars
             PROVE  DeletionInv'
  OBVIOUS
<1>1. CASE Crash
  BY <1>1, DieDeletion DEF Crash
<1>2. ASSUME NEW w \in Workers, WorkerStep(w) PROVE DeletionInv'
  BY <1>2, WorkerDeletion
<1>3. CASE UNCHANGED vars
  BY <1>3
  DEF vars, configVars, informerVars, syncVars, flushVars, historyVars,
      storeVars, DeletionInv, Compared, Gone, Dying, Passing, Marked,
      Uncompared, Reported, Taken, Reviving, At, New, FlushCache!OnePerKey
<1> QED BY <1>1, <1>2, <1>3, InformerDeletion, StartDeletion, FlusherDeletion
        DEF Next

(* Once nothing is on its way, what a dying object is followed by can only *)
(* be a tombstone in the archive.                                          *)
LEMMA DyingIsBuried == TypeInv /\ DeletionInv => DeletionsCaptured
<1> SUFFICES ASSUME TypeInv, DeletionInv, Settled,
                    NEW res \in handled \ (filtered \cup late),
                    known[res] = None, Of(res, archive) # {}
             PROVE  Buried(res)
  BY DEF DeletionsCaptured
<1>1. res \in Resources /\ archive \subseteq Revs
  BY DEF TypeInv, TypeOK
<1>2. Of(res, archive) \in SUBSET Revs
  BY <1>1 DEF Of
<1>3. PICK r \in Of(res, archive) : r \in Newest(Of(res, archive))
  BY <1>2, NewestExists
<1>4. Passing(res, r.rv)
  BY <1>1, <1>3 DEF DeletionInv, Gone, Dying, Of
<1>5. Marked(res, r.rv)
  BY <1>4 DEF Settled, DeletionInv, Compared, Passing, Uncompared, Reported,
              Taken, At
<1>6. PICK q \in archive : q.deleted /\ q.res = res /\ q.rv >= r.rv
  BY <1>5 DEF Settled, Marked
<1>7. \A x \in Of(res, archive) : x.rv <= r.rv /\ x.rv \in Int
  BY <1>2, <1>3 DEF Newest, Revs
<1>8. q \in Newest(Of(res, archive))
  BY <1>3, <1>6, <1>7 DEF Newest, Of
<1> QED BY <1>6, <1>8 DEF Buried

(* An object that is gone, and of which something is archived, ends up     *)
(* with a tombstone as its newest revision, however the workers overtake   *)
(* each other, the flusher's cache drops one of two revisions, and the     *)
(* process is killed and started again (controller.go:324-339, 576-586,    *)
(* cache.go:58-65).                                                        *)
THEOREM DeletionsAlwaysCaptured == Spec => []DeletionsCaptured
BY SafeAlways, DeletionInit, DeletionNext, DyingIsBuried, PTL DEF Spec
=============================================================================
