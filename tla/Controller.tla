----------------------------- MODULE Controller -----------------------------
(***************************************************************************)
(* The controller of pkg/controller/controller.go between the informers    *)
(* and the store: what an informer reports is queued, workers turn it into *)
(* revisions and tombstones, and the flusher writes them.  At start the    *)
(* store is compared with the informers (syncStore).  The process may end  *)
(* at any time, while the cluster goes on, and is started again.           *)
(*                                                                         *)
(* The question is whether the archive keeps up with the cluster, so a     *)
(* revision has no timestamp, and of an object's content only the checked  *)
(* fields are kept.  The flusher is reduced to its cycle over the cache c  *)
(* with writes that succeed; failing writes are the subject of module      *)
(* Flusher, and the removal of old revisions that of module Retention.     *)
(***************************************************************************)
EXTENDS Revision, Sequences

CONSTANTS
    Workers,          \* the goroutines of one handler (--threadiness)
    Contents,         \* what the checked fields of an object may be
    Selected,         \* the contents that rule, names and labels select
    DeleteUntracked,  \* --delete-untracked
    FinalRV,          \* \subseteq {"fresh", "last"}: what a deletion carries
    MaxRV,            \* bound on resource versions
    MaxCrashes,       \* bound on how often the process is killed
    Setups,           \* what may be watched, and what is archived before
    Lazy,             \* the content of a walked revision before it is loaded
    None

ASSUME SelectedAssumption  == Selected \subseteq Contents
ASSUME UntrackedAssumption == DeleteUntracked \in BOOLEAN
ASSUME FinalRVAssumption   == FinalRV \subseteq {"fresh", "last"}
ASSUME BoundsAssumption    == MaxRV \in Nat /\ MaxCrashes \in Nat
ASSUME LazyAssumption      == Lazy \notin Contents

VARIABLES
    enableCache,  \* whether Get is served by the in-memory reader
    handled,      \* the objects for whose kind there is a handler
    known,        \* the objects of the cluster
    listed,       \* objects whose informers have listed: handler.Store is known
    queue,        \* handler.Queue
    lastRV,       \* the last resource version the API server gave out
    phase,        \* "down", or where Run() is
    unsynced,     \* what Sync has not visited yet
    toDelete,     \* the stale revisions Sync has found
    hand,         \* what each worker is at
    c,            \* Flush.c
    flushing,     \* what the flush cycle has not written yet
    archive,      \* the blobs of the backend
    latestCache,  \* latestCache of the backend store
    m,            \* cache.m of the in-memory reader
    latest,       \* cache.latestCache of the in-memory reader
    crashes,      \* history: how often the process was killed
    filtered,     \* history: objects of which an item was not selected
    recreated,    \* history: objects that were deleted before
    late          \* history: objects whose deletion carried an old version

informerVars == <<known, listed, queue, lastRV>>
syncVars     == <<phase, unsynced, toDelete>>
flushVars    == <<c, flushing>>
readerVars   == <<m, latest>>
storeVars    == <<archive, latestCache, readerVars>>
historyVars  == <<crashes, filtered, recreated, late>>
configVars   == <<enableCache, handled>>
vars == <<configVars, informerVars, syncVars, hand, flushVars, storeVars,
          historyVars>>

Objects == [res : Resources, rv : 1..MaxRV, content : Contents \cup {Lazy}]
Revs    == [res : Resources, rv : 1..MaxRV, content : Contents \cup {Lazy},
            deleted : BOOLEAN]

(* A work item: an added or deleted object has no old one.  The workers    *)
(* cannot tell an addition from a deletion.                                *)
Items == [old : Objects \cup {None}, new : Objects]

(* What a worker does with its item.                                       *)
Tasks == [item : Items, old : Objects \cup {None}, found : Objects \cup {None},
          at : {"taken", "gone", "fetch", "load", "memo", "compare"}]

ASSUME NoneAssumption == None \notin Objects \cup Tasks

(* No version has been given out yet, so what is archived before is of     *)
(* objects that are not watched any more.                                  *)
ASSUME SetupsAssumption ==
    \A s \in Setups :
        /\ s.handled \subseteq Resources
        /\ s.archive \subseteq Revs
        /\ \A r \in s.archive : r.content # Lazy /\ r.res \notin s.handled

FlushCache == INSTANCE RevisionCache WITH keyFunc <- ResourceKey

RevisionFrom(u, deleted) == [res |-> u.res, rv |-> u.rv,
                             content |-> u.content, deleted |-> deleted]

Object(rev) == [res |-> rev.res, rv |-> rev.rv, content |-> rev.content]

Of(res, revs) == {r \in revs : r.res = res}

(* The revisions of the highest resource version.                          *)
Newest(revs) == {r \in revs : \A q \in revs : q.rv <= r.rv}

Live(revs) == {r \in revs : ~r.deleted}

(* Types, that the flusher's cache holds one revision per object and the   *)
(* reader one per version, and that every blob has its content.            *)
TypeOK ==
    /\ enableCache \in BOOLEAN
    /\ handled \subseteq Resources
    /\ known \in [Resources -> Objects \cup {None}]
    /\ listed \subseteq handled
    /\ queue \in Seq(Items)
    /\ lastRV \in 0..MaxRV
    /\ phase \in {"down", "list", "walk", "delete", "run"}
    /\ unsynced \subseteq Revs
    /\ toDelete \subseteq Revs
    /\ hand \in [Workers -> Tasks \cup {None}]
    /\ c \subseteq Revs /\ FlushCache!OnePerKey(c)
    /\ flushing \subseteq Revs
    /\ archive \subseteq Revs
    /\ \A r \in archive : r.content # Lazy
    /\ latestCache \in [Resources -> Objects \cup {None}]
    /\ m \subseteq Revs
    /\ \A x, y \in m : x.res = y.res /\ x.rv = y.rv => x = y
    /\ latest \in [Resources -> 0..MaxRV]
    /\ crashes \in 0..MaxCrashes
    /\ filtered \subseteq Resources
    /\ recreated \subseteq Resources
    /\ late \subseteq Resources

(* Nothing runs, and nothing that a process holds is there.                *)
Init ==
    /\ enableCache \in BOOLEAN
    /\ \E s \in Setups : handled = s.handled /\ archive = s.archive
    /\ known = [res \in Resources |-> None]
    /\ listed = {}
    /\ queue = <<>>
    /\ lastRV = 0
    /\ phase = "down"
    /\ unsynced = {}
    /\ toDelete = {}
    /\ hand = [w \in Workers |-> None]
    /\ c = {}
    /\ flushing = {}
    /\ latestCache = [res \in Resources |-> None]
    /\ m = {}
    /\ latest = [res \in Resources |-> 0]
    /\ crashes = 0
    /\ filtered = {}
    /\ recreated = {}
    /\ late = {}

(* The process ends: only the blobs are left.                              *)
Die ==
    /\ phase' = "down"
    /\ listed' = {}
    /\ queue' = <<>>
    /\ unsynced' = {}
    /\ toDelete' = {}
    /\ hand' = [w \in Workers |-> None]
    /\ c' = {}
    /\ flushing' = {}
    /\ latestCache' = [res \in Resources |-> None]
    /\ m' = {}
    /\ latest' = [res \in Resources |-> 0]
    /\ filtered' = {}
    /\ late' = {}
    /\ UNCHANGED <<configVars, known, lastRV, archive, recreated>>

(* It is killed or interrupted.  Nothing is flushed before it ends.        *)
Crash ==
    /\ phase # "down"
    /\ crashes < MaxCrashes
    /\ crashes' = crashes + 1
    /\ Die

(* klog.Fatalf                                                             *)
Fatal == Die /\ UNCHANGED crashes

-----------------------------------------------------------------------------
(* The cluster changes, and an informer that has listed updates its store  *)
(* before it calls a handler function.                                     *)

Report(item) ==
    queue' = IF item.new.res \in listed THEN Append(queue, item) ELSE queue

(* What GetByKey of handler.Store finds.                                   *)
Exists(res) == res \in listed /\ known[res] # None

Appear(res, x) ==
    LET u == [res |-> res, rv |-> lastRV + 1, content |-> x]
    IN  /\ lastRV < MaxRV
        /\ known[res] = None
        /\ known' = [known EXCEPT ![res] = u]
        /\ Report([old |-> None, new |-> u])
        /\ lastRV' = lastRV + 1
        /\ UNCHANGED <<configVars, listed, syncVars, hand, flushVars,
                       storeVars, historyVars>>

Change(res, x) ==
    LET u == [res |-> res, rv |-> lastRV + 1, content |-> x]
    IN  /\ lastRV < MaxRV
        /\ known[res] # None
        /\ known' = [known EXCEPT ![res] = u]
        /\ Report([old |-> known[res], new |-> u])
        /\ lastRV' = lastRV + 1
        /\ UNCHANGED <<configVars, listed, syncVars, hand, flushVars,
                       storeVars, historyVars>>

(* A deletion that is watched carries a version of its own.  One that is   *)
(* only noticed by listing again (DeletedFinalStateUnknown) carries the    *)
(* object as the informer knew it last.                                    *)
Vanish(res, final) ==
    LET u == IF final = "fresh" THEN [known[res] EXCEPT !.rv = lastRV + 1]
             ELSE known[res]
    IN  /\ known[res] # None
        /\ lastRV < MaxRV
        /\ final = "last" => res \in listed
        /\ known' = [known EXCEPT ![res] = None]
        /\ Report([old |-> None, new |-> u])
        /\ lastRV' = lastRV + 1
        /\ recreated' = recreated \cup {res}
        /\ late' = IF final = "last" THEN late \cup {res} ELSE late
        /\ UNCHANGED <<configVars, listed, syncVars, hand, flushVars,
                       storeVars, crashes, filtered>>

(* The hourly resync reports every object as an update to itself.  The     *)
(* workers are done with what was queued before by then.                   *)
Resync(res) ==
    LET item == [old |-> known[res], new |-> known[res]]
    IN  /\ Exists(res)
        /\ queue = <<>>
        /\ \A w \in Workers : hand[w] = None
        /\ Report(item)
        /\ UNCHANGED <<configVars, known, listed, lastRV, syncVars, hand,
                       flushVars, storeVars, historyVars>>

-----------------------------------------------------------------------------
(* New() and Run() up to the workers.                                      *)

Start ==
    /\ phase = "down"
    /\ phase' = "list"
    /\ UNCHANGED <<configVars, informerVars, unsynced, toDelete, hand,
                   flushVars, storeVars, historyVars>>

(* An informer lists its objects and reports each as an addition.          *)
ListObject(res) ==
    /\ phase = "list"
    /\ listed' = listed \cup {res}
    /\ queue' = IF known[res] = None THEN queue
                ELSE Append(queue, [old |-> None, new |-> known[res]])
    /\ UNCHANGED <<configVars, known, lastRV, syncVars, hand, flushVars,
                   storeVars, historyVars>>

(* Mutant of WaitForCacheSync: nobody waits for the informers.             *)
GoAhead ==
    /\ phase = "list"
    /\ phase' = "walk"
    /\ unsynced' = archive
    /\ UNCHANGED <<configVars, informerVars, toDelete, hand, flushVars,
                   storeVars, historyVars>>

(* Mutant of WaitForCacheSync: it waits for informers nobody started.      *)
WaitForEveryone ==
    /\ phase = "list"
    /\ listed = Resources
    /\ phase' = "walk"
    /\ unsynced' = archive
    /\ UNCHANGED <<configVars, informerVars, toDelete, hand, flushVars,
                   storeVars, historyVars>>

WaitForCacheSync ==
    /\ phase = "list"
    /\ listed = handled
    /\ phase' = "walk"
    /\ unsynced' = archive
    /\ UNCHANGED <<configVars, informerVars, toDelete, hand, flushVars,
                   storeVars, historyVars>>

(* The next keys of the walk: those of one object are in order.            *)
NextKeys(revs) ==
    {r \in revs : \A q \in Of(r.res, revs) :
                     \/ r.rv < q.rv
                     \/ r.rv = q.rv /\ (r.deleted => q.deleted)}

(* One key of Sync's walk: stale if the informer does not know the object, *)
(* or nobody watches its kind and untracked objects are to go.             *)
SyncVisit(rev) ==
    /\ phase = "walk"
    /\ rev \in NextKeys(unsynced)
    /\ unsynced' = unsynced \ {rev}
    /\ toDelete' = IF \/ rev.res \in handled /\ ~Exists(rev.res)
                      \/ rev.res \notin handled /\ DeleteUntracked
                   THEN toDelete \cup {[rev EXCEPT !.content = Lazy]}
                   ELSE toDelete
    /\ UNCHANGED <<configVars, informerVars, phase, hand, flushVars,
                   storeVars, historyVars>>

(* cache.Set                                                               *)
Set(revs, rev) ==
    {r \in revs : r.res # rev.res \/ r.rv # rev.rv} \cup {rev}

(* Sync of the read-write store puts the walked revisions of watched kinds *)
(* into the reader, in the order of the walk.                              *)
SyncWalked ==
    LET walked == {[r EXCEPT !.content = Lazy] :
                      r \in {q \in archive : q.res \in handled}}
    IN  /\ phase = "walk"
        /\ unsynced = {}
        /\ phase' = "delete"
        /\ m' = IF enableCache
                THEN {r \in walked : r.deleted
                         \/ [r EXCEPT !.deleted = TRUE] \notin walked}
                ELSE {}
        /\ latest' = [res \in Resources |->
                         IF Of(res, m') = {} THEN 0
                         ELSE (CHOOSE r \in Newest(Of(res, m')) : TRUE).rv]
        /\ UNCHANGED <<configVars, informerVars, unsynced, toDelete, hand,
                       flushVars, archive, latestCache, historyVars>>

(* SetDeleted and Queue of syncStore.  The reader holds the same revision, *)
(* which becomes a tombstone there too.                                    *)
SyncDelete(rev) ==
    LET tombstone == [rev EXCEPT !.deleted = TRUE]
    IN  /\ phase = "delete"
        /\ rev \in NextKeys(toDelete)
        /\ toDelete' = toDelete \ {rev}
        /\ m' = {IF r = rev THEN tombstone ELSE r : r \in m}
        /\ c' = FlushCache!Cache(c, tombstone)
        /\ UNCHANGED <<configVars, informerVars, phase, unsynced, hand,
                       flushing, archive, latestCache, latest, historyVars>>

StartWorkers ==
    /\ phase = "delete"
    /\ toDelete = {}
    /\ phase' = "run"
    /\ UNCHANGED <<configVars, informerVars, unsynced, toDelete, hand,
                   flushVars, storeVars, historyVars>>

-----------------------------------------------------------------------------
(* The workers.                                                            *)

CanTake(w) == phase = "run" /\ hand[w] = None /\ queue # <<>>

(* queue.Get(); the revisions are made from copies of the objects.         *)
Take(w) ==
    /\ CanTake(w)
    /\ Head(queue).new.content \in Selected
    /\ queue' = Tail(queue)
    /\ hand' = [hand EXCEPT ![w] = [item |-> Head(queue),
                                    old  |-> Head(queue).old,
                                    found |-> None, at |-> "taken"]]
    /\ UNCHANGED <<configVars, known, listed, lastRV, syncVars, flushVars,
                   storeVars, historyVars>>

(* No rule for the object, or its name or labels are not selected.         *)
TakeUnselected(w) ==
    /\ CanTake(w)
    /\ Head(queue).new.content \notin Selected
    /\ queue' = Tail(queue)
    /\ filtered' = filtered \cup {Head(queue).new.res}
    /\ UNCHANGED <<configVars, known, listed, lastRV, syncVars, hand,
                   flushVars, storeVars, crashes, recreated, late>>

At(w, at) == hand[w] # None /\ hand[w].at = at

New(w) == hand[w].item.new

Step(w, old, at) ==
    hand' = [hand EXCEPT ![w].old = old, ![w].found = None, ![w].at = at]

(* handleDeletion asks the informer's store: whatever the item reported,   *)
(* an object that is not there now has been deleted.                       *)
LookUp(w) ==
    /\ At(w, "taken")
    /\ Step(w, hand[w].old, CASE ~Exists(New(w).res) -> "gone"
                               [] Exists(New(w).res) /\ hand[w].old # None
                                  -> "compare"
                               [] OTHER -> "fetch")
    /\ UNCHANGED <<configVars, informerVars, syncVars, flushVars, storeVars,
                   historyVars>>

(* Mutant of Bury: the deletion is queued as one more live revision.       *)
BuryAlive(w) ==
    /\ At(w, "gone")
    /\ c' = FlushCache!Cache(c, RevisionFrom(New(w), FALSE))
    /\ hand' = [hand EXCEPT ![w] = None]
    /\ UNCHANGED <<configVars, informerVars, syncVars, flushing, storeVars,
                   historyVars>>

(* SetDeleted and Queue of handleDeletion.                                 *)
Bury(w) ==
    /\ At(w, "gone")
    /\ c' = FlushCache!Cache(c, RevisionFrom(New(w), TRUE))
    /\ hand' = [hand EXCEPT ![w] = None]
    /\ UNCHANGED <<configVars, informerVars, syncVars, flushing, storeVars,
                   historyVars>>

(* Get of the reader finds nothing, or a revision that different will have *)
(* to load unless it is the same version.                                  *)
Fetch(w) ==
    /\ At(w, "fetch")
    /\ enableCache
    /\ \/ /\ Of(New(w).res, m) = {}
          /\ Step(w, None, "compare")
       \/ \E r \in Of(New(w).res, m) :
             /\ r.rv = latest[New(w).res]
             /\ Step(w, Object(r), IF r.content = Lazy /\ r.rv # New(w).rv
                                   THEN "load" ELSE "compare")
    /\ UNCHANGED <<configVars, informerVars, syncVars, flushVars, storeVars,
                   historyVars>>

(* Get of the backend store: without the reader, or to load the content of *)
(* what the reader found.                                                  *)
Loading(w) == At(w, "load") \/ (At(w, "fetch") /\ ~enableCache)

(* What Get makes of the blob u: the old revision itself, or the content   *)
(* of the lazy one ...                                                     *)
Loaded(w, u) == IF hand[w].old = None THEN u
                ELSE [hand[w].old EXCEPT !.content = u.content]

(* ... which the reader holds too.                                         *)
Fill(u) ==
    m' = {IF r.res = u.res /\ r.rv = u.rv /\ r.content = Lazy
          THEN [r EXCEPT !.content = u.content] ELSE r : r \in m}

Load(w, u) == Step(w, Loaded(w, u), "compare") /\ Fill(Loaded(w, u))

(* latestCache knows the key ...                                           *)
LoadLatest(w) ==
    /\ Loading(w)
    /\ latestCache[New(w).res] # None
    /\ Load(w, latestCache[New(w).res])
    /\ UNCHANGED <<configVars, informerVars, syncVars, flushVars, archive,
                   latestCache, latest, historyVars>>

(* ... or the last of the object's live revisions is looked up ...         *)
LoadListed(w) ==
    /\ Loading(w)
    /\ latestCache[New(w).res] = None
    /\ \E r \in Newest(Live(Of(New(w).res, archive))) :
          hand' = [hand EXCEPT ![w].found = Object(r), ![w].at = "memo"]
    /\ UNCHANGED <<configVars, informerVars, syncVars, flushVars, storeVars,
                   historyVars>>

(* ... and put into latestCache without another look at it, and read.      *)
Memoize(w) ==
    /\ At(w, "memo")
    /\ latestCache' = [latestCache EXCEPT ![New(w).res] = hand[w].found]
    /\ \/ Load(w, hand[w].found)
       \/ Step(w, None, "compare") /\ UNCHANGED m
    /\ UNCHANGED <<configVars, informerVars, syncVars, flushVars, archive,
                   latest, historyVars>>

(* No live revision is left.  Get without the reader finds nothing; a      *)
(* lazy revision takes that for a programming error and ends the process.  *)
LoadNothing(w) ==
    /\ Loading(w)
    /\ latestCache[New(w).res] = None
    /\ Live(Of(New(w).res, archive)) = {}
    /\ \/ /\ At(w, "fetch")
          /\ Step(w, None, "compare")
          /\ UNCHANGED <<configVars, informerVars, syncVars, flushVars,
                         storeVars, historyVars>>
       \/ At(w, "load") /\ Fatal

(* The store cannot be read: there is no old revision then, or different   *)
(* takes the content for changed.                                          *)
LoadFails(w) ==
    /\ Loading(w)
    /\ Step(w, None, "compare")
    /\ UNCHANGED <<configVars, informerVars, syncVars, flushVars, storeVars,
                   historyVars>>

(* Mutant of different: an unknown old revision counts as unchanged.       *)
differentIfKnown(old, new) ==
    /\ old # None
    /\ old.rv # new.rv
    /\ old.content # new.content

different(old, new) ==
    \/ old = None
    \/ /\ old.rv # new.rv
       /\ old.content # new.content

(* different, then Queue.  handleRotation lists the revisions of the       *)
(* object and never names one to purge.                                    *)
Compare(w) ==
    /\ At(w, "compare")
    /\ c' = IF different(hand[w].old, New(w))
            THEN FlushCache!Cache(c, RevisionFrom(New(w), FALSE))
            ELSE c
    /\ hand' = [hand EXCEPT ![w] = None]
    /\ UNCHANGED <<configVars, informerVars, syncVars, flushing, storeVars,
                   historyVars>>

-----------------------------------------------------------------------------
(* The flush loop.                                                         *)

StartFlush ==
    /\ flushing = {}
    /\ c # {}
    /\ flushing' = FlushCache!SafeCopy(c)
    /\ UNCHANGED <<configVars, informerVars, syncVars, hand, c, storeVars,
                   historyVars>>

(* Mutant of Write: the reader gets what is cached by now.                 *)
WriteAhead(rev) ==
    /\ flushing' = {r \in flushing : r.res # rev.res}
    /\ c' = FlushCache!Delete(c, rev)
    /\ archive' = {r \in archive : \/ r.res # rev.res \/ r.rv # rev.rv
                                   \/ r.deleted # rev.deleted} \cup {rev}
    /\ m' = IF enableCache THEN Set(m, CHOOSE r \in c : r.res = rev.res) ELSE m
    /\ latest' = IF enableCache THEN [latest EXCEPT ![rev.res] = rev.rv]
                 ELSE latest
    /\ UNCHANGED <<configVars, informerVars, syncVars, hand, historyVars>>

(* The blob of a key is replaced, the reader follows, and the revision     *)
(* leaves the cache.                                                       *)
Write(rev) ==
    /\ flushing' = {r \in flushing : r.res # rev.res}
    /\ c' = FlushCache!Delete(c, rev)
    /\ archive' = {r \in archive : \/ r.res # rev.res \/ r.rv # rev.rv
                                   \/ r.deleted # rev.deleted} \cup {rev}
    /\ m' = IF enableCache THEN Set(m, rev) ELSE m
    /\ latest' = IF enableCache THEN [latest EXCEPT ![rev.res] = rev.rv]
                 ELSE latest
    /\ UNCHANGED <<configVars, informerVars, syncVars, hand, historyVars>>

(* Update or Delete of the store and f.c.Delete.  Delete of the backend    *)
(* store leaves latestCache alone.                                         *)
Flush(rev) ==
    /\ rev \in flushing
    /\ rev.content # Lazy
    /\ latestCache' = IF rev.deleted THEN latestCache
                      ELSE [latestCache EXCEPT ![rev.res] = Object(rev)]
    /\ Write(rev)

(* A tombstone of syncStore has to load its content before it is written,  *)
(* from the object's latest live revision.                                 *)
FlushLazy(rev) ==
    /\ rev \in flushing
    /\ rev.content = Lazy
    /\ \E u \in IF latestCache[rev.res] # None THEN {latestCache[rev.res]}
                 ELSE {Object(r) : r \in Newest(Live(Of(rev.res, archive)))} :
          /\ latestCache' = [latestCache EXCEPT ![rev.res] = u]
          /\ Write([rev EXCEPT !.content = u.content])

(* There is none.                                                          *)
FlushNothing(rev) ==
    /\ rev \in flushing
    /\ rev.content = Lazy
    /\ latestCache[rev.res] = None
    /\ Live(Of(rev.res, archive)) = {}
    /\ Fatal

WorkerStep(w) ==
    \/ Take(w)
    \/ TakeUnselected(w)
    \/ LookUp(w)
    \/ Bury(w)
    \/ Fetch(w)
    \/ LoadLatest(w)
    \/ LoadListed(w)
    \/ Memoize(w)
    \/ LoadNothing(w)
    \/ LoadFails(w)
    \/ Compare(w)

FlusherStep ==
    \/ StartFlush
    \/ \E rev \in flushing : Flush(rev) \/ FlushLazy(rev) \/ FlushNothing(rev)

StartStep ==
    \/ Start
    \/ \E res \in handled \ listed : ListObject(res)
    \/ WaitForCacheSync
    \/ \E rev \in unsynced : SyncVisit(rev)
    \/ SyncWalked
    \/ \E rev \in toDelete : SyncDelete(rev)
    \/ StartWorkers

InformerStep ==
    \E res \in handled :
       \/ \E x \in Contents : Appear(res, x) \/ Change(res, x)
       \/ \E final \in FinalRV : Vanish(res, final)
       \/ Resync(res)

Next ==
    \/ InformerStep
    \/ StartStep
    \/ \E w \in Workers : WorkerStep(w)
    \/ FlusherStep
    \/ Crash

Spec == Init /\ [][Next]_vars

(* The process is started again, its informers list, the walk ends, every  *)
(* worker goes on and the flush ticker ticks.                              *)
Fairness ==
    /\ WF_vars(StartStep)
    /\ \A w \in Workers : WF_vars(WorkerStep(w))
    /\ WF_vars(FlusherStep)

FairSpec == Spec /\ Fairness

-----------------------------------------------------------------------------

(* Nothing is on its way from the informer to the archive.                 *)
Settled ==
    /\ phase = "run"
    /\ queue = <<>>
    /\ \A w \in Workers : hand[w] = None
    /\ c = {}
    /\ flushing = {}

(* The newest revision in the archive is not a tombstone and has the       *)
(* checked fields of the object.                                           *)
BackedUp(res) ==
    \E r \in Newest(Of(res, archive)) :
        /\ r.content = known[res].content
        /\ \A q \in Newest(Of(res, archive)) : ~q.deleted

(* The newest revision in the archive is a tombstone.                      *)
Buried(res) == \E r \in Newest(Of(res, archive)) : r.deleted

(* However the workers overtake each other and whenever the process is     *)
(* killed and started again, the archive ends up with the last change of   *)
(* the checked fields of an object that was there all the time             *)
(* (controller.go:499-554).                                                *)
ChangesCaptured ==
    Settled => \A res \in handled \ (filtered \cup recreated) :
                   known[res] # None => BackedUp(res)

(* An object that is gone, while saiki ran or before, ends up with a       *)
(* tombstone as its newest revision (controller.go:324-339, 576-586).  A   *)
(* tombstone of an old version may be dropped by the flusher's cache       *)
(* (cache.go:62); the next start makes up for it.                          *)
DeletionsCaptured ==
    Settled => \A res \in handled \ (filtered \cup late) :
                   known[res] = None /\ Of(res, archive) # {} => Buried(res)

(* An object of the cluster never has a tombstone of its own version: the  *)
(* start-up comparison waits for the informers, and a worker only buries   *)
(* what the informer does not know (controller.go:398, 579, storage.go:300).*)
LivingAreNotBuried ==
    \A r \in archive : r.deleted /\ known[r.res] # None => r.rv < known[r.res].rv

(* The reader names blobs that are there.  Only the revisions syncStore    *)
(* marked as deleted, which are the reader's own, are live in the archive  *)
(* (controller.go:335, readwrite.go:48-64).                                *)
ReaderNamesBlobs ==
    \A x \in m : \E r \in archive :
        /\ r.res = x.res /\ r.rv = x.rv
        /\ r.deleted => x.deleted
        /\ x.deleted /\ ~r.deleted => x.res \in recreated

(* An object of the cluster is backed up, also if it was deleted before    *)
(* ("continuously backup a k8s cluster", watch.go:49).                     *)
ObjectsCaptured ==
    Settled => \A res \in handled \ filtered :
                   known[res] # None => BackedUp(res)

(* Every revision of the object in the archive is a tombstone.             *)
OnlyTombstones(res) == Of(res, archive) # {} /\ Live(Of(res, archive)) = {}

(* What is queued comes to rest in the archive: once the cluster is quiet  *)
(* the flusher has written the last change or the tombstone of an object   *)
(* (controller.go:499-586, flusher.go:113-162).  It may not get to it if   *)
(* the archive has nothing but tombstones of another object, which can end *)
(* the process at every start (revision.go:170).                           *)
EventuallyCaptured ==
    \A res \in Resources :
        <>[](\/ \E q \in Resources \ {res} : OnlyTombstones(q)
             \/ res \notin handled \ filtered
             \/ IF known[res] = None
                THEN Of(res, archive) # {} /\ res \notin late => Buried(res)
                ELSE res \notin recreated => BackedUp(res))

(* saiki comes up and stays up, however its predecessors ended, unless the *)
(* archive has nothing but tombstones of some object: their content cannot *)
(* be loaded, which ends the process at every start (revision.go:170).     *)
EventuallyUp == <>[](phase = "run" \/ \E res \in Resources : OnlyTombstones(res))
=============================================================================
