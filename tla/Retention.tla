------------------------------ MODULE Retention ------------------------------
(***************************************************************************)
(* The store while saiki watches: concurrent writers, the in-memory copy   *)
(* of the backend, the reaper that looks for old revisions in it and the   *)
(* purger that removes them.                                               *)
(*                                                                         *)
(*   pkg/store/storage.go          RevisionStore: save, Update, Delete,    *)
(*                                 PurgeRevisions                          *)
(*   pkg/store/readwrite.go        ReadWriteStore: backend first, then the *)
(*                                 in-memory reader                        *)
(*   pkg/store/inmemory_getter.go  the in-memory reader                    *)
(*   pkg/controller/reaper, pkg/controller/purger                          *)
(*                                                                         *)
(* The flusher is the environment: it may write every revision once, and   *)
(* the ones whose write failed again and again (module Flusher).           *)
(***************************************************************************)
EXTENDS Revision

CONSTANTS
    Events,          \* the revisions the flusher may write
    EnableCache,     \* --enable-cache: State is read from memory
    Bulk,            \* the backend is S3: RemoveAll removes in bulk
    Faults,          \* how saving may go wrong, see SaveFaults
    Ruled,           \* the objects RuleFor finds a rule for
    PurgeOlderThan,  \* the age, in ticks, after which their rule reaps
    MaxNow           \* bound of the clock

(* "create": backend.Create fails.  "write": Content, Marshal, Encrypt or  *)
(* Write fails after Create, and the deferred Close commits what there is. *)
(* "close": the deferred Close fails, which save does not look at.         *)
SaveFaults == {"create", "write", "close"}

ASSUME EventsAssumption == Events \subseteq Revisions
ASSUME SwitchAssumption == EnableCache \in BOOLEAN /\ Bulk \in BOOLEAN
ASSUME FaultsAssumption == Faults \subseteq SaveFaults
ASSUME RuleAssumption   == Ruled \subseteq Resources /\ PurgeOlderThan \in Nat
ASSUME MaxNowAssumption == MaxNow \in Nat

(* Versions are strings to the backend, of at most ten digits here.        *)
ASSUME VersionAssumption == \A r \in Events : r.rv \in TenDigits

VARIABLES
    now,             \* time.Now(), in ticks
    backend,         \* the keys of the blobs in the bucket
    torn,            \* those of them that cannot be read back
    latestCache,     \* RevisionStore.latestCache: one key per object
    m,               \* cache.m of the in-memory reader
    memLatest,       \* cache.latestCache of the in-memory reader: one
                     \*   resource version per object
    writers,         \* the calls of Update and Delete under way
    retryCache,      \* the revisions the flusher writes again and again
    rpc,             \* where the reaper is
    state,           \* what State gave to the reaper and is not judged yet
    revsToReap,      \* the reaper's list of revisions to purge
    purgeCache,      \* Purge.c, keyed by Key
    ppc,             \* where the purger is
    toPurge,         \* what is left to do in the purger's present phase
    deletedRevs,     \* the revisions whose removal the backend reported
    seen             \* history: the revisions whose write was acknowledged

storeVars  == <<backend, torn, latestCache, m, memLatest>>
writeVars  == <<writers, retryCache, seen>>
reapVars   == <<rpc, state, revsToReap>>
purgeVars  == <<ppc, toPurge, deletedRevs>>
vars == <<now, backend, torn, latestCache, m, memLatest, writers, retryCache,
          rpc, state, revsToReap, purgeCache, ppc, toPurge, deletedRevs, seen>>

-----------------------------------------------------------------------------
(* The in-memory reader: one revision per object and resource version.     *)

memKey(rev) == <<rev.res, rev.rv>>

(* Mutant of MemSet: a revision of the same version is kept next to it.    *)
MemSetKeepsOld(mem, rev) == mem \cup {rev}

MemSet(mem, rev) == {x \in mem : memKey(x) # memKey(rev)} \cup {rev}

MemDelete(mem, rev) == {x \in mem : memKey(x) # memKey(rev)}

purgeKeyFunc(rev) == Key(rev)

PurgeQueue == INSTANCE RevisionCache WITH keyFunc <- purgeKeyFunc
Reader     == INSTANCE RevisionCache WITH keyFunc <- memKey

Steps == {"save", "latest", "mem", "respond"}

(* Types; m and purgeCache are maps under their keys (inmemory_getter.go:  *)
(* 42, cache.go:57-65); a blob that cannot be read is a blob.              *)
TypeOK ==
    /\ now \in Nat
    /\ backend \subseteq Keys /\ torn \subseteq backend
    /\ latestCache \subseteq Keys
    /\ m \subseteq Events /\ Reader!OnePerKey(m)
    /\ memLatest \subseteq Resources \X Nat
    /\ writers \subseteq [rev : Events, step : Steps]
    /\ retryCache \subseteq Events
    /\ rpc \in {"tick", "judge", "queue"}
    /\ state \subseteq Revisions
    /\ revsToReap \subseteq Revisions
    /\ purgeCache \subseteq Revisions /\ PurgeQueue!OnePerKey(purgeCache)
    /\ ppc \in {"tick", "remove", "evict", "forget"}
    /\ toPurge \subseteq Revisions
    /\ deletedRevs \subseteq Revisions
    /\ seen \subseteq Events

Init ==
    /\ now = 0
    /\ backend = {} /\ torn = {}
    /\ latestCache = {} /\ m = {} /\ memLatest = {}
    /\ writers = {} /\ retryCache = {} /\ seen = {}
    /\ rpc = "tick" /\ state = {} /\ revsToReap = {}
    /\ purgeCache = {}
    /\ ppc = "tick" /\ toPurge = {} /\ deletedRevs = {}

Tick ==
    /\ now < MaxNow
    /\ now' = now + 1
    /\ UNCHANGED <<storeVars, writeVars, reapVars, purgeCache, purgeVars>>

-----------------------------------------------------------------------------
(* Writing: Update and Delete of readwriteNamespaceStore.                  *)

(* A flush cycle writes rev, for the first time or as a retry.             *)
StartWrite(rev) ==
    /\ rev.ts <= now
    /\ \A w \in writers : w.rev # rev
    /\ rev \in seen => rev \in retryCache
    /\ writers' = writers \cup {[rev |-> rev, step |-> "save"]}
    /\ UNCHANGED <<now, storeVars, retryCache, seen, reapVars, purgeCache,
                   purgeVars>>

Advance(w, step) == writers' = (writers \ {w}) \cup {[w EXCEPT !.step = step]}

(* The rest of the call after save: Delete leaves latestCache alone, and   *)
(* only ReadWriteStore goes on to the in-memory reader.                    *)
AfterLatest   == IF EnableCache THEN "mem" ELSE "respond"
AfterSave(w)  == IF w.rev.deleted THEN AfterLatest ELSE "latest"

SaveOK(w) ==
    /\ w.step = "save"
    /\ backend' = backend \cup {Key(w.rev)}
    /\ torn' = torn \ {Key(w.rev)}
    /\ Advance(w, AfterSave(w))
    /\ UNCHANGED <<now, latestCache, m, memLatest, retryCache, seen,
                   reapVars, purgeCache, purgeVars>>

(* Mutant of SaveErr: the error is logged and the call goes on.            *)
SaveErrIgnored(w) ==
    /\ w.step = "save"
    /\ "create" \in Faults
    /\ Advance(w, AfterSave(w))
    /\ UNCHANGED <<now, storeVars, retryCache, seen, reapVars, purgeCache,
                   purgeVars>>

(* Create fails: nothing is written and the flusher will retry.            *)
SaveErr(w) ==
    /\ w.step = "save"
    /\ "create" \in Faults
    /\ writers' = writers \ {w}
    /\ retryCache' = retryCache \cup {w.rev}
    /\ UNCHANGED <<now, storeVars, seen, reapVars, purgeCache, purgeVars>>

(* write fails: the caller gets the error, but the deferred Close has left *)
(* an empty or partial blob under the key.                                 *)
SaveTorn(w) ==
    /\ w.step = "save"
    /\ "write" \in Faults
    /\ backend' = backend \cup {Key(w.rev)}
    /\ torn' = torn \cup {Key(w.rev)}
    /\ writers' = writers \ {w}
    /\ retryCache' = retryCache \cup {w.rev}
    /\ UNCHANGED <<now, latestCache, m, memLatest, seen, reapVars, purgeCache,
                   purgeVars>>

(* The deferred Close fails: nothing is stored, save returns nil.          *)
SaveLost(w) ==
    /\ w.step = "save"
    /\ "close" \in Faults
    /\ Advance(w, AfterSave(w))
    /\ UNCHANGED <<now, storeVars, retryCache, seen, reapVars, purgeCache,
                   purgeVars>>

SetLatest(w) ==
    /\ w.step = "latest"
    /\ latestCache' = {k \in latestCache : k.res # w.rev.res}
                          \cup {Key(w.rev)}
    /\ Advance(w, AfterLatest)
    /\ UNCHANGED <<now, backend, torn, m, memLatest, retryCache, seen,
                   reapVars, purgeCache, purgeVars>>

(* reader.Update or reader.Delete, after which the call returns.           *)
SetMem(w) ==
    /\ w.step = "mem"
    /\ m' = MemSet(m, w.rev)
    /\ memLatest' = {x \in memLatest : x[1] # w.rev.res} \cup {memKey(w.rev)}
    /\ writers' = writers \ {w}
    /\ seen' = seen \cup {w.rev}
    /\ UNCHANGED <<now, backend, torn, latestCache, retryCache, reapVars,
                   purgeCache, purgeVars>>

(* Without --enable-cache the call returns at once.                        *)
Respond(w) ==
    /\ w.step = "respond"
    /\ writers' = writers \ {w}
    /\ seen' = seen \cup {w.rev}
    /\ UNCHANGED <<now, storeVars, retryCache, reapVars, purgeCache, purgeVars>>

-----------------------------------------------------------------------------
(* Reaping.                                                                *)

(* State of all revisions: the in-memory reader sorts them by resource     *)
(* version, RevisionStore returns them in the order of the walk.           *)
Stored == IF EnableCache THEN m
          ELSE {ParseLazyLoadingRevision(k) : k \in backend}

Before(x, y) == IF EnableCache THEN x.rv < y.rv
                ELSE WalkBefore(Key(x), Key(y))

IsLast(rev, revs) ==
    \A x \in revs : x.res = rev.res /\ x # rev => ~Before(rev, x)

(* Mutant of MayReap: the last revision is no exception.                   *)
MayReapLast(rev, revs) == rev.res \in Ruled

(* "never purge the last revision of an object unless it's deleted", and   *)
(* nothing without a rule.                                                 *)
MayReap(rev, revs) ==
    /\ ~(IsLast(rev, revs) /\ ~rev.deleted)
    /\ rev.res \in Ruled

(* A reap cycle starts.  The walk of a bucket is taken as one instant.     *)
ReapState ==
    /\ rpc = "tick"
    /\ rpc' = "judge"
    /\ state' = {rev \in Stored : MayReap(rev, Stored)}
    /\ revsToReap' = {}
    /\ UNCHANGED <<now, storeVars, writeVars, purgeCache, purgeVars>>

(* time.Now() is read again for every revision.                            *)
ReapJudge(rev) ==
    /\ rpc = "judge"
    /\ rev \in state
    /\ state' = state \ {rev}
    /\ revsToReap' = IF now - PurgeOlderThan > rev.ts
                     THEN revsToReap \cup {rev} ELSE revsToReap
    /\ UNCHANGED <<now, storeVars, writeVars, rpc, purgeCache, purgeVars>>

ReapJudged ==
    /\ rpc = "judge"
    /\ state = {}
    /\ rpc' = "queue"
    /\ UNCHANGED <<now, storeVars, writeVars, state, revsToReap, purgeCache,
                   purgeVars>>

ReapQueue(rev) ==
    /\ rpc = "queue"
    /\ rev \in revsToReap
    /\ purgeCache' = PurgeQueue!Cache(purgeCache, rev)
    /\ revsToReap' = revsToReap \ {rev}
    /\ UNCHANGED <<now, storeVars, writeVars, rpc, state, purgeVars>>

ReapDone ==
    /\ rpc = "queue"
    /\ revsToReap = {}
    /\ rpc' = "tick"
    /\ UNCHANGED <<now, storeVars, writeVars, state, revsToReap, purgeCache,
                   purgeVars>>

-----------------------------------------------------------------------------
(* Purging.                                                                *)

StartPurge ==
    /\ ppc = "tick"
    /\ purgeCache # {}
    /\ ppc' = "remove"
    /\ toPurge' = PurgeQueue!SafeCopy(purgeCache)
    /\ deletedRevs' = {}
    /\ UNCHANGED <<now, storeVars, writeVars, reapVars, purgeCache>>

(* Mutant of RemoveKeys: the whole directory of the object goes.           *)
RemoveDirectory(rev) == {k \in backend : k.res = rev.res}

RemoveKeys(rev) == {Key(rev)}

(* The backend removes the key and says so.  Only S3 also says so when     *)
(* there is no such key.                                                   *)
RemoveOK(rev) ==
    /\ ppc = "remove"
    /\ rev \in toPurge
    /\ Bulk \/ Key(rev) \in backend
    /\ backend' = backend \ RemoveKeys(rev)
    /\ torn' = torn \ RemoveKeys(rev)
    /\ toPurge' = toPurge \ {rev}
    /\ deletedRevs' = deletedRevs \cup {ParseLazyLoadingRevision(Key(rev))}
    /\ UNCHANGED <<now, latestCache, m, memLatest, writeVars, reapVars,
                   purgeCache, ppc>>

(* Removing the key fails, or the answer does not report it.               *)
RemoveErr(rev) ==
    /\ ppc = "remove"
    /\ rev \in toPurge
    /\ toPurge' = toPurge \ {rev}
    /\ UNCHANGED <<now, storeVars, writeVars, reapVars, purgeCache, ppc,
                   deletedRevs>>

(* A bulk removal is carried out but not reported: the answer is lost, or  *)
(* a later chunk has no answer and the report of all chunks is dropped.    *)
RemoveUnreported(rev) ==
    /\ ppc = "remove"
    /\ rev \in toPurge
    /\ Bulk
    /\ backend' = backend \ {Key(rev)}
    /\ torn' = torn \ {Key(rev)}
    /\ toPurge' = toPurge \ {rev}
    /\ UNCHANGED <<now, latestCache, m, memLatest, writeVars, reapVars,
                   purgeCache, ppc, deletedRevs>>

(* Mutant of Removed: the reader forgets all the purger asked for.         *)
RemovedAll ==
    /\ ppc = "remove"
    /\ toPurge = {}
    /\ ppc' = IF EnableCache THEN "evict" ELSE "forget"
    /\ toPurge' = purgeCache
    /\ deletedRevs' = purgeCache
    /\ UNCHANGED <<now, storeVars, writeVars, reapVars, purgeCache>>

(* PurgeRevisions of the in-memory reader gets what the backend reported.  *)
Removed ==
    /\ ppc = "remove"
    /\ toPurge = {}
    /\ ppc' = IF EnableCache THEN "evict" ELSE "forget"
    /\ toPurge' = deletedRevs
    /\ UNCHANGED <<now, storeVars, writeVars, reapVars, purgeCache,
                   deletedRevs>>

Evict(rev) ==
    /\ ppc = "evict"
    /\ rev \in toPurge
    /\ m' = MemDelete(m, rev)
    /\ toPurge' = toPurge \ {rev}
    /\ UNCHANGED <<now, backend, torn, latestCache, memLatest, writeVars,
                   reapVars, purgeCache, ppc, deletedRevs>>

Evicted ==
    /\ ppc = "evict"
    /\ toPurge = {}
    /\ ppc' = "forget"
    /\ toPurge' = deletedRevs
    /\ UNCHANGED <<now, storeVars, writeVars, reapVars, purgeCache,
                   deletedRevs>>

(* p.c.Delete for every revision that was removed; the others stay queued. *)
Forget(rev) ==
    /\ ppc = "forget"
    /\ rev \in toPurge
    /\ purgeCache' = PurgeQueue!Delete(purgeCache, rev)
    /\ toPurge' = toPurge \ {rev}
    /\ UNCHANGED <<now, storeVars, writeVars, reapVars, ppc, deletedRevs>>

PurgeDone ==
    /\ ppc = "forget"
    /\ toPurge = {}
    /\ ppc' = "tick"
    /\ deletedRevs' = {}
    /\ UNCHANGED <<now, storeVars, writeVars, reapVars, purgeCache, toPurge>>

Next ==
    \/ Tick
    \/ \E rev \in Events : StartWrite(rev)
    \/ \E w \in writers :
          \/ SaveOK(w)
          \/ SaveErr(w)
          \/ SaveTorn(w)
          \/ SaveLost(w)
          \/ SetLatest(w)
          \/ SetMem(w)
          \/ Respond(w)
    \/ ReapState
    \/ \E rev \in state : ReapJudge(rev)
    \/ ReapJudged
    \/ \E rev \in revsToReap : ReapQueue(rev)
    \/ ReapDone
    \/ StartPurge
    \/ \E rev \in toPurge :
          \/ RemoveOK(rev)
          \/ RemoveErr(rev)
          \/ RemoveUnreported(rev)
          \/ Evict(rev)
          \/ Forget(rev)
    \/ Removed
    \/ Evicted
    \/ PurgeDone

Spec == Init /\ [][Next]_vars

(* Calls of the store return, the tickers of the reaper and the purger     *)
(* tick, the retry loop writes what is in its cache, and neither saving    *)
(* nor removing fails for ever.                                            *)
WriterStep(rev) ==
    \E w \in writers : w.rev = rev /\ (SaveOK(w) \/ SaveErr(w)
                                       \/ SetLatest(w) \/ SetMem(w) \/ Respond(w))

SaveSucceeds(rev) == \E w \in writers : w.rev = rev /\ SaveOK(w)

ReaperStep ==
    \/ ReapState \/ ReapJudged \/ ReapDone
    \/ \E rev \in state : ReapJudge(rev)
    \/ \E rev \in revsToReap : ReapQueue(rev)

PurgerStep ==
    \/ StartPurge \/ Removed \/ Evicted \/ PurgeDone
    \/ \E rev \in toPurge : RemoveOK(rev) \/ RemoveErr(rev) \/ Evict(rev)
                            \/ Forget(rev)

RemoveSucceeds(rev) == \E x \in toPurge : Key(x) = Key(rev) /\ RemoveOK(x)

Fairness ==
    /\ WF_vars(Tick)
    /\ WF_vars(ReaperStep)
    /\ WF_vars(PurgerStep)
    /\ \A rev \in Events :
          /\ WF_vars(WriterStep(rev))
          /\ SF_vars(SaveSucceeds(rev))
          /\ SF_vars(RemoveSucceeds(rev))
          /\ WF_vars(rev \in retryCache /\ StartWrite(rev))

FairSpec == Spec /\ Fairness

-----------------------------------------------------------------------------

(* The store implements the archive: what is archived are the blobs that   *)
(* can be read back.                                                       *)
A == INSTANCE Archive WITH archive <- backend \ torn

(* Every step of writers, reaper and purger is one that the archive        *)
(* allows: nothing is acknowledged before it is stored and nothing is      *)
(* removed but tombstones and superseded revisions (storage.go:415-429,    *)
(* readwrite.go:74-81, 112-126, reaper.go:81-98).                          *)
ArchiveSpec == A!Spec

(* The newest acknowledged revision of an object that was not deleted can  *)
(* be read back (reaper.go:85).                                            *)
NewestSurvives == A!NewestSurvives

(* A tombstone of the object was written, is being written or is going to  *)
(* be written again.                                                       *)
ObjectDeleted(res) ==
    \E r \in seen \cup {w.rev : w \in writers} \cup retryCache :
        r.res = res /\ r.deleted

(* What the reaper has picked and the purger has not tried to remove yet.  *)
Planned ==
    state \cup revsToReap \cup purgeCache
        \cup (IF ppc = "remove" THEN toPurge ELSE {})

(* However late the purger gets to it, what is to be removed is followed   *)
(* by a blob of the object, one that can be read back or is going to be    *)
(* written again, unless the object was deleted (reaper.go:81-110,         *)
(* purger.go:73-93, storage.go:331-365).                                   *)
PurgePlanJustified ==
    \A r \in Planned :
        \/ ObjectDeleted(r.res)
        \/ \E k \in backend :
              /\ k.res = r.res
              /\ Before(r, ParseLazyLoadingRevision(k))
              /\ k \in torn => \E q \in retryCache : Key(q) = k

(* A removal leaves an object that was not deleted with a revision that    *)
(* can be read back (reaper.go:85, purger.go:87).                          *)
PurgeKeepsOne ==
    [][\A k \in backend \ backend' :
           \/ ObjectDeleted(k.res)
           \/ \E k2 \in backend' \ torn' : k2.res = k.res]_vars

(* r is not the last revision, or the object was deleted.                  *)
Outlived(r) == \E q \in seen : /\ q.res = r.res
                               /\ q.rv > r.rv \/ (q.rv = r.rv /\ q.deleted)

(* The blob of an outlived revision older than the rule of its object      *)
(* allows is removed (watch.go:71, "reap process to delete old revisions").*)
ExpiredIsPurged ==
    \A r \in Events :
        /\ r.res \in Ruled
        /\ Key(r) \in backend
        /\ Outlived(r)
        /\ now - PurgeOlderThan > r.ts
        ~> Key(r) \notin backend
=============================================================================
