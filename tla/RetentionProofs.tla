--------------------------- MODULE RetentionProofs ---------------------------
(***************************************************************************)
(* Proofs about Retention, for every set of revisions, every policy, every *)
(* backend and every fault of saving that a theorem does not exclude.      *)
(***************************************************************************)
EXTENDS Retention, NaturalFacts

-----------------------------------------------------------------------------
(* Keys and the revisions read back from them.                             *)

(* The key of a revision is a key, and the revision read back from it is   *)
(* of the same object, version and deletion mark (revision.go:176-242,     *)
(* 296-305).                                                               *)
LEMMA KeyType == ASSUME NEW rev \in Revisions PROVE Key(rev) \in Keys
<1>1. rev.ts \in Int /\ TicksPerSecond \in Nat \ {0}
  BY TicksAssumption DEF Revisions
<1>2. rev.ts \div TicksPerSecond \in Int
  BY <1>1
<1> QED BY <1>2 DEF Key, Keys, Unix, ResourceKey, Revisions

LEMMA ParseType ==
    ASSUME NEW key \in Keys
    PROVE  ParseLazyLoadingRevision(key) \in Revisions
<1>1. key.sec \in Int /\ TicksPerSecond \in Int
  BY TicksAssumption DEF Keys
<1>2. key.sec * TicksPerSecond \in Int
  BY <1>1
<1> QED BY <1>2 DEF ParseLazyLoadingRevision, Keys, Revisions

LEMMA ParseOfKey ==
    ASSUME NEW rev \in Revisions
    PROVE  /\ ParseLazyLoadingRevision(Key(rev)).res = rev.res
           /\ ParseLazyLoadingRevision(Key(rev)).rv = rev.rv
           /\ ParseLazyLoadingRevision(Key(rev)).deleted = rev.deleted
BY DEF ParseLazyLoadingRevision, Key, ResourceKey

LEMMA SameKey ==
    ASSUME NEW x \in Revisions, NEW y \in Revisions, Key(x) = Key(y)
    PROVE  x.res = y.res /\ x.rv = y.rv /\ x.deleted = y.deleted
BY DEF Key, ResourceKey

(* Cache into the purger's queue keeps it a map of revisions.              *)
LEMMA PurgeCacheType ==
    ASSUME NEW q \in SUBSET Revisions, NEW rev \in Revisions,
           PurgeQueue!OnePerKey(q)
    PROVE  /\ PurgeQueue!Cache(q, rev) \in SUBSET (q \cup {rev})
           /\ PurgeQueue!OnePerKey(PurgeQueue!Cache(q, rev))
BY DEF PurgeQueue!Cache, PurgeQueue!OnePerKey

(* Set of the in-memory reader keeps one revision per version.             *)
LEMMA MemSetType ==
    ASSUME NEW mem \in SUBSET Events, NEW rev \in Events,
           Reader!OnePerKey(mem)
    PROVE  /\ MemSet(mem, rev) \in SUBSET (mem \cup {rev})
           /\ Reader!OnePerKey(MemSet(mem, rev))
BY DEF MemSet, Reader!OnePerKey

-----------------------------------------------------------------------------
(* Type correctness.                                                       *)

LEMMA TypeInit == Init => TypeOK
BY MaxNowAssumption DEF Init, TypeOK, PurgeQueue!OnePerKey, Reader!OnePerKey

LEMMA AdvanceType ==
    ASSUME TypeOK, NEW w \in writers, NEW s \in Steps, Advance(w, s)
    PROVE  writers' \subseteq [rev : Events, step : Steps]
BY DEF TypeOK, Advance

LEMMA TypeNext == TypeOK /\ [Next]_vars => TypeOK'
<1> SUFFICES ASSUME TypeOK, [Next]_vars PROVE TypeOK'
  OBVIOUS
<1> USE EventsAssumption
<1>1. CASE Tick
  BY <1>1 DEF TypeOK, Tick, storeVars, writeVars, reapVars, purgeVars
<1>2. ASSUME NEW rev \in Events, StartWrite(rev) PROVE TypeOK'
  <2>1. [rev |-> rev, step |-> "save"] \in [rev : Events, step : Steps]
    BY DEF Steps
  <2> QED
    BY <1>2, <2>1 DEF TypeOK, StartWrite, storeVars, reapVars, purgeVars
<1>3. ASSUME NEW w \in writers
      PROVE  /\ w.rev \in Events /\ w.rev \in Revisions /\ Key(w.rev) \in Keys
             /\ AfterSave(w) \in Steps /\ AfterLatest \in Steps
  BY KeyType DEF TypeOK, AfterSave, AfterLatest, Steps
<1>4. ASSUME NEW w \in writers, SaveOK(w) PROVE TypeOK'
  <2>1. writers' \subseteq [rev : Events, step : Steps]
    BY <1>3, <1>4, AdvanceType DEF SaveOK
  <2> QED
    BY <1>3, <1>4, <2>1 DEF TypeOK, SaveOK, reapVars, purgeVars
<1>5. ASSUME NEW w \in writers, SaveErr(w) \/ SaveTorn(w) PROVE TypeOK'
  BY <1>3, <1>5
  DEF TypeOK, SaveErr, SaveTorn, storeVars, reapVars, purgeVars
<1>6. ASSUME NEW w \in writers, SaveLost(w) PROVE TypeOK'
  <2>1. writers' \subseteq [rev : Events, step : Steps]
    BY <1>3, <1>6, AdvanceType DEF SaveLost
  <2> QED
    BY <1>6, <2>1 DEF TypeOK, SaveLost, storeVars, reapVars, purgeVars
<1>7. ASSUME NEW w \in writers, SetLatest(w) PROVE TypeOK'
  <2>1. writers' \subseteq [rev : Events, step : Steps]
    BY <1>3, <1>7, AdvanceType DEF SetLatest
  <2> QED
    BY <1>3, <1>7, <2>1 DEF TypeOK, SetLatest, reapVars, purgeVars
<1>8. ASSUME NEW w \in writers, SetMem(w) PROVE TypeOK'
  <2>1. m' \subseteq Events /\ Reader!OnePerKey(m')
    BY <1>3, <1>8, MemSetType DEF TypeOK, SetMem
  <2>2. Reader!OnePerKey(m)'
    BY <2>1 DEF Reader!OnePerKey
  <2>3. memKey(w.rev) \in Resources \X Nat
    BY <1>3 DEF memKey, Revisions
  <2> QED
    BY <1>3, <1>8, <2>1, <2>2, <2>3 DEF TypeOK, SetMem, reapVars, purgeVars
<1>9. ASSUME NEW w \in writers, Respond(w) PROVE TypeOK'
  BY <1>3, <1>9 DEF TypeOK, Respond, storeVars, reapVars, purgeVars
<1>10. CASE ReapState
  <2>1. Stored \subseteq Revisions
    BY ParseType DEF Stored, TypeOK
  <2> QED
    BY <1>10, <2>1
    DEF TypeOK, ReapState, storeVars, writeVars, purgeVars
<1>11. ASSUME NEW rev \in state, ReapJudge(rev) PROVE TypeOK'
  BY <1>11 DEF TypeOK, ReapJudge, storeVars, writeVars, purgeVars
<1>12. CASE ReapJudged \/ ReapDone
  BY <1>12 DEF TypeOK, ReapJudged, ReapDone, storeVars, writeVars, purgeVars
<1>13. ASSUME NEW rev \in revsToReap, ReapQueue(rev) PROVE TypeOK'
  <2>1. purgeCache' \subseteq Revisions /\ PurgeQueue!OnePerKey(purgeCache')
    BY <1>13, PurgeCacheType DEF TypeOK, ReapQueue
  <2>2. PurgeQueue!OnePerKey(purgeCache)'
    BY <2>1 DEF PurgeQueue!OnePerKey
  <2> QED
    BY <1>13, <2>1, <2>2
    DEF TypeOK, ReapQueue, storeVars, writeVars, purgeVars
<1>14. CASE StartPurge
  BY <1>14 DEF TypeOK, StartPurge, PurgeQueue!SafeCopy, storeVars,
    writeVars, reapVars
<1>15. ASSUME NEW rev \in toPurge, RemoveOK(rev) \/ RemoveUnreported(rev)
       PROVE  TypeOK'
  <2>1. ParseLazyLoadingRevision(Key(rev)) \in Revisions
    BY KeyType, ParseType DEF TypeOK
  <2> QED
    BY <1>15, <2>1
    DEF TypeOK, RemoveOK, RemoveUnreported, writeVars, reapVars
<1>16. ASSUME NEW rev \in toPurge, RemoveErr(rev) PROVE TypeOK'
  BY <1>16 DEF TypeOK, RemoveErr, storeVars, writeVars, reapVars
<1>17. CASE Removed \/ Evicted \/ PurgeDone
  BY <1>17
  DEF TypeOK, Removed, Evicted, PurgeDone, storeVars, writeVars, reapVars
<1>18. ASSUME NEW rev \in toPurge, Evict(rev) PROVE TypeOK'
  <2>1. m' \subseteq m
    BY <1>18 DEF Evict, MemDelete
  <2> QED
    BY <1>18, <2>1 DEF TypeOK, Evict, Reader!OnePerKey, writeVars, reapVars
<1>19. ASSUME NEW rev \in toPurge, Forget(rev) PROVE TypeOK'
  <2>1. purgeCache' \subseteq purgeCache
    BY <1>19 DEF Forget, PurgeQueue!Delete
  <2> QED
    BY <1>19, <2>1
    DEF TypeOK, Forget, PurgeQueue!OnePerKey, storeVars, writeVars, reapVars
<1>20. CASE UNCHANGED vars
  BY <1>20 DEF TypeOK, vars
<1> QED
  BY <1>1, <1>2, <1>4, <1>5, <1>6, <1>7, <1>8, <1>9, <1>10, <1>11, <1>12,
     <1>13, <1>14, <1>15, <1>16, <1>17, <1>18, <1>19, <1>20 DEF Next

(* Every reachable state is well typed, and the in-memory reader and the   *)
(* purger's queue stay maps.                                               *)
THEOREM TypeCorrect == Spec => []TypeOK
BY TypeInit, TypeNext, PTL DEF Spec

-----------------------------------------------------------------------------
(* What is to be purged is dispensable by what was acknowledged.           *)

(* The in-memory reader only knows acknowledged revisions, and so does the *)
(* reaper: all it picks are tombstones and revisions with a newer          *)
(* acknowledged one.  The purger also holds revisions read back from       *)
(* removed keys.                                                           *)
PlanInv ==
    /\ m \subseteq seen
    /\ \A r \in state \cup revsToReap \cup purgeCache \cup toPurge :
          A!Expendable(r)
    /\ \A r \in deletedRevs : A!Expendable(r)

(* Acknowledging more revisions makes none less dispensable.               *)
LEMMA ExpendableStays ==
    ASSUME NEW r, A!Expendable(r), seen \subseteq seen'
    PROVE  A!Expendable(r)'
BY DEF A!Expendable

(* A step that adds nothing to the plans keeps them justified.             *)
LEMMA SmallerPlan ==
    ASSUME PlanInv, seen \subseteq seen', m' \subseteq seen',
           deletedRevs' \subseteq deletedRevs,
           (state \cup revsToReap \cup purgeCache \cup toPurge)'
               \subseteq state \cup revsToReap \cup purgeCache \cup toPurge
                         \cup deletedRevs
    PROVE  PlanInv'
BY ExpendableStays DEF PlanInv

LEMMA PlanInit == Init => PlanInv
BY DEF Init, PlanInv

LEMMA PlanNext ==
    ASSUME EnableCache = TRUE
    PROVE  TypeOK /\ PlanInv /\ [Next]_vars => PlanInv'
<1> SUFFICES ASSUME TypeOK, PlanInv, [Next]_vars PROVE PlanInv'
  OBVIOUS
<1> USE EventsAssumption
<1>0. m \subseteq seen
  BY DEF PlanInv
<1>1. CASE Tick
  BY <1>0, <1>1, SmallerPlan
  DEF Tick, storeVars, writeVars, reapVars, purgeVars
<1>2. ASSUME NEW rev \in Events, StartWrite(rev) PROVE PlanInv'
  BY <1>0, <1>2, SmallerPlan DEF StartWrite, storeVars, reapVars, purgeVars
<1>3. ASSUME NEW w \in writers,
             SaveOK(w) \/ SaveErr(w) \/ SaveTorn(w) \/ SaveLost(w)
                       \/ SetLatest(w)
      PROVE  PlanInv'
  BY <1>0, <1>3, SmallerPlan
  DEF SaveOK, SaveErr, SaveTorn, SaveLost, SetLatest, storeVars, reapVars,
      purgeVars
<1>4. ASSUME NEW w \in writers, SetMem(w) PROVE PlanInv'
  BY <1>0, <1>4, SmallerPlan DEF SetMem, MemSet, reapVars, purgeVars
<1>5. ASSUME NEW w \in writers, Respond(w) PROVE PlanInv'
  BY <1>0, <1>5, SmallerPlan DEF Respond, storeVars, reapVars, purgeVars
<1>6. CASE ReapState
  <2>1. ASSUME NEW r \in state' PROVE A!Expendable(r)
    <3>1. r \in m /\ ~(IsLast(r, m) /\ ~r.deleted)
      BY <1>6, <2>1 DEF ReapState, Stored, MayReap
    <3>2. CASE r.deleted
      BY <3>2 DEF A!Expendable
    <3>3. CASE ~IsLast(r, m)
      <4>1. PICK q \in m : q.res = r.res /\ r.rv < q.rv
        BY <3>3 DEF IsLast, Before
      <4>2. q \in seen /\ q.rv \in Nat /\ r.rv \in Nat
        BY <1>0, <3>1, <4>1 DEF TypeOK, Revisions
      <4> QED BY <4>1, <4>2 DEF A!Expendable
    <3> QED BY <3>1, <3>2, <3>3
  <2>2. UNCHANGED <<m, seen, deletedRevs, purgeCache, toPurge>>
    BY <1>6 DEF ReapState, storeVars, writeVars, purgeVars
  <2>3. revsToReap' = {}
    BY <1>6 DEF ReapState
  <2> QED
    BY <2>1, <2>2, <2>3, ExpendableStays DEF PlanInv
<1>7. ASSUME NEW rev \in state, ReapJudge(rev) PROVE PlanInv'
  BY <1>0, <1>7, SmallerPlan DEF ReapJudge, storeVars, writeVars, purgeVars
<1>8. CASE ReapJudged \/ ReapDone
  BY <1>0, <1>8, SmallerPlan
  DEF ReapJudged, ReapDone, storeVars, writeVars, purgeVars
<1>9. ASSUME NEW rev \in revsToReap, ReapQueue(rev) PROVE PlanInv'
  <2>1. purgeCache' \subseteq purgeCache \cup {rev}
    BY <1>9, PurgeCacheType DEF TypeOK, ReapQueue
  <2> QED
    BY <1>0, <1>9, <2>1, SmallerPlan
    DEF ReapQueue, storeVars, writeVars, purgeVars
<1>10. CASE StartPurge
  BY <1>0, <1>10, SmallerPlan
  DEF StartPurge, PurgeQueue!SafeCopy, storeVars, writeVars, reapVars
<1>11. ASSUME NEW rev \in toPurge, RemoveOK(rev) PROVE PlanInv'
  <2> DEFINE p == ParseLazyLoadingRevision(Key(rev))
  <2>1. A!Expendable(rev) /\ rev \in Revisions
    BY DEF PlanInv, TypeOK
  <2>2. p.res = rev.res /\ p.rv = rev.rv /\ p.deleted = rev.deleted
    BY <2>1, ParseOfKey
  <2> HIDE DEF p
  <2>3. A!Expendable(p)
    BY <2>1, <2>2 DEF A!Expendable
  <2>4. deletedRevs' = deletedRevs \cup {p} /\ toPurge' \subseteq toPurge
        /\ UNCHANGED <<m, seen, state, revsToReap, purgeCache>>
    BY <1>11 DEF RemoveOK, p, writeVars, reapVars
  <2> QED
    BY <2>3, <2>4, ExpendableStays DEF PlanInv
<1>12. ASSUME NEW rev \in toPurge, RemoveErr(rev) \/ RemoveUnreported(rev)
       PROVE  PlanInv'
  BY <1>0, <1>12, SmallerPlan
  DEF RemoveErr, RemoveUnreported, storeVars, writeVars, reapVars
<1>13. CASE Removed \/ Evicted \/ PurgeDone
  BY <1>0, <1>13, SmallerPlan
  DEF Removed, Evicted, PurgeDone, storeVars, writeVars, reapVars
<1>14. ASSUME NEW rev \in toPurge, Evict(rev) PROVE PlanInv'
  BY <1>0, <1>14, SmallerPlan DEF Evict, MemDelete, writeVars, reapVars
<1>15. ASSUME NEW rev \in toPurge, Forget(rev) PROVE PlanInv'
  BY <1>0, <1>15, SmallerPlan
  DEF Forget, PurgeQueue!Delete, storeVars, writeVars, reapVars
<1>16. CASE UNCHANGED vars
  BY <1>0, <1>16, SmallerPlan DEF vars
<1> QED
  BY <1>1, <1>2, <1>3, <1>4, <1>5, <1>6, <1>7, <1>8, <1>9, <1>10, <1>11,
     <1>12, <1>13, <1>14, <1>15, <1>16 DEF Next

-----------------------------------------------------------------------------
(* The store implements the archive.                                       *)

(* No blob is torn, and a call that is past save has its blob stored,      *)
(* unless the revision became dispensable and was purged meanwhile.        *)
SavedInv ==
    /\ torn = {}
    /\ \A w \in writers : w.step # "save" =>
          Key(w.rev) \in backend \/ A!Expendable(w.rev)

(* No write is reported as done that did not reach the backend whole.      *)
SavesAreHonest == EnableCache = TRUE /\ Faults \subseteq {"create"}

LEMMA SavedInit == Init => SavedInv
BY DEF Init, SavedInv

LEMMA AdvanceWriters ==
    ASSUME TypeOK, NEW w \in writers, NEW s \in Steps, Advance(w, s),
           NEW v \in writers'
    PROVE  v \in writers \/ (v.rev = w.rev /\ v.step = s)
BY DEF TypeOK, Advance

(* Removing the key of a dispensable revision leaves alone the keys of all *)
(* others.                                                                 *)
LEMMA OtherKeysStay ==
    ASSUME NEW r \in Revisions, NEW x \in Revisions, A!Expendable(x),
           Key(r) \in backend, ~A!Expendable(r),
           backend' = backend \ {Key(x)}
    PROVE  Key(r) \in backend'
<1>1. ASSUME Key(r) = Key(x) PROVE FALSE
  <2>1. r.res = x.res /\ r.rv = x.rv /\ r.deleted = x.deleted
    BY <1>1, SameKey
  <2> QED BY <2>1 DEF A!Expendable
<1> QED BY <1>1

LEMMA SavedNext ==
    ASSUME SavesAreHonest
    PROVE  TypeOK /\ PlanInv /\ SavedInv /\ [Next]_vars => SavedInv'
<1> SUFFICES ASSUME TypeOK, PlanInv, SavedInv, [Next]_vars PROVE SavedInv'
  OBVIOUS
<1> USE EventsAssumption
<1>1. ASSUME seen \subseteq seen', backend \subseteq backend', torn' = {},
             \A v \in writers' : v \in writers \/ v.step = "save"
                                 \/ Key(v.rev) \in backend'
                                 \/ A!Expendable(v.rev)
      PROVE  SavedInv'
  BY <1>1, ExpendableStays DEF SavedInv
<1>2. CASE Tick
  BY <1>1, <1>2 DEF SavedInv, Tick, storeVars, writeVars
<1>3. ASSUME NEW rev \in Events, StartWrite(rev) PROVE SavedInv'
  BY <1>1, <1>3 DEF SavedInv, StartWrite, storeVars
<1>4. ASSUME NEW w \in writers
      PROVE  w.rev \in Revisions /\ AfterSave(w) \in Steps
             /\ AfterLatest \in Steps
  BY DEF TypeOK, AfterSave, AfterLatest, Steps
<1>5. ASSUME NEW w \in writers, SaveOK(w) PROVE SavedInv'
  <2>1. \A v \in writers' : v \in writers \/ v.rev = w.rev
    BY <1>4, <1>5, AdvanceWriters DEF SaveOK
  <2> QED BY <1>1, <1>5, <2>1 DEF SavedInv, SaveOK
<1>6. ASSUME NEW w \in writers,
             SaveErr(w) \/ SaveTorn(w) \/ SaveLost(w)
      PROVE  SavedInv'
  <2>1. SaveErr(w)
    BY <1>6 DEF SavesAreHonest, SaveTorn, SaveLost
  <2> QED BY <1>1, <2>1 DEF SavedInv, SaveErr, storeVars
<1>7. ASSUME NEW w \in writers, SetLatest(w) PROVE SavedInv'
  <2>1. \A v \in writers' : v \in writers \/ v.rev = w.rev
    BY <1>4, <1>7, AdvanceWriters DEF SetLatest
  <2> QED BY <1>1, <1>7, <2>1 DEF SavedInv, SetLatest
<1>8. ASSUME NEW w \in writers, SetMem(w) \/ Respond(w) PROVE SavedInv'
  BY <1>1, <1>8 DEF SavedInv, SetMem, Respond, storeVars
<1>9. CASE ReapState \/ ReapJudged \/ ReapDone \/ StartPurge \/ Removed
           \/ Evicted \/ PurgeDone
  BY <1>1, <1>9
  DEF SavedInv, ReapState, ReapJudged, ReapDone, StartPurge, Removed, Evicted,
      PurgeDone, storeVars, writeVars
<1>10. ASSUME NEW rev, ReapJudge(rev) \/ ReapQueue(rev) \/ RemoveErr(rev)
                       \/ Evict(rev) \/ Forget(rev)
       PROVE  SavedInv'
  BY <1>1, <1>10
  DEF SavedInv, ReapJudge, ReapQueue, RemoveErr, Evict, Forget, storeVars,
      writeVars
<1>11. ASSUME NEW rev \in toPurge, RemoveOK(rev) \/ RemoveUnreported(rev)
       PROVE  SavedInv'
  <2>1. A!Expendable(rev) /\ rev \in Revisions
    BY DEF PlanInv, TypeOK
  <2>2. backend' = backend \ {Key(rev)} /\ torn' = {}
        /\ UNCHANGED <<writers, seen>>
    BY <1>11 DEF SavedInv, RemoveOK, RemoveUnreported, RemoveKeys, writeVars
  <2>3. ASSUME NEW w \in writers, w.step # "save"
        PROVE  Key(w.rev) \in backend' \/ A!Expendable(w.rev)'
    <3>1. Key(w.rev) \in backend \/ A!Expendable(w.rev)
      BY <2>3 DEF SavedInv
    <3>2. CASE A!Expendable(w.rev)
      BY <2>2, <3>2, ExpendableStays
    <3>3. CASE ~A!Expendable(w.rev)
      BY <1>4, <2>1, <2>2, <3>1, <3>3, OtherKeysStay
    <3> QED BY <3>2, <3>3
  <2> QED BY <2>2, <2>3 DEF SavedInv
<1>12. CASE UNCHANGED vars
  BY <1>1, <1>12 DEF SavedInv, vars
<1> QED
  BY <1>2, <1>3, <1>5, <1>6, <1>7, <1>8, <1>9, <1>10, <1>11, <1>12 DEF Next

(* A step of the store is a step of the archive or none.                   *)
LEMMA StepRefines ==
    ASSUME SavesAreHonest
    PROVE  TypeOK /\ PlanInv /\ SavedInv /\ SavedInv' /\ [Next]_vars
              => [A!Next]_A!vars
<1> SUFFICES ASSUME TypeOK, PlanInv, SavedInv, SavedInv', [Next]_vars
             PROVE  A!Next \/ UNCHANGED <<backend \ torn, seen>>
  BY DEF A!vars
<1> USE EventsAssumption
<1>1. torn = {} /\ torn' = {}
  BY DEF SavedInv
<1>2. ASSUME UNCHANGED <<backend, seen>>
      PROVE  UNCHANGED <<backend \ torn, seen>>
  BY <1>1, <1>2
<1>3. ASSUME NEW w \in writers, SaveOK(w) PROVE A!Next
  <2>1. w.rev \in Events
    BY DEF TypeOK
  <2>2. (backend \ torn)' = (backend \ torn) \cup {Key(w.rev)} /\ seen' = seen
    BY <1>1, <1>3 DEF SaveOK
  <2>3. A!Store(w.rev)
    BY <2>2 DEF A!Store, A!Key, A!ResourceKey, A!Unix, Key, ResourceKey, Unix
  <2> QED BY <2>1, <2>3 DEF A!Next
<1>4. ASSUME NEW w \in writers, SetMem(w) \/ Respond(w) PROVE A!Next
  <2>1. w.rev \in Events
    BY DEF TypeOK
  <2>2. /\ (backend \ torn)' = backend \ torn
        /\ seen' = seen \cup {w.rev}
        /\ Key(w.rev) \in backend \ torn \/ A!Expendable(w.rev)
    BY <1>1, <1>4 DEF SetMem, Respond, storeVars, SavedInv
  <2>3. A!Acknowledge(w.rev)
    BY <2>2
    DEF A!Acknowledge, A!Key, A!ResourceKey, A!Unix, Key, ResourceKey, Unix
  <2> QED BY <2>1, <2>3 DEF A!Next
<1>5. ASSUME NEW rev \in toPurge, RemoveOK(rev) \/ RemoveUnreported(rev)
      PROVE  A!Next \/ UNCHANGED <<backend \ torn, seen>>
  <2>1. A!Expendable(rev) /\ rev \in Revisions
    BY DEF PlanInv, TypeOK
  <2>2. A!Expendable(Key(rev))
    BY <2>1 DEF A!Expendable, Key, ResourceKey
  <2>3. (backend \ torn)' = (backend \ torn) \ {Key(rev)} /\ seen' = seen
    BY <1>1, <1>5 DEF RemoveOK, RemoveUnreported, RemoveKeys, writeVars
  <2>4. CASE Key(rev) \in backend \ torn
    <3>1. A!Purge(Key(rev))
      BY <2>2, <2>3 DEF A!Purge
    <3> QED BY <2>4, <3>1 DEF A!Next
  <2>5. CASE Key(rev) \notin backend \ torn
    BY <2>3, <2>5
  <2> QED BY <2>4, <2>5
<1>6. ASSUME NEW w \in writers,
             SaveErr(w) \/ SaveTorn(w) \/ SaveLost(w) \/ SetLatest(w)
      PROVE  UNCHANGED <<backend, seen>>
  BY <1>6
  DEF SavesAreHonest, SaveErr, SaveTorn, SaveLost, SetLatest, storeVars
<1>7. CASE Tick \/ ReapState \/ ReapJudged \/ ReapDone \/ StartPurge
           \/ Removed \/ Evicted \/ PurgeDone
  BY <1>2, <1>7
  DEF Tick, ReapState, ReapJudged, ReapDone, StartPurge, Removed, Evicted,
      PurgeDone, storeVars, writeVars
<1>8. ASSUME NEW rev, StartWrite(rev) \/ ReapJudge(rev) \/ ReapQueue(rev)
                      \/ RemoveErr(rev) \/ Evict(rev) \/ Forget(rev)
      PROVE  UNCHANGED <<backend, seen>>
  BY <1>8
  DEF StartWrite, ReapJudge, ReapQueue, RemoveErr, Evict, Forget, storeVars,
      writeVars
<1>9. CASE UNCHANGED vars
  BY <1>2, <1>9 DEF vars
<1> QED
  BY <1>2, <1>3, <1>4, <1>5, <1>6, <1>7, <1>8, <1>9 DEF Next

(* With --enable-cache, and if saving either stores the whole blob or      *)
(* reports an error, the store with its caches, retries, stale snapshots   *)
(* and partly failing purges implements the archive.                       *)
THEOREM StoreImplementsArchive ==
    ASSUME SavesAreHonest
    PROVE  Spec => ArchiveSpec
<1>1. Init => A!Init
  BY DEF Init, A!Init
<1>2. EnableCache = TRUE
  BY DEF SavesAreHonest
<1>3. TypeOK /\ PlanInv /\ [Next]_vars => PlanInv'
  BY <1>2, PlanNext
<1>4. TypeOK /\ PlanInv /\ SavedInv /\ [Next]_vars => SavedInv'
  BY SavedNext
<1>5. TypeOK /\ PlanInv /\ SavedInv /\ SavedInv' /\ [Next]_vars
         => [A!Next]_A!vars
  BY StepRefines
<1> QED
  BY <1>1, <1>3, <1>4, <1>5, TypeCorrect, PlanInit, SavedInit, PTL
  DEF Spec, ArchiveSpec, A!Spec

(* No step of the archive loses the newest revision: a key that goes is    *)
(* dispensable, and so is every revision with that key.                    *)
LEMMA ArchiveKeepsNewest ==
    TypeOK /\ NewestSurvives /\ [A!Next]_A!vars => NewestSurvives'
<1> SUFFICES ASSUME TypeOK, NewestSurvives, [A!Next]_A!vars
             PROVE  NewestSurvives'
  OBVIOUS
<1> DEFINE arch == backend \ torn
<1> USE EventsAssumption DEF NewestSurvives, A!NewestSurvives
<1>0. \A r : A!Key(r) = Key(r)
  BY DEF A!Key, A!ResourceKey, A!Unix, Key, ResourceKey, Unix
<1>1. ASSUME NEW r \in Events, A!Store(r) PROVE NewestSurvives'
  BY <1>1, ExpendableStays DEF A!Store
<1>2. ASSUME NEW r \in Events, A!Acknowledge(r) PROVE NewestSurvives'
  <2>1. /\ arch' = arch /\ seen' = seen \cup {r}
        /\ A!Key(r) \in arch \/ A!Expendable(r)
    BY <1>2 DEF A!Acknowledge
  <2>2. \A x \in seen' : A!Expendable(x) \/ A!Key(x) \in arch
    BY <2>1
  <2> QED BY <2>1, <2>2, ExpendableStays
<1>3. ASSUME NEW k \in arch, A!Purge(k) PROVE NewestSurvives'
  <2>1. arch' = arch \ {k} /\ seen' = seen /\ A!Expendable(k)
    BY <1>3 DEF A!Purge
  <2>2. ASSUME NEW r \in seen, ~A!Expendable(r) PROVE A!Key(r) \in arch'
    <3>1. A!Key(r) \in arch
      BY <2>2
    <3>2. A!Key(r) # k
      BY <1>0, <2>1, <2>2 DEF A!Expendable, Key, ResourceKey
    <3> QED BY <2>1, <3>1, <3>2
  <2> QED BY <2>1, <2>2, ExpendableStays
<1>4. CASE UNCHANGED A!vars
  BY <1>4, ExpendableStays DEF A!vars
<1> QED BY <1>1, <1>2, <1>3, <1>4 DEF A!Next

(* "never purge the last revision of an object unless it's deleted": under *)
(* the same conditions the newest acknowledged revision of an object that  *)
(* was not deleted can always be read back.                                *)
THEOREM NewestAlwaysSurvives ==
    ASSUME SavesAreHonest
    PROVE  Spec => []NewestSurvives
<1>1. Init => NewestSurvives
  BY DEF Init, NewestSurvives, A!NewestSurvives
<1>2. Spec => [][A!Next]_A!vars
  BY StoreImplementsArchive, PTL DEF ArchiveSpec, A!Spec
<1> QED BY <1>1, <1>2, ArchiveKeepsNewest, TypeCorrect, PTL DEF Spec

-----------------------------------------------------------------------------
(* A removal leaves something to read, also when the reaper reads the      *)
(* backend.                                                                *)

(* With the reader, no acknowledged blob is missing.                       *)
SavesAreKept == EnableCache => "close" \notin Faults

(* No blob is torn either.                                                 *)
SavesAreWhole == "write" \notin Faults /\ SavesAreKept

(* The revisions that are written: acknowledged or about to be.            *)
Written == seen \cup {w.rev : w \in {v \in writers : v.step # "save"}}

(* A tombstone of the object is among them, or is going to be written      *)
(* again.                                                                  *)
DeletionWritten(res) ==
    \E r \in Written \cup retryCache : r.res = res /\ r.deleted

(* The reaper takes key k to be of a later revision than r.                *)
Later(r, k) == IF EnableCache THEN r.rv < k.rv ELSE WalkBefore(Key(r), k)

Followed(r) ==
    DeletionWritten(r.res) \/ \E k \in backend : k.res = r.res /\ Later(r, k)

Versions == {r.rv : r \in Events}

(* Whatever is to be removed is followed by a key that is in the backend,  *)
(* and not just by a revision that was acknowledged once.  With the reader *)
(* the reaper does not look at the backend, so a revision that was written *)
(* has to be there unless a later one is.                                  *)
KeepInv ==
    /\ \A k \in torn : \E q \in retryCache : Key(q) = k
    /\ "write" \notin Faults => torn = {}
    /\ \A k \in backend : /\ k.rv \in Versions
                          /\ k.deleted => DeletionWritten(k.res)
    /\ \A r \in Planned : r.rv \in Versions /\ Followed(r)
    /\ EnableCache =>
          /\ m \subseteq seen
          /\ \A r \in Written :
                \/ DeletionWritten(r.res)
                \/ \E k \in backend : k.res = r.res /\ k.rv >= r.rv

(* Writing a key back and forth changes nothing (revision.go:296-305).     *)
LEMMA KeyOfParse ==
    ASSUME NEW key \in Keys
    PROVE  Key(ParseLazyLoadingRevision(key)) = key
<1>1. key.sec \in Int /\ TicksPerSecond \in Nat \ {0}
  BY TicksAssumption DEF Keys
<1>2. (key.sec * TicksPerSecond) \div TicksPerSecond = key.sec
  BY <1>1
<1> QED BY <1>2 DEF Key, ParseLazyLoadingRevision, ResourceKey, Unix, Keys

(* The walk goes through the keys of an object in a strict order.          *)
LEMMA WalkOrder ==
    ASSUME NEW j \in Keys, NEW k \in Keys, NEW l \in Keys,
           j.rv \in Versions, k.rv \in Versions, l.rv \in Versions
    PROVE  /\ ~WalkBefore(j, j)
           /\ WalkBefore(j, k) /\ WalkBefore(k, l) => WalkBefore(j, l)
<1>1. /\ ~DecimalBefore(j.rv, j.rv)
      /\ DecimalBefore(j.rv, k.rv) /\ DecimalBefore(k.rv, l.rv)
         => DecimalBefore(j.rv, l.rv)
  BY VersionAssumption, DecimalOrder DEF Versions
<1>2. j.sec \in Int /\ k.sec \in Int /\ l.sec \in Int
  BY DEF Keys
<1> QED BY <1>1, <1>2 DEF WalkBefore

(* What follows the key of x follows all that this key follows.            *)
LEMMA LaterOrder ==
    ASSUME NEW x \in Revisions, x.rv \in Versions,
           NEW k \in Keys, k.rv \in Versions, Later(x, k)
    PROVE  /\ k # Key(x)
           /\ \A r \in Revisions :
                 r.rv \in Versions /\ Later(r, Key(x)) => Later(r, k)
           /\ EnableCache => k.rv > x.rv
<1>1. Key(x) \in Keys /\ Key(x).rv = x.rv
  BY KeyType DEF Key
<1>2. CASE EnableCache
  <2>1. x.rv \in Nat /\ k.rv \in Nat /\ \A r \in Revisions : r.rv \in Nat
    BY DEF Revisions, Keys
  <2> QED BY <1>1, <1>2, <2>1 DEF Later
<1>3. CASE ~EnableCache
  <2>1. WalkBefore(Key(x), k)
    BY <1>3 DEF Later
  <2>2. k # Key(x)
    BY <1>1, <2>1, WalkOrder
  <2>3. ASSUME NEW r \in Revisions, r.rv \in Versions, Later(r, Key(x))
        PROVE  Later(r, k)
    <3>1. Key(r) \in Keys /\ Key(r).rv = r.rv /\ WalkBefore(Key(r), Key(x))
      BY <1>3, <2>3, KeyType DEF Key, Later
    <3>2. WalkBefore(Key(r), k)
      BY <1>1, <2>1, <2>3, <3>1, WalkOrder
    <3> QED BY <1>3, <3>2 DEF Later
  <2> QED BY <1>3, <2>2, <2>3
<1> QED BY <1>2, <1>3

LEMMA KeepInit == Init => KeepInv
BY DEF Init, KeepInv, Planned, Written

(* A call that goes on after save leaves its revision written.             *)
LEMMA AdvanceWritten ==
    ASSUME TypeOK, NEW w \in writers, NEW s \in Steps, s # "save",
           Advance(w, s), seen' = seen
    PROVE  Written' = Written \cup {w.rev}
<1>1. w \in [rev : Events, step : Steps]
  BY DEF TypeOK
<1>2. [w EXCEPT !.step = s].rev = w.rev /\ [w EXCEPT !.step = s].step = s
  BY <1>1
<1>3. Written' \subseteq Written \cup {w.rev}
  BY <1>2 DEF Written, Advance
<1>4. w.rev \in Written'
  BY <1>2 DEF Written, Advance
<1>5. Written \subseteq Written'
  BY <1>2, <1>4 DEF Written, Advance
<1> QED BY <1>3, <1>4, <1>5

LEMMA DeletionStays ==
    ASSUME Written \subseteq Written', retryCache \subseteq retryCache',
           NEW res, DeletionWritten(res)
    PROVE  DeletionWritten(res)'
BY DEF DeletionWritten

(* A step that removes no key and plans nothing new.                       *)
LEMMA GrowKeeps ==
    ASSUME KeepInv, Written \subseteq Written', backend \subseteq backend',
           retryCache \subseteq retryCache', Planned' \subseteq Planned,
           \A k \in torn' \ torn : \E q \in retryCache' : Key(q) = k,
           "write" \notin Faults => torn' = {},
           \A k \in backend' \ backend :
               k.rv \in Versions /\ (k.deleted => DeletionWritten(k.res)'),
           EnableCache => /\ m' \subseteq seen'
                          /\ \A r \in Written' \ Written :
                                \E k \in backend' : k.res = r.res /\ k.rv >= r.rv
    PROVE  KeepInv'
<1>1. \A r \in Planned' : r.rv \in Versions /\ Followed(r)'
  BY DeletionStays DEF KeepInv, Followed, Later
<1>2. \A k \in backend' : k.rv \in Versions
                          /\ (k.deleted => DeletionWritten(k.res)')
  BY DeletionStays DEF KeepInv
<1>3. EnableCache => \A r \in Written' :
          \/ DeletionWritten(r.res)'
          \/ \E k \in backend' : k.res = r.res /\ k.rv >= r.rv
  BY DeletionStays DEF KeepInv
<1>4. \A k \in torn' : \E q \in retryCache' : Key(q) = k
  BY DEF KeepInv
<1> QED BY <1>1, <1>2, <1>3, <1>4 DEF KeepInv

(* Removing the key of a planned revision: whatever it followed is         *)
(* followed by what follows it.                                            *)
LEMMA RemoveKeeps ==
    ASSUME TypeOK, KeepInv, NEW x \in Planned, backend' = backend \ {Key(x)},
           torn' \subseteq torn, UNCHANGED <<writers, retryCache, seen, m>>,
           Planned' \subseteq Planned
    PROVE  /\ KeepInv'
           /\ \/ DeletionWritten(x.res)
              \/ \E k \in backend' : k.res = x.res
<1>1. Planned \subseteq Revisions /\ backend \subseteq Keys
  BY DEF TypeOK, Planned
<1>2. /\ x \in Revisions /\ x.rv \in Versions /\ x.rv \in Nat
      /\ Key(x) \in Keys /\ Key(x).res = x.res /\ Key(x).rv = x.rv
  BY <1>1, KeyType DEF KeepInv, Key, ResourceKey, Revisions
<1>3. \A res : DeletionWritten(res)' <=> DeletionWritten(res)
  BY DEF DeletionWritten, Written
<1>4. \/ DeletionWritten(x.res)
      \/ \E k \in backend' :
            /\ k.res = x.res
            /\ \A r \in Revisions :
                  r.rv \in Versions /\ Later(r, Key(x)) => Later(r, k)
            /\ EnableCache => k.rv > x.rv
  <2>1. ASSUME NEW k \in backend, k.res = x.res, Later(x, k)
        PROVE  /\ k \in backend'
               /\ \A r \in Revisions :
                     r.rv \in Versions /\ Later(r, Key(x)) => Later(r, k)
               /\ EnableCache => k.rv > x.rv
    <3>1. k \in Keys /\ k.rv \in Versions
      BY <1>1 DEF KeepInv
    <3> QED BY <1>2, <2>1, <3>1, LaterOrder
  <2> QED BY <2>1 DEF KeepInv, Followed
<1>5. ASSUME NEW r \in Planned PROVE Followed(r)'
  <2>1. r \in Revisions /\ r.rv \in Versions /\ Followed(r)
    BY <1>1 DEF KeepInv
  <2>2. CASE DeletionWritten(r.res)
    BY <1>3, <2>2 DEF Followed
  <2>3. ASSUME NEW k \in backend, k.res = r.res, Later(r, k)
        PROVE  Followed(r)'
    <3>1. CASE k # Key(x)
      BY <2>3, <3>1 DEF Followed, Later
    <3>2. CASE k = Key(x)
      BY <1>2, <1>3, <1>4, <2>1, <2>3, <3>2 DEF Followed, Later
    <3> QED BY <3>1, <3>2
  <2> QED BY <2>1, <2>2, <2>3 DEF Followed
<1>6. ASSUME EnableCache, NEW r \in Written
      PROVE  \/ DeletionWritten(r.res)
             \/ \E k \in backend' : k.res = r.res /\ k.rv >= r.rv
  <2>1. ASSUME NEW k \in backend, k.res = r.res, k.rv >= r.rv
        PROVE  \/ DeletionWritten(r.res)
               \/ \E l \in backend' : l.res = r.res /\ l.rv >= r.rv
    <3>1. CASE k # Key(x)
      BY <2>1, <3>1
    <3>2. CASE k = Key(x)
      <4>1. r.rv \in Nat
        BY <1>6, EventsAssumption DEF Written, TypeOK, Revisions
      <4>2. \A l \in backend : l.rv \in Nat
        BY <1>1 DEF Keys
      <4> QED BY <1>2, <1>4, <1>6, <2>1, <3>2, <4>1, <4>2
    <3> QED BY <3>1, <3>2
  <2> QED BY <1>6, <2>1 DEF KeepInv
<1>7. Written' = Written
  BY DEF Written
<1>8. KeepInv'
  BY <1>3, <1>5, <1>6, <1>7 DEF KeepInv
<1> QED BY <1>4, <1>8

(* The reaper only plans to remove what something follows.                 *)
LEMMA ReapKeeps ==
    ASSUME TypeOK, KeepInv, ReapState, NEW r \in state'
    PROVE  r.rv \in Versions /\ Followed(r)
<1>1. r \in Stored /\ (r.deleted \/ ~IsLast(r, Stored))
  BY DEF ReapState, MayReap
<1>2. CASE EnableCache
  <2>1. Stored = m /\ m \subseteq seen /\ m \subseteq Events
        /\ seen \subseteq Written
    BY <1>2 DEF Stored, KeepInv, TypeOK, Written
  <2>2. r.rv \in Versions
    BY <1>1, <2>1 DEF Versions
  <2>3. CASE r.deleted
    <3>1. r \in Written
      BY <1>1, <2>1
    <3>2. DeletionWritten(r.res)
      BY <2>3, <3>1, Zenon DEF DeletionWritten
    <3> QED BY <2>2, <3>2 DEF Followed
  <2>4. ASSUME NEW q \in m, q.res = r.res, r.rv < q.rv
        PROVE  Followed(r)
    <3>1. q \in Written
      BY <2>1
    <3>2. r.rv \in Nat /\ q.rv \in Nat /\ \A k \in backend : k.rv \in Nat
      BY <1>1, <2>1, EventsAssumption DEF TypeOK, Keys, Revisions
    <3>3. \/ DeletionWritten(r.res)
          \/ \E k \in backend : k.res = r.res /\ k.rv >= q.rv
      BY <1>2, <2>4, <3>1 DEF KeepInv
    <3> QED BY <1>2, <2>4, <3>2, <3>3 DEF Followed, Later
  <2> QED BY <1>1, <1>2, <2>1, <2>2, <2>3, <2>4 DEF IsLast, Before
<1>3. CASE ~EnableCache
  <2>1. PICK k \in backend : r = ParseLazyLoadingRevision(k)
    BY <1>1, <1>3 DEF Stored
  <2>2. /\ k \in Keys /\ r.res = k.res /\ r.rv = k.rv /\ r.deleted = k.deleted
        /\ Key(r) = k
    <3>1. k \in Keys
      BY DEF TypeOK
    <3>2. Key(r) = k
      BY <2>1, <3>1, KeyOfParse
    <3>3. r.res = k.res /\ r.rv = k.rv /\ r.deleted = k.deleted
      BY <2>1, Zenon DEF ParseLazyLoadingRevision
    <3> QED BY <3>1, <3>2, <3>3
  <2>3. r.rv \in Versions
    BY <2>2 DEF KeepInv
  <2>4. CASE r.deleted
    <3>1. k.deleted
      BY <2>2, <2>4, Zenon
    <3> QED BY <2>2, <2>3, <3>1 DEF KeepInv, Followed
  <2>5. ASSUME NEW q \in Stored, q.res = r.res, Before(r, q)
        PROVE  Followed(r)
    <3>1. PICK l \in backend : q = ParseLazyLoadingRevision(l)
      BY <1>3, <2>5 DEF Stored
    <3>2. Key(q) = l /\ q.res = l.res
      BY <3>1, KeyOfParse DEF TypeOK, ParseLazyLoadingRevision
    <3> QED BY <1>3, <2>5, <3>2 DEF Before, Followed, Later
  <2> QED BY <1>1, <2>3, <2>4, <2>5 DEF IsLast
<1> QED BY <1>2, <1>3

LEMMA KeepNext ==
    ASSUME SavesAreKept
    PROVE  TypeOK /\ KeepInv /\ [Next]_vars
              => /\ KeepInv'
                 /\ \A k \in backend \ backend' :
                       \/ DeletionWritten(k.res)
                       \/ \E l \in backend' : l.res = k.res
<1> SUFFICES ASSUME TypeOK, KeepInv, [Next]_vars
             PROVE  /\ KeepInv'
                    /\ \A k \in backend \ backend' :
                          \/ DeletionWritten(k.res)
                          \/ \E l \in backend' : l.res = k.res
  OBVIOUS
<1> USE EventsAssumption
<1>0. /\ EnableCache => m \subseteq seen
      /\ "write" \notin Faults => torn = {}
  BY DEF KeepInv
<1>1. ASSUME backend' = backend, torn' = torn, Planned' \subseteq Planned,
             retryCache \subseteq retryCache', Written' = Written,
             EnableCache => m' \subseteq seen'
      PROVE  KeepInv' /\ backend \subseteq backend'
  BY <1>0, <1>1, GrowKeeps
<1>2. CASE Tick
  BY <1>0, <1>1, <1>2
  DEF Tick, storeVars, writeVars, reapVars, purgeVars, Planned, Written
<1>3. ASSUME NEW rev \in Events, StartWrite(rev)
      PROVE  KeepInv' /\ backend \subseteq backend'
  <2>1. Written' = Written
    BY <1>3 DEF StartWrite, Written
  <2> QED
    BY <1>0, <1>1, <1>3, <2>1
    DEF StartWrite, storeVars, reapVars, purgeVars, Planned
<1>4. ASSUME NEW w \in writers
      PROVE  /\ w.rev \in Events /\ w.rev \in Revisions
             /\ AfterSave(w) \in Steps \ {"save"}
             /\ AfterLatest \in Steps \ {"save"}
  BY DEF TypeOK, AfterSave, AfterLatest, Steps
<1>5. ASSUME NEW w \in writers, SaveOK(w)
      PROVE  KeepInv' /\ backend \subseteq backend'
  <2> DEFINE key == Key(w.rev)
  <2>1. Written' = Written \cup {w.rev}
    BY <1>4, <1>5, AdvanceWritten DEF SaveOK
  <2>2. /\ backend' = backend \cup {key} /\ torn' \subseteq torn
        /\ UNCHANGED <<retryCache, seen, m, state, revsToReap, purgeCache, ppc,
                       toPurge>>
    BY <1>5 DEF SaveOK, reapVars, purgeVars
  <2>3. /\ key.res = w.rev.res /\ key.rv = w.rev.rv
        /\ key.deleted = w.rev.deleted
    BY DEF Key, ResourceKey
  <2> HIDE DEF key
  <2>4. key.rv \in Versions /\ key.rv \in Nat
    BY <1>4, <2>3 DEF Versions, Revisions
  <2>5. key.deleted => DeletionWritten(key.res)'
    <3>1. ASSUME key.deleted PROVE w.rev.deleted
      BY <2>3, <3>1, Zenon
    <3> QED BY <2>1, <2>3, <3>1 DEF DeletionWritten
  <2> QED BY <1>0, <2>1, <2>2, <2>3, <2>4, <2>5, GrowKeeps DEF Planned
<1>6. ASSUME NEW w \in writers, SaveErr(w)
      PROVE  KeepInv' /\ backend \subseteq backend'
  <2>1. Written' = Written
    BY <1>6 DEF SaveErr, Written
  <2> QED
    BY <1>0, <1>1, <1>6, <2>1
    DEF SaveErr, storeVars, reapVars, purgeVars, Planned
<1>7. ASSUME NEW w \in writers, SaveTorn(w)
      PROVE  KeepInv' /\ backend \subseteq backend'
  <2> DEFINE key == Key(w.rev)
  <2>1. Written' = Written
    BY <1>7 DEF SaveTorn, Written
  <2>2. /\ backend' = backend \cup {key} /\ torn' = torn \cup {key}
        /\ retryCache' = retryCache \cup {w.rev} /\ "write" \in Faults
        /\ UNCHANGED <<seen, m, state, revsToReap, purgeCache, ppc, toPurge>>
    BY <1>7 DEF SaveTorn, reapVars, purgeVars
  <2>3. /\ key.res = w.rev.res /\ key.rv = w.rev.rv
        /\ key.deleted = w.rev.deleted
    BY DEF Key, ResourceKey
  <2>4. \A k \in torn' \ torn : \E q \in retryCache' : Key(q) = k
    BY <2>2
  <2> HIDE DEF key
  <2>5. key.rv \in Versions
    BY <1>4, <2>3 DEF Versions
  <2>6. key.deleted => DeletionWritten(key.res)'
    <3>1. ASSUME key.deleted PROVE w.rev.deleted
      BY <2>3, <3>1, Zenon
    <3> QED BY <2>2, <2>3, <3>1 DEF DeletionWritten
  <2> QED BY <1>0, <2>1, <2>2, <2>4, <2>5, <2>6, GrowKeeps DEF Planned
<1>8. ASSUME NEW w \in writers, SaveLost(w)
      PROVE  KeepInv' /\ backend \subseteq backend'
  <2>1. ~EnableCache
    BY <1>8 DEF SaveLost, SavesAreKept
  <2>2. Written' = Written \cup {w.rev}
    BY <1>4, <1>8, AdvanceWritten DEF SaveLost
  <2> QED
    BY <1>0, <1>8, <2>1, <2>2, GrowKeeps
    DEF SaveLost, storeVars, reapVars, purgeVars, Planned
<1>9. ASSUME NEW w \in writers, SetLatest(w)
      PROVE  KeepInv' /\ backend \subseteq backend'
  <2>1. Written' = Written \cup {w.rev}
    BY <1>4, <1>9, AdvanceWritten DEF SetLatest
  <2>2. w.rev \in Written
    BY <1>9 DEF SetLatest, Written
  <2> QED
    BY <1>0, <1>1, <1>9, <2>1, <2>2 DEF SetLatest, reapVars, purgeVars, Planned
<1>10. ASSUME NEW w \in writers, SetMem(w) \/ Respond(w)
       PROVE  KeepInv' /\ backend \subseteq backend'
  <2>1. seen' = seen \cup {w.rev} /\ writers' = writers \ {w} /\ w.step # "save"
    BY <1>10 DEF SetMem, Respond
  <2>2. Written' = Written
    BY <2>1 DEF Written
  <2>3. m' \subseteq m \cup {w.rev}
    BY <1>10 DEF SetMem, Respond, MemSet, storeVars
  <2> QED
    BY <1>0, <1>1, <1>10, <2>1, <2>2, <2>3
    DEF SetMem, Respond, storeVars, reapVars, purgeVars, Planned
<1>11. CASE ReapState
  <2>1. /\ UNCHANGED <<backend, torn, m, writers, retryCache, seen, purgeCache,
                       ppc, toPurge>>
        /\ revsToReap' = {}
    BY <1>11 DEF ReapState, storeVars, writeVars, purgeVars
  <2>2. Written' = Written
    BY <2>1 DEF Written
  <2>3. \A r \in Planned' : r.rv \in Versions /\ Followed(r)
    BY <1>11, <2>1, ReapKeeps DEF KeepInv, Planned
  <2>4. \A r : Followed(r) => Followed(r)'
    BY <2>1, <2>2 DEF Followed, DeletionWritten, Later
  <2>5. \A res : DeletionWritten(res)' <=> DeletionWritten(res)
    BY <2>1, <2>2 DEF DeletionWritten
  <2> QED BY <2>1, <2>2, <2>3, <2>4, <2>5 DEF KeepInv
<1>12. ASSUME NEW rev, ReapJudge(rev) \/ RemoveErr(rev) \/ Evict(rev)
                       \/ Forget(rev)
       PROVE  KeepInv' /\ backend \subseteq backend'
  <2>1. m' \subseteq m
    BY <1>12 DEF ReapJudge, RemoveErr, Evict, Forget, MemDelete, storeVars
  <2>2. UNCHANGED <<backend, torn, writers, retryCache, seen>>
    BY <1>12 DEF ReapJudge, RemoveErr, Evict, Forget, storeVars, writeVars
  <2>3. Planned' \subseteq Planned
    BY <1>12
    DEF ReapJudge, RemoveErr, Evict, Forget, PurgeQueue!Delete, reapVars,
        purgeVars, Planned
  <2> QED BY <1>0, <1>1, <2>1, <2>2, <2>3 DEF Written
<1>13. ASSUME NEW rev \in revsToReap, ReapQueue(rev)
       PROVE  KeepInv' /\ backend \subseteq backend'
  <2>1. purgeCache' \subseteq purgeCache \cup {rev}
    BY <1>13, PurgeCacheType DEF TypeOK, ReapQueue
  <2> QED
    BY <1>0, <1>1, <1>13, <2>1
    DEF ReapQueue, storeVars, writeVars, purgeVars, Planned, Written
<1>14. CASE ReapJudged \/ ReapDone \/ StartPurge \/ Removed \/ Evicted
            \/ PurgeDone
  <2>1. UNCHANGED <<backend, torn, m, writers, retryCache, seen>>
    BY <1>14
    DEF ReapJudged, ReapDone, StartPurge, Removed, Evicted, PurgeDone,
        storeVars, writeVars
  <2>2. Planned' \subseteq Planned
    BY <1>14
    DEF ReapJudged, ReapDone, StartPurge, PurgeQueue!SafeCopy, Removed,
        Evicted, PurgeDone, reapVars, purgeVars, Planned
  <2> QED BY <1>0, <1>1, <2>1, <2>2 DEF Written
<1>15. ASSUME NEW rev \in toPurge, RemoveOK(rev) \/ RemoveUnreported(rev)
       PROVE  /\ KeepInv'
              /\ \A k \in backend \ backend' :
                    \/ DeletionWritten(k.res)
                    \/ \E l \in backend' : l.res = k.res
  <2>1. /\ rev \in Planned /\ Planned' \subseteq Planned
        /\ backend' = backend \ {Key(rev)} /\ torn' \subseteq torn
        /\ UNCHANGED <<writers, retryCache, seen, m>>
    BY <1>15
    DEF RemoveOK, RemoveUnreported, RemoveKeys, writeVars, reapVars, Planned
  <2>2. /\ KeepInv'
        /\ DeletionWritten(rev.res) \/ \E l \in backend' : l.res = rev.res
    BY <2>1, RemoveKeeps
  <2>3. Key(rev).res = rev.res
    BY DEF Key, ResourceKey
  <2> QED BY <2>1, <2>2, <2>3
<1>16. CASE UNCHANGED vars
  BY <1>0, <1>1, <1>16 DEF vars, Planned, Written
<1>17. CASE ReapState
  BY <1>11, <1>17 DEF ReapState, storeVars
<1> QED
  BY <1>2, <1>3, <1>5, <1>6, <1>7, <1>8, <1>9, <1>10, <1>11, <1>12, <1>13,
     <1>14, <1>15, <1>16, <1>17 DEF Next

(* What is to be removed, by the reaper's order, is followed by the        *)
(* backend's blobs and not only by what was acknowledged.                  *)
LEMMA KeepJustifies == TypeOK /\ KeepInv => PurgePlanJustified
<1> SUFFICES ASSUME TypeOK, KeepInv, NEW r \in Planned, ~ObjectDeleted(r.res)
             PROVE  \E k \in backend :
                       /\ k.res = r.res
                       /\ Before(r, ParseLazyLoadingRevision(k))
                       /\ k \in torn => \E q \in retryCache : Key(q) = k
  BY DEF PurgePlanJustified
<1>1. ~DeletionWritten(r.res)
  BY DEF DeletionWritten, ObjectDeleted, Written
<1>2. PICK k \in backend : k.res = r.res /\ Later(r, k)
  BY <1>1 DEF KeepInv, Followed
<1>3. Key(ParseLazyLoadingRevision(k)) = k
  BY KeyOfParse DEF TypeOK
<1>4. ParseLazyLoadingRevision(k).rv = k.rv
  BY DEF ParseLazyLoadingRevision
<1>5. Before(r, ParseLazyLoadingRevision(k))
  BY <1>2, <1>3, <1>4 DEF Before, Later
<1> QED BY <1>2, <1>5 DEF KeepInv

(* With the reader and without, under torn writes, failing and unreported  *)
(* removals and retries at any time: what the reaper and the purger are    *)
(* going to remove is followed by a blob that can be read back or is going *)
(* to be written again, unless the object was deleted.  With the reader    *)
(* this takes that no acknowledged write is lost.                          *)
THEOREM PurgePlansAreJustified ==
    ASSUME SavesAreKept
    PROVE  Spec => []PurgePlanJustified
<1>1. TypeOK /\ KeepInv /\ [Next]_vars => KeepInv'
  BY KeepNext
<1> QED BY <1>1, KeepInit, KeepJustifies, TypeCorrect, PTL DEF Spec

(* "never purge the last revision of an object unless it's deleted"        *)
(* (reaper.go:85), with the reader and without: as long as no blob is torn *)
(* and, with the reader, no acknowledged one is missing, a removal leaves  *)
(* an object that was not deleted with a revision that can be read back.   *)
THEOREM RemovalsKeepOne ==
    ASSUME SavesAreWhole
    PROVE  Spec => PurgeKeepsOne
<1>0. SavesAreKept
  BY DEF SavesAreWhole
<1>1. TypeOK /\ KeepInv /\ [Next]_vars => KeepInv'
  BY <1>0, KeepNext
<1>2. TypeOK /\ KeepInv /\ [Next]_vars
         => [\A k \in backend \ backend' :
                \/ ObjectDeleted(k.res)
                \/ \E k2 \in backend' \ torn' : k2.res = k.res]_vars
  <2> SUFFICES ASSUME TypeOK, KeepInv, [Next]_vars, NEW k \in backend \ backend'
               PROVE  \/ ObjectDeleted(k.res)
                      \/ \E k2 \in backend' \ torn' : k2.res = k.res
    OBVIOUS
  <2>1. torn' = {}
    BY <1>1 DEF KeepInv, SavesAreWhole
  <2>2. DeletionWritten(k.res) => ObjectDeleted(k.res)
    BY DEF DeletionWritten, ObjectDeleted, Written
  <2> QED BY <1>0, <2>1, <2>2, KeepNext
<1> QED BY <1>1, <1>2, KeepInit, TypeCorrect, PTL DEF Spec, PurgeKeepsOne
=============================================================================
