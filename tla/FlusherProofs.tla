---------------------------- MODULE FlusherProofs ----------------------------
(***************************************************************************)
(* Proofs about Flusher, for every set of events, every number of permits  *)
(* and both kinds of store client.                                         *)
(***************************************************************************)
EXTENDS Flusher, TLAPS

-----------------------------------------------------------------------------
(* What the cache operations do to the two caches of the flusher.          *)

(* Cache into c keeps it a map of revisions (cache.go:50-66).              *)
LEMMA FlushCacheType ==
    ASSUME NEW m \in SUBSET Revisions, NEW rev \in Revisions,
           FlushCache!OnePerKey(m)
    PROVE  /\ FlushCache!Cache(m, rev) \in SUBSET (m \cup {rev})
           /\ FlushCache!OnePerKey(FlushCache!Cache(m, rev))
BY DEF FlushCache!Cache, FlushCache!OnePerKey

(* Cache into retryCache keeps it a map of revisions (cache.go:50-66).     *)
LEMMA RetryCacheType ==
    ASSUME NEW m \in SUBSET Revisions, NEW rev \in Revisions,
           RetryCache!OnePerKey(m)
    PROVE  /\ RetryCache!Cache(m, rev) \in SUBSET (m \cup {rev})
           /\ RetryCache!OnePerKey(RetryCache!Cache(m, rev))
BY DEF RetryCache!Cache, RetryCache!OnePerKey

(* Whatever Cache is given, and whatever was cached before, c afterwards   *)
(* holds something that supersedes it (cache.go:58-65).                    *)
LEMMA CacheSupersedes ==
    ASSUME NEW m \in SUBSET Revisions, NEW rev \in Revisions,
           NEW r \in m \cup {rev}
    PROVE  \E q \in FlushCache!Cache(m, rev) : Supersedes(q, r)
<1> DEFINE new == FlushCache!Cache(m, rev)
<1>1. r \in Revisions /\ r.rv \in Nat /\ rev.rv \in Nat
  BY DEF Revisions
<1>2. CASE \A x \in m : x.res = rev.res => x.rv < rev.rv
  <2>1. rev \in new /\ \A x \in m : x.res # rev.res => x \in new
    BY <1>2 DEF FlushCache!Cache, flushKeyFunc, ResourceKey
  <2>2. CASE r.res = rev.res
    BY <1>1, <1>2, <2>1, <2>2 DEF Supersedes
  <2>3. CASE r.res # rev.res
    BY <1>1, <2>1, <2>3 DEF Supersedes
  <2> QED BY <2>2, <2>3
<1>3. CASE \E x \in m : x.res = rev.res /\ ~(x.rv < rev.rv)
  <2>1. new = m
    BY <1>3 DEF FlushCache!Cache, flushKeyFunc, ResourceKey
  <2>2. PICK x \in m : x.res = rev.res /\ ~(x.rv < rev.rv)
    BY <1>3
  <2>3. x.rv \in Nat
    BY <2>2 DEF Revisions
  <2> QED BY <1>1, <2>1, <2>2, <2>3 DEF Supersedes
<1> QED BY <1>2, <1>3

(* Nothing that was due for a retry is forgotten by caching another failed *)
(* revision, and the new one is not forgotten either: its key is there.    *)
LEMMA RetryCacheKeepsKeys ==
    ASSUME NEW m \in SUBSET Revisions, NEW rev \in Revisions,
           NEW r \in m \cup {rev}
    PROVE  \E x \in RetryCache!Cache(m, rev) : Key(x) = Key(r)
BY DEF RetryCache!Cache, errorKeyFunc

-----------------------------------------------------------------------------
(* Type correctness.                                                       *)

LEMMA TypeInit == Init => TypeOK
BY DEF Init, TypeOK, FlushCache!OnePerKey, RetryCache!OnePerKey, Loops

LEMMA TypeNext == TypeOK /\ [Next]_vars => TypeOK'
<1> SUFFICES ASSUME TypeOK, [Next]_vars PROVE TypeOK'
  OBVIOUS
<1> USE EventsAssumption
<1>1. ASSUME NEW rev \in Events, Queue(rev) PROVE TypeOK'
  BY <1>1, FlushCacheType DEF TypeOK, Queue, flushVars, tickVars
<1>2. CASE Cancel
  BY <1>2 DEF TypeOK, Cancel, flushVars, historyVars
<1>3. CASE Stop
  BY <1>3 DEF TypeOK, Stop, flushVars, historyVars
<1>4. ASSUME NEW l \in Loops, StartFlush(l) PROVE TypeOK'
  BY <1>4 DEF TypeOK, StartFlush, FlushCache!SafeCopy,
    RetryCache!SafeCopy, historyVars
<1>5. ASSUME NEW l \in Loops, NEW rev \in toFlush[l], StartWrite(l, rev)
      PROVE  TypeOK'
  <2>1. [loop |-> l, rev |-> rev, started |-> TRUE,
         phase |-> "writing", snap |-> {}] \in Tasks
    BY <1>5 DEF TypeOK, Tasks, Phases
  <2> QED BY <1>5, <2>1 DEF TypeOK, StartWrite, tickVars, historyVars
<1>6. ASSUME NEW l \in Loops, NEW rev \in toFlush[l], AcquireFails(l, rev)
      PROVE  TypeOK'
  <2>1. [loop |-> l, rev |-> rev, started |-> FALSE,
         phase |-> "failed", snap |-> {}] \in Tasks
    BY <1>6 DEF TypeOK, Tasks, Phases
  <2> QED BY <1>6, <2>1 DEF TypeOK, AcquireFails, tickVars, historyVars
<1>7. ASSUME NEW l \in Loops, FlushReturns(l) PROVE TypeOK'
  BY <1>7 DEF TypeOK, FlushReturns, tickVars, historyVars
<1>8. ASSUME NEW l \in Loops, NEW rev \in failed[l], Requeue(l, rev)
      PROVE  TypeOK'
  <2>1. rev \in Revisions
    BY <1>8 DEF TypeOK
  <2> QED
    BY <1>8, <2>1, RetryCacheType DEF TypeOK, Requeue, tickVars, historyVars
<1>9. ASSUME NEW l \in Loops, CycleEnds(l) PROVE TypeOK'
  BY <1>9 DEF TypeOK, CycleEnds, tickVars, historyVars
<1>10. ASSUME NEW t \in tasks, NEW p \in Phases,
              NEW s \in SUBSET Revisions, Advance(t, p, s)
       PROVE  tasks' \subseteq Tasks /\ t.rev \in Revisions
  BY <1>10 DEF TypeOK, Tasks, Advance
<1>11. ASSUME NEW t \in tasks, WriteOK(t) PROVE TypeOK'
  <2>1. tasks' \subseteq Tasks /\ t.rev \in Revisions
    BY <1>10, <1>11 DEF WriteOK, Phases
  <2> QED BY <1>11, <2>1 DEF TypeOK, WriteOK, tickVars
<1>12. ASSUME NEW t \in tasks, WriteErr(t) PROVE TypeOK'
  <2>1. tasks' \subseteq Tasks /\ t.rev \in Revisions
    BY <1>10, <1>12 DEF WriteErr, Phases
  <2> QED BY <1>12, <2>1 DEF TypeOK, WriteErr, tickVars
<1>13. ASSUME NEW t \in tasks, AppendRead(t) PROVE TypeOK'
  <2>1. failed[t.loop] \in SUBSET Revisions
    BY <1>13 DEF TypeOK, Tasks
  <2>2. tasks' \subseteq Tasks
    BY <1>10, <1>13, <2>1 DEF AppendRead, Phases
  <2> QED BY <1>13, <2>2 DEF TypeOK, AppendRead, tickVars, historyVars
<1>14. ASSUME NEW t \in tasks, AppendWrite(t) PROVE TypeOK'
  <2>1. tasks' \subseteq Tasks /\ t.rev \in Revisions
    BY <1>10, <1>14 DEF AppendWrite, Phases
  <2>2. t.snap \in SUBSET Revisions
    BY <1>14 DEF TypeOK, Tasks
  <2> QED BY <1>14, <2>1, <2>2 DEF TypeOK, AppendWrite, tickVars, historyVars
<1>15. ASSUME NEW t \in tasks, Respond(t) PROVE TypeOK'
  <2>1. c' \subseteq c /\ tasks' \subseteq tasks
    BY <1>15 DEF Respond, FlushCache!Delete
  <2> QED BY <1>15, <2>1 DEF TypeOK, Respond, FlushCache!OnePerKey,
      RetryCache!OnePerKey, tickVars, historyVars
<1>16. CASE UNCHANGED vars
  BY <1>16 DEF TypeOK, vars
<1> QED
  BY <1>1, <1>2, <1>3, <1>4, <1>5, <1>6, <1>7, <1>8, <1>9, <1>11, <1>12,
     <1>13, <1>14, <1>15, <1>16 DEF Next

(* Every reachable state is well typed, and c and retryCache stay maps.    *)
THEOREM TypeCorrect == Spec => []TypeOK
BY TypeInit, TypeNext, PTL DEF Spec

-----------------------------------------------------------------------------
(* No revision is lost silently.                                           *)

(* Everything the flusher holds was queued.                                *)
HoldsQueued ==
    /\ c \subseteq queued
    /\ retryCache \subseteq queued
    /\ \A l \in Loops : toFlush[l] \cup failed[l] \subseteq queued
    /\ \A t \in tasks : t.rev \in queued /\ t.snap \subseteq queued

(* A started write that is over has an answer of the store, so that the    *)
(* deletion from c that follows loses nothing.                             *)
Answered ==
    \A t \in tasks : t.started /\ t.phase # "writing"
                        => t.rev \in acked \cup failedWrites

LossInv == HoldsQueued /\ Answered /\ NoSilentLoss

LEMMA LossInit == Init => LossInv
BY DEF Init, LossInv, HoldsQueued, Answered, NoSilentLoss, Loops

(* A step that leaves c and queued alone and forgets no answer cannot      *)
(* lose a revision.                                                        *)
LEMMA SameCacheNoLoss ==
    ASSUME NoSilentLoss, c' = c, queued' = queued,
           acked \subseteq acked', failedWrites \subseteq failedWrites'
    PROVE  NoSilentLoss'
BY DEF NoSilentLoss

(* What Advance leaves of the set of tasks.                                *)
LEMMA AdvanceTasks ==
    ASSUME TypeOK, NEW t \in tasks, NEW p \in Phases,
           NEW s \in SUBSET Revisions, Advance(t, p, s),
           NEW u \in tasks'
    PROVE  \/ u \in tasks
           \/ /\ u.loop = t.loop /\ u.rev = t.rev /\ u.started = t.started
              /\ u.phase = p /\ u.snap = s
BY DEF TypeOK, Tasks, Advance

LEMMA LossNext == TypeOK /\ LossInv /\ [Next]_vars => LossInv'
<1> SUFFICES ASSUME TypeOK, LossInv, [Next]_vars PROVE LossInv'
  OBVIOUS
<1> USE EventsAssumption
<1>1. ASSUME NEW rev \in Events, Queue(rev) PROVE LossInv'
  <2>1. rev \in Revisions /\ c \in SUBSET Revisions
    BY DEF TypeOK
  <2>2. c' \subseteq c \cup {rev}
    BY <1>1, <2>1, FlushCacheType DEF TypeOK, Queue
  <2>3. HoldsQueued' /\ Answered'
    BY <1>1, <2>2
    DEF LossInv, HoldsQueued, Answered, Queue, flushVars, tickVars
  <2>4. ASSUME NEW r \in queued' PROVE
            \E q \in queued' : /\ Supersedes(q, r)
                               /\ q \in c' \cup acked' \cup failedWrites'
    <3>1. \/ r = rev
          \/ \E q \in queued : /\ Supersedes(q, r)
                               /\ q \in c \cup acked \cup failedWrites
      BY <1>1, <2>4 DEF Queue, LossInv, NoSilentLoss
    <3>2. r \in Revisions /\ r.rv \in Nat
      BY <1>1, <2>4 DEF Queue, TypeOK, Revisions
    <3>3. ASSUME NEW x \in c \cup {rev}, Supersedes(x, r)
          PROVE  \E q \in c' : Supersedes(q, r)
      <4>1. PICK q \in c' : Supersedes(q, x)
        BY <1>1, <2>1, CacheSupersedes DEF Queue
      <4>2. q.rv \in Nat /\ x.rv \in Nat
        BY <2>1, <2>2, <4>1 DEF Revisions
      <4> QED BY <3>2, <3>3, <4>1, <4>2 DEF Supersedes
    <3>4. c' \subseteq queued'
      BY <2>3 DEF HoldsQueued
    <3>5. CASE r = rev
      BY <3>2, <3>3, <3>4, <3>5 DEF Supersedes
    <3>6. CASE \E q \in queued : /\ Supersedes(q, r)
                                 /\ q \in c \cup acked \cup failedWrites
      BY <1>1, <3>3, <3>4, <3>6 DEF Queue
    <3> QED BY <3>1, <3>5, <3>6
  <2>5. NoSilentLoss'
    BY <2>4 DEF NoSilentLoss
  <2> QED BY <2>3, <2>5 DEF LossInv
<1>2. CASE Cancel
  BY <1>2, SameCacheNoLoss
  DEF LossInv, HoldsQueued, Answered, Cancel, flushVars, historyVars
<1>3. CASE Stop
  BY <1>3, SameCacheNoLoss
  DEF LossInv, HoldsQueued, Answered, Stop, flushVars, historyVars
<1>4. ASSUME NEW l \in Loops, StartFlush(l) PROVE LossInv'
  <2>1. HoldsQueued'
    BY <1>4 DEF LossInv, HoldsQueued, StartFlush, FlushCache!SafeCopy,
      RetryCache!SafeCopy, TypeOK, historyVars
  <2> QED
    BY <1>4, <2>1, SameCacheNoLoss DEF LossInv, Answered, StartFlush, historyVars
<1>5. ASSUME NEW l \in Loops, NEW rev \in toFlush[l],
             StartWrite(l, rev) \/ AcquireFails(l, rev)
      PROVE  LossInv'
  <2>1. HoldsQueued'
    BY <1>5 DEF LossInv, HoldsQueued, StartWrite, AcquireFails, TypeOK,
                tickVars, historyVars
  <2>2. Answered'
    BY <1>5 DEF LossInv, Answered, StartWrite, AcquireFails, tickVars,
                historyVars
  <2> QED
    BY <1>5, <2>1, <2>2, SameCacheNoLoss
    DEF LossInv, StartWrite, AcquireFails, tickVars, historyVars
<1>6. ASSUME NEW l \in Loops, FlushReturns(l) \/ CycleEnds(l) PROVE LossInv'
  BY <1>6, SameCacheNoLoss
  DEF LossInv, HoldsQueued, Answered, FlushReturns, CycleEnds, tickVars,
      historyVars
<1>7. ASSUME NEW l \in Loops, NEW rev \in failed[l], Requeue(l, rev)
      PROVE  LossInv'
  <2>1. rev \in Revisions /\ rev \in queued
    BY <1>7 DEF TypeOK, LossInv, HoldsQueued
  <2>2. retryCache' \subseteq retryCache \cup {rev}
    BY <1>7, <2>1, RetryCacheType DEF TypeOK, Requeue
  <2>3. HoldsQueued'
    BY <1>7, <2>1, <2>2
    DEF LossInv, HoldsQueued, Requeue, TypeOK, tickVars, historyVars
  <2> QED
    BY <1>7, <2>3, SameCacheNoLoss
    DEF LossInv, Answered, Requeue, tickVars, historyVars
<1>8. ASSUME NEW t \in tasks, WriteOK(t) \/ WriteErr(t) PROVE LossInv'
  <2>1. PICK p \in Phases : Advance(t, p, {})
    BY <1>8 DEF WriteOK, WriteErr, Phases
  <2>2. t.rev \in acked' \cup failedWrites' /\ queued' = queued
    BY <1>8 DEF WriteOK, WriteErr
  <2>3. \A u \in tasks' : \/ u \in tasks
                          \/ u.rev = t.rev /\ u.snap = {}
    BY <2>1, AdvanceTasks
  <2>4. HoldsQueued'
    BY <1>8, <2>2, <2>3 DEF LossInv, HoldsQueued, WriteOK, WriteErr, tickVars
  <2>5. Answered'
    BY <1>8, <2>2, <2>3 DEF LossInv, Answered, WriteOK, WriteErr
  <2> QED
    BY <1>8, <2>4, <2>5, SameCacheNoLoss DEF LossInv, WriteOK, WriteErr
<1>9. ASSUME NEW t \in tasks, AppendRead(t) PROVE LossInv'
  <2>1. failed[t.loop] \in SUBSET Revisions /\ failed[t.loop] \subseteq queued
    BY DEF TypeOK, Tasks, LossInv, HoldsQueued
  <2>2. \A u \in tasks' :
          \/ u \in tasks
          \/ /\ u.rev = t.rev /\ u.started = t.started
             /\ u.phase = "appending" /\ u.snap = failed[t.loop]
    BY <1>9, <2>1, AdvanceTasks DEF AppendRead, Phases
  <2>3. HoldsQueued'
    BY <1>9, <2>1, <2>2
    DEF LossInv, HoldsQueued, AppendRead, tickVars, historyVars
  <2>4. Answered'
    BY <1>9, <2>2 DEF LossInv, Answered, AppendRead, historyVars
  <2> QED
    BY <1>9, <2>3, <2>4, SameCacheNoLoss DEF LossInv, AppendRead, historyVars
<1>10. ASSUME NEW t \in tasks, AppendWrite(t) PROVE LossInv'
  <2>1. \A u \in tasks' :
          \/ u \in tasks
          \/ /\ u.rev = t.rev /\ u.started = t.started
             /\ u.phase = "responded" /\ u.snap = {}
    BY <1>10, AdvanceTasks DEF AppendWrite, Phases
  <2>2. HoldsQueued'
    BY <1>10, <2>1
    DEF LossInv, HoldsQueued, AppendWrite, TypeOK, tickVars, historyVars
  <2>3. Answered'
    BY <1>10, <2>1 DEF LossInv, Answered, AppendWrite, historyVars
  <2> QED
    BY <1>10, <2>2, <2>3, SameCacheNoLoss
    DEF LossInv, AppendWrite, historyVars
<1>11. ASSUME NEW t \in tasks, Respond(t) PROVE LossInv'
  <2>1. HoldsQueued' /\ Answered'
    BY <1>11
    DEF LossInv, HoldsQueued, Answered, Respond, FlushCache!Delete,
        tickVars, historyVars
  <2>2. t.started => t.rev \in acked \cup failedWrites
    BY <1>11 DEF LossInv, Answered, Respond
  <2>3. t.rev \in queued
    BY DEF LossInv, HoldsQueued
  <2>4. \A q \in c \ c' : /\ t.started
                          /\ q.res = t.rev.res /\ q.rv = t.rev.rv
    BY <1>11 DEF Respond, FlushCache!Delete, flushKeyFunc, ResourceKey
  <2>5. ASSUME NEW r \in queued, NEW q \in queued, Supersedes(q, r),
               q \in c \cup acked \cup failedWrites
        PROVE  \E q2 \in queued : /\ Supersedes(q2, r)
                                  /\ q2 \in c' \cup acked \cup failedWrites
    <3>1. CASE q \in c \ c'
      BY <2>2, <2>3, <2>4, <2>5, <3>1 DEF Supersedes
    <3> QED BY <2>5, <3>1
  <2>6. NoSilentLoss'
    BY <1>11, <2>5 DEF LossInv, NoSilentLoss, Respond, historyVars
  <2> QED BY <2>1, <2>6 DEF LossInv
<1>12. CASE UNCHANGED vars
  BY <1>12, SameCacheNoLoss DEF LossInv, HoldsQueued, Answered, vars
<1> QED
  BY <1>1, <1>2, <1>3, <1>4, <1>5, <1>6, <1>7, <1>8, <1>9, <1>10, <1>11,
     <1>12 DEF Next

(* For all events, interleavings of the two loops and numbers of permits,  *)
(* a queued revision stays cached until it, or one that supersedes it, has *)
(* been answered by the store.                                             *)
THEOREM NothingLostSilently == Spec => []NoSilentLoss
<1>1. LossInv => NoSilentLoss
  BY DEF LossInv
<1> QED BY <1>1, TypeCorrect, LossInit, LossNext, PTL DEF Spec

-----------------------------------------------------------------------------
(* With a synchronous client every failed write is retried.                *)

(* The loop is the only one to append: it has one write under way, inside  *)
(* its cycle, and the slice does not change between the read and the write *)
(* of an append.  This is what the goroutines of an asynchronous client    *)
(* break.                                                                  *)
OneAppender ==
    /\ \A t \in tasks : pc[t.loop] = "flush"
    /\ \A t, u \in tasks : t.loop = u.loop => t = u
    /\ \A t \in tasks : t.phase = "appending" => t.snap = failed[t.loop]
    /\ \A l \in Loops : pc[l] = "tick" => failed[l] = {}

RetryInv == OneAppender /\ FailedIsRetried

LEMMA RetryInit == Init => RetryInv
BY DEF Init, RetryInv, OneAppender, FailedIsRetried

(* A step that keeps the failed revisions, their tasks and the retry cache *)
(* forgets no failure.                                                     *)
LEMMA SameFailuresNoLoss ==
    ASSUME FailedIsRetried, retryCache' = retryCache, failed' = failed,
           failedWrites' = failedWrites,
           \A t \in tasks : t.phase \in {"failed", "appending"} =>
              \E u \in tasks' : /\ u.rev = t.rev
                                /\ u.phase \in {"failed", "appending"}
    PROVE  FailedIsRetried'
BY DEF FailedIsRetried, RetryIsDue

(* Advance puts one task in the place of another.                          *)
LEMMA AdvanceReplaces ==
    ASSUME TypeOK, NEW t \in tasks, NEW p \in Phases,
           NEW s \in SUBSET Revisions, Advance(t, p, s)
    PROVE  \E u : /\ tasks' = (tasks \ {t}) \cup {u}
                  /\ u.loop = t.loop /\ u.rev = t.rev
                  /\ u.phase = p /\ u.snap = s
<1> DEFINE u == [t EXCEPT !.phase = p, !.snap = s]
<1>1. t \in Tasks
  BY DEF TypeOK
<1>2. /\ u.loop = t.loop /\ u.rev = t.rev
      /\ u.phase = p /\ u.snap = s
  BY <1>1 DEF Tasks
<1>3. tasks' = (tasks \ {t}) \cup {u}
  BY DEF Advance
<1> HIDE DEF u
<1> QED BY <1>2, <1>3

LEMMA RetryNext ==
    ASSUME ~Async
    PROVE  TypeOK /\ RetryInv /\ [Next]_vars => RetryInv'
<1> SUFFICES ASSUME TypeOK, RetryInv, [Next]_vars PROVE RetryInv'
  OBVIOUS
<1>1. ASSUME NEW rev \in Events, Queue(rev) PROVE RetryInv'
  <2>1. UNCHANGED <<retryCache, flushVars, failedWrites>>
    BY <1>1 DEF Queue
  <2> QED
    BY <2>1, SameFailuresNoLoss DEF RetryInv, OneAppender, flushVars
<1>2. CASE Cancel \/ Stop
  BY <1>2, SameFailuresNoLoss
  DEF RetryInv, OneAppender, Cancel, Stop, flushVars, historyVars
<1>3. ASSUME NEW l \in Loops, StartFlush(l) PROVE RetryInv'
  <2>1. failed' = failed
    BY <1>3 DEF StartFlush, RetryInv, OneAppender, TypeOK
  <2>2. OneAppender'
    <3>1. /\ tasks' = tasks
          /\ pc[l] = "tick" /\ pc' = [pc EXCEPT ![l] = "flush"]
      BY <1>3 DEF StartFlush
    <3>2. \A k \in Loops : pc'[k] = IF k = l THEN "flush" ELSE pc[k]
      BY <3>1 DEF TypeOK
    <3>3. \A t \in tasks : t.loop \in Loops
      BY DEF TypeOK, Tasks
    <3> QED BY <2>1, <3>1, <3>2, <3>3 DEF RetryInv, OneAppender
  <2> QED
    BY <1>3, <2>1, <2>2, SameFailuresNoLoss DEF StartFlush, RetryInv, historyVars
<1>4. ASSUME NEW l \in Loops, NEW rev \in toFlush[l], StartWrite(l, rev)
      PROVE  RetryInv'
  <2>1. \A t \in tasks : t.loop # l
    BY <1>4 DEF StartWrite, LoopIsFree
  <2> DEFINE u == [loop |-> l, rev |-> rev, started |-> TRUE,
                   phase |-> "writing", snap |-> {}]
  <2>2. /\ tasks' = tasks \cup {u}
        /\ u.loop = l /\ u.phase = "writing"
    BY <1>4 DEF StartWrite
  <2> HIDE DEF u
  <2>3. pc[l] = "flush" /\ pc' = pc /\ failed' = failed
    BY <1>4 DEF StartWrite
  <2>4. OneAppender'
    BY <2>1, <2>2, <2>3 DEF RetryInv, OneAppender
  <2> QED
    BY <1>4, <2>4, SameFailuresNoLoss
    DEF StartWrite, RetryInv, historyVars
<1>5. ASSUME NEW l \in Loops, NEW rev \in toFlush[l], AcquireFails(l, rev)
      PROVE  RetryInv'
  BY <1>5 DEF AcquireFails
<1>6. ASSUME NEW l \in Loops, FlushReturns(l) \/ CycleEnds(l) PROVE RetryInv'
  <2>1. \A t \in tasks : t.loop # l /\ t.loop \in Loops
    BY <1>6 DEF FlushReturns, CycleEnds, RetryInv, OneAppender, TypeOK, Tasks
  <2>2. \A k \in Loops : k # l => pc'[k] = pc[k]
    BY <1>6 DEF FlushReturns, CycleEnds, TypeOK
  <2>3. pc'[l] = "tick" => failed[l] = {}
    BY <1>6 DEF FlushReturns, CycleEnds, TypeOK
  <2>4. tasks' = tasks /\ failed' = failed
    BY <1>6 DEF FlushReturns, CycleEnds
  <2>5. OneAppender'
    BY <2>1, <2>2, <2>3, <2>4 DEF RetryInv, OneAppender
  <2> QED
    BY <1>6, <2>5, SameFailuresNoLoss
    DEF FlushReturns, CycleEnds, RetryInv, historyVars
<1>7. ASSUME NEW l \in Loops, NEW rev \in failed[l], Requeue(l, rev)
      PROVE  RetryInv'
  <2>1. \A t \in tasks : t.loop # l
    BY <1>7 DEF Requeue, RetryInv, OneAppender
  <2>2. OneAppender'
    BY <1>7, <2>1 DEF Requeue, RetryInv, OneAppender, TypeOK, Tasks
  <2>3. rev \in Revisions /\ retryCache \in SUBSET Revisions
    BY <1>7 DEF TypeOK
  <2>4. \A r \in retryCache \cup {rev} :
           \E x \in retryCache' : Key(x) = Key(r)
    BY <1>7, <2>3, RetryCacheKeepsKeys DEF Requeue
  <2>5. ASSUME NEW r, RetryIsDue(r) PROVE RetryIsDue(r)'
    <3>1. CASE \E x \in retryCache : Key(x) = Key(r)
      BY <2>4, <3>1 DEF RetryIsDue
    <3>2. CASE r = rev
      BY <2>4, <3>2 DEF RetryIsDue
    <3>3. CASE r # rev /\ \E k \in Loops : r \in failed[k]
      BY <1>7, <3>3 DEF RetryIsDue, Requeue, TypeOK
    <3>4. CASE \E t \in tasks : /\ t.rev = r
                                /\ t.phase \in {"failed", "appending"}
      BY <1>7, <3>4 DEF RetryIsDue, Requeue
    <3> QED BY <2>5, <3>1, <3>2, <3>3, <3>4 DEF RetryIsDue
  <2>6. FailedIsRetried'
    BY <1>7, <2>5 DEF RetryInv, FailedIsRetried, Requeue, historyVars
  <2> QED BY <2>2, <2>6 DEF RetryInv
<1>8. ASSUME NEW t \in tasks, WriteOK(t) PROVE RetryInv'
  <2>1. PICK u : /\ tasks' = (tasks \ {t}) \cup {u}
                 /\ u.loop = t.loop /\ u.phase = "responded"
    BY <1>8, AdvanceReplaces DEF WriteOK, Phases
  <2>2. OneAppender'
    BY <1>8, <2>1 DEF WriteOK, RetryInv, OneAppender
  <2> QED
    BY <1>8, <2>1, <2>2, SameFailuresNoLoss DEF WriteOK, RetryInv
<1>9. ASSUME NEW t \in tasks, WriteErr(t) PROVE RetryInv'
  <2>1. PICK u : /\ tasks' = (tasks \ {t}) \cup {u}
                 /\ u.loop = t.loop /\ u.rev = t.rev /\ u.phase = "failed"
    BY <1>9, AdvanceReplaces DEF WriteErr, Phases
  <2>2. OneAppender'
    BY <1>9, <2>1 DEF WriteErr, RetryInv, OneAppender
  <2>3. t.phase = "writing" /\ failedWrites' = failedWrites \cup {t.rev}
        /\ UNCHANGED <<retryCache, failed>>
    BY <1>9 DEF WriteErr
  <2>4. FailedIsRetried'
    BY <2>1, <2>3 DEF RetryInv, FailedIsRetried, RetryIsDue
  <2> QED BY <2>2, <2>4 DEF RetryInv
<1>10. ASSUME NEW t \in tasks, AppendRead(t) PROVE RetryInv'
  <2>1. failed[t.loop] \in SUBSET Revisions
    BY DEF TypeOK, Tasks
  <2>2. PICK u : /\ tasks' = (tasks \ {t}) \cup {u}
                 /\ u.loop = t.loop /\ u.rev = t.rev
                 /\ u.phase = "appending" /\ u.snap = failed[t.loop]
    BY <1>10, <2>1, AdvanceReplaces DEF AppendRead, Phases
  <2>3. OneAppender'
    BY <1>10, <2>2 DEF AppendRead, RetryInv, OneAppender
  <2> QED
    BY <1>10, <2>2, <2>3, SameFailuresNoLoss
    DEF AppendRead, RetryInv, historyVars
<1>11. ASSUME NEW t \in tasks, AppendWrite(t) PROVE RetryInv'
  <2>1. PICK u : /\ tasks' = (tasks \ {t}) \cup {u}
                 /\ u.loop = t.loop /\ u.phase = "responded"
    BY <1>11, AdvanceReplaces DEF AppendWrite, Phases
  <2>2. t.loop \in Loops /\ pc[t.loop] = "flush" /\ t.snap = failed[t.loop]
    BY <1>11 DEF AppendWrite, RetryInv, OneAppender, TypeOK, Tasks
  <2>3. failed' = [failed EXCEPT ![t.loop] = failed[t.loop] \cup {t.rev}]
    BY <1>11, <2>2 DEF AppendWrite
  <2>4. OneAppender'
    <3>1. pc' = pc
      BY <1>11 DEF AppendWrite
    <3>2. \A v \in tasks' : v = u \/ (v \in tasks /\ v.loop # t.loop)
      BY <2>1 DEF RetryInv, OneAppender
    <3> QED
      BY <2>1, <2>2, <2>3, <3>1, <3>2 DEF RetryInv, OneAppender, TypeOK, Tasks
  <2>5. ASSUME NEW r, RetryIsDue(r) PROVE RetryIsDue(r)'
    <3>1. CASE \E l \in Loops : r \in failed[l]
      BY <2>3, <3>1 DEF RetryIsDue, TypeOK
    <3>2. CASE r = t.rev
      BY <2>2, <2>3, <3>2 DEF RetryIsDue, TypeOK
    <3>3. CASE \E v \in tasks : /\ v # t /\ v.rev = r
                                /\ v.phase \in {"failed", "appending"}
      BY <2>1, <3>3 DEF RetryIsDue
    <3>4. retryCache' = retryCache
      BY <1>11 DEF AppendWrite
    <3> QED BY <2>5, <3>1, <3>2, <3>3, <3>4 DEF RetryIsDue
  <2>6. FailedIsRetried'
    BY <1>11, <2>5 DEF RetryInv, FailedIsRetried, AppendWrite, historyVars
  <2> QED BY <2>4, <2>6 DEF RetryInv
<1>12. ASSUME NEW t \in tasks, Respond(t) PROVE RetryInv'
  <2>1. OneAppender'
    BY <1>12 DEF Respond, RetryInv, OneAppender
  <2> QED
    BY <1>12, <2>1, SameFailuresNoLoss DEF Respond, RetryInv, historyVars
<1>13. CASE UNCHANGED vars
  BY <1>13, SameFailuresNoLoss DEF RetryInv, OneAppender, vars
<1> QED
  BY <1>1, <1>2, <1>3, <1>4, <1>5, <1>6, <1>7, <1>8, <1>9, <1>10, <1>11,
     <1>12, <1>13 DEF Next

(* If the store client is synchronous, every revision the store refused is *)
(* still due for a retry, for all events and interleavings of the loops.   *)
THEOREM SyncFailuresAreRetried ==
    ASSUME ~Async
    PROVE  Spec => []FailedIsRetried
<1>1. RetryInv => FailedIsRetried
  BY DEF RetryInv
<1>2. TypeOK /\ RetryInv /\ [Next]_vars => RetryInv'
  BY RetryNext
<1> QED BY <1>1, <1>2, TypeCorrect, RetryInit, PTL DEF Spec
=============================================================================
