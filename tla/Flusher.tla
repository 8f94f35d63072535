------------------------------- MODULE Flusher -------------------------------
(***************************************************************************)
(* The flusher of pkg/controller/flusher/flusher.go: revisions queued by   *)
(* the workers are coalesced in the cache c and written to the store by    *)
(* the rpo loop; failed writes go to retryCache, which the retry loop      *)
(* writes again.                                                           *)
(*                                                                         *)
(* Both loops run flush().  With an asynchronous store client              *)
(* (pkg/store/asyncwriter.go) flush() starts one writer goroutine per      *)
(* revision, as far as the write semaphore allows, and one goroutine that  *)
(* waits for its response.  The response goroutines of a cycle append to   *)
(* the slice failedFlushRevs without a lock, so an append is a read of the *)
(* slice and a later write of it.                                          *)
(***************************************************************************)
EXTENDS Revision, FiniteSets

CONSTANTS
    Events,       \* the revisions the workers may hand to Queue
    Async,        \* TRUE iff the store client is an AsyncWriteRevisionInterface
    Permits       \* size of the write semaphore (--concurrent-writes)

ASSUME EventsAssumption  == Events \subseteq Revisions
ASSUME AsyncAssumption   == Async \in BOOLEAN
ASSUME PermitsAssumption == Permits \in Nat

VARIABLES
    c,            \* Flush.c, keyed by ResourceKey
    retryCache,   \* Flush.retryCache, keyed by Key
    pc,           \* where each loop is
    toFlush,      \* what flush() of each loop has not started to write yet
    failed,       \* failedFlushRevs of each loop
    tasks,        \* the writes a loop has started and not finished with
    run,          \* whether the context is cancelled and the tickers stopped
    ticks,        \* the loops whose ticker still has a tick for them
    queued,       \* history: every revision handed to Queue
    acked,        \* history: every revision the store reported as written
    failedWrites  \* history: every revision a write of which reported an error

flushVars   == <<pc, toFlush, failed, tasks>>
historyVars == <<queued, acked, failedWrites>>
tickVars    == <<run, ticks>>
vars == <<c, retryCache, pc, toFlush, failed, tasks, run, ticks,
          queued, acked, failedWrites>>

Loops == {"rpo", "retry"}

(* The life of one write: the writer goroutine runs ("writing"); on an     *)
(* error the response goroutine appends to the slice ("failed", then       *)
(* "appending" with the slice it has read in snap); "responded" is left    *)
(* to drop the revision from c.  started is FALSE when no permit was       *)
(* given: the loop itself then does the append and c is left alone.        *)
Phases == {"writing", "failed", "appending", "responded"}
Tasks  == [loop : Loops, rev : Revisions, started : BOOLEAN,
           phase : Phases, snap : SUBSET Revisions]

flushKeyFunc(rev) == ResourceKey(rev)

(* Mutant of errorKeyFunc: one failed revision per object is kept.         *)
errorKeyPerResource(rev) == ResourceKey(rev)

errorKeyFunc(rev) == Key(rev)

FlushCache == INSTANCE RevisionCache WITH keyFunc <- flushKeyFunc
RetryCache == INSTANCE RevisionCache WITH keyFunc <- errorKeyFunc

(* Types, and that c and retryCache are maps under their key functions     *)
(* (cache.go:57-65).                                                       *)
TypeOK ==
    /\ c \subseteq Revisions /\ FlushCache!OnePerKey(c)
    /\ retryCache \subseteq Revisions /\ RetryCache!OnePerKey(retryCache)
    /\ pc \in [Loops -> {"tick", "flush", "requeue"}]
    /\ toFlush \in [Loops -> SUBSET Revisions]
    /\ failed \in [Loops -> SUBSET Revisions]
    /\ tasks \subseteq Tasks
    /\ run \in {"running", "cancelled", "stopped"}
    /\ ticks \subseteq Loops
    /\ queued \subseteq Events
    /\ acked \subseteq Revisions
    /\ failedWrites \subseteq Revisions

Init ==
    /\ c = {}
    /\ retryCache = {}
    /\ pc = [l \in Loops |-> "tick"]
    /\ toFlush = [l \in Loops |-> {}]
    /\ failed = [l \in Loops |-> {}]
    /\ tasks = {}
    /\ run = "running"
    /\ ticks = Loops
    /\ queued = {}
    /\ acked = {}
    /\ failedWrites = {}

-----------------------------------------------------------------------------

(* A worker, or syncStore, hands over a revision.  Every revision object   *)
(* is handed over once.                                                    *)
Queue(rev) ==
    /\ rev \notin queued
    /\ c' = FlushCache!Cache(c, rev)
    /\ queued' = queued \cup {rev}
    /\ UNCHANGED <<retryCache, flushVars, tickVars, acked, failedWrites>>

(* An interrupt cancels the context that flush() gives to every write.     *)
Cancel ==
    /\ run = "running"
    /\ run' = "cancelled"
    /\ UNCHANGED <<c, retryCache, flushVars, ticks, historyVars>>

(* Run() returns and stops both tickers.  The channel of a ticker may      *)
(* still hold one tick, and a cycle that is under way goes on until the    *)
(* process is gone.                                                        *)
Stop ==
    /\ run = "cancelled"
    /\ run' = "stopped"
    /\ ticks' \in SUBSET Loops
    /\ UNCHANGED <<c, retryCache, flushVars, historyVars>>

(* Loop l takes a tick: a flush cycle starts on a copy of its cache.       *)
StartFlush(l) ==
    /\ pc[l] = "tick"
    /\ l \in ticks
    /\ ticks' = IF run = "stopped" THEN ticks \ {l} ELSE ticks
    /\ pc' = [pc EXCEPT ![l] = "flush"]
    /\ toFlush' = [toFlush EXCEPT ![l] =
                      IF l = "rpo" THEN FlushCache!SafeCopy(c)
                      ELSE RetryCache!SafeCopy(retryCache)]
    /\ failed' = [failed EXCEPT ![l] = {}]
    /\ UNCHANGED <<c, retryCache, tasks, run, historyVars>>

(* The writes of both loops hold one permit each while they run.           *)
Writing == {t \in tasks : t.phase = "writing"}

(* The goroutine of loop l is free for its next iteration: it does not     *)
(* write itself, nor append to the slice after a failed Acquire.           *)
LoopIsFree(l) == \A t \in tasks : t.loop = l => Async /\ t.started

(* The next iteration of the loop over toFlush.  An asynchronous client    *)
(* takes a permit and starts the write; otherwise the loop itself writes,  *)
(* one revision after the other.                                           *)
StartWrite(l, rev) ==
    /\ pc[l] = "flush"
    /\ rev \in toFlush[l]
    /\ LoopIsFree(l)
    /\ Async => Cardinality(Writing) < Permits
    /\ toFlush' = [toFlush EXCEPT ![l] = @ \ {rev}]
    /\ tasks' = tasks \cup {[loop |-> l, rev |-> rev, started |-> TRUE,
                             phase |-> "writing", snap |-> {}]}
    /\ UNCHANGED <<c, retryCache, pc, failed, tickVars, historyVars>>

(* Acquire gives up when it has to wait and the context is cancelled: the  *)
(* revision fails without being written and stays in c.  A permit comes    *)
(* back a moment after the response was sent, so any write that is not     *)
(* over may still hold one.                                                *)
AcquireFails(l, rev) ==
    /\ pc[l] = "flush"
    /\ rev \in toFlush[l]
    /\ Async
    /\ LoopIsFree(l)
    /\ run # "running"
    /\ Cardinality({t \in tasks : t.started}) >= Permits
    /\ toFlush' = [toFlush EXCEPT ![l] = @ \ {rev}]
    /\ tasks' = tasks \cup {[loop |-> l, rev |-> rev, started |-> FALSE,
                             phase |-> "failed", snap |-> {}]}
    /\ UNCHANGED <<c, retryCache, pc, failed, tickVars, historyVars>>

Advance(t, phase, snap) ==
    tasks' = (tasks \ {t}) \cup
                 {[t EXCEPT !.phase = phase, !.snap = snap]}

(* Update or Delete of the store returns without an error and the          *)
(* response reaches the waiting goroutine.                                 *)
WriteOK(t) ==
    /\ t.phase = "writing"
    /\ Advance(t, "responded", {})
    /\ acked' = acked \cup {t.rev}
    /\ UNCHANGED <<c, retryCache, pc, toFlush, failed, tickVars,
                   queued, failedWrites>>

(* Mutant of WriteErr: the error is logged and the revision forgotten.     *)
WriteErrForgotten(t) ==
    /\ t.phase = "writing"
    /\ Advance(t, "responded", {})
    /\ failedWrites' = failedWrites \cup {t.rev}
    /\ UNCHANGED <<c, retryCache, pc, toFlush, failed, tickVars,
                   queued, acked>>

(* Update or Delete of the store returns an error.                         *)
WriteErr(t) ==
    /\ t.phase = "writing"
    /\ Advance(t, "failed", {})
    /\ failedWrites' = failedWrites \cup {t.rev}
    /\ UNCHANGED <<c, retryCache, pc, toFlush, failed, tickVars,
                   queued, acked>>

(* append(failedFlushRevs, rev), first half: the slice is read.            *)
AppendRead(t) ==
    /\ t.phase = "failed"
    /\ Advance(t, "appending", failed[t.loop])
    /\ UNCHANGED <<c, retryCache, pc, toFlush, failed, tickVars, historyVars>>

(* append, second half: the slice read before, with rev added, replaces    *)
(* whatever failedFlushRevs is by now.                                     *)
AppendWrite(t) ==
    /\ t.phase = "appending"
    /\ failed' = [failed EXCEPT ![t.loop] = t.snap \cup {t.rev}]
    /\ Advance(t, "responded", {})
    /\ UNCHANGED <<c, retryCache, pc, toFlush, tickVars, historyVars>>

(* Mutant of Respond: an early return on an error skips wg.Done().         *)
RespondWithoutDone(t) ==
    /\ t.phase = "responded"
    /\ t.rev \notin failed[t.loop]
    /\ c' = FlushCache!Delete(c, t.rev)
    /\ tasks' = tasks \ {t}
    /\ UNCHANGED <<retryCache, pc, toFlush, failed, tickVars, historyVars>>

(* f.c.Delete(rev), after a success and after an error, in both loops,     *)
(* then wg.Done().  Only wg.Done() when the write was never started.       *)
Respond(t) ==
    /\ t.phase = "responded"
    /\ c' = IF t.started THEN FlushCache!Delete(c, t.rev) ELSE c
    /\ tasks' = tasks \ {t}
    /\ UNCHANGED <<retryCache, pc, toFlush, failed, tickVars, historyVars>>

(* wg.Wait() returns and flush() hands the failed revisions to its loop.   *)
FlushReturns(l) ==
    /\ pc[l] = "flush"
    /\ toFlush[l] = {}
    /\ \A t \in tasks : t.loop # l
    /\ pc' = [pc EXCEPT ![l] = "requeue"]
    /\ UNCHANGED <<c, retryCache, toFlush, failed, tasks, tickVars,
                   historyVars>>

(* One iteration of the loop over the failed revisions.                    *)
Requeue(l, rev) ==
    /\ pc[l] = "requeue"
    /\ rev \in failed[l]
    /\ retryCache' = RetryCache!Cache(retryCache, rev)
    /\ failed' = [failed EXCEPT ![l] = @ \ {rev}]
    /\ UNCHANGED <<c, pc, toFlush, tasks, tickVars, historyVars>>

CycleEnds(l) ==
    /\ pc[l] = "requeue"
    /\ failed[l] = {}
    /\ pc' = [pc EXCEPT ![l] = "tick"]
    /\ UNCHANGED <<c, retryCache, toFlush, failed, tasks, tickVars,
                   historyVars>>

Next ==
    \/ \E rev \in Events : Queue(rev)
    \/ Cancel
    \/ Stop
    \/ \E l \in Loops :
          \/ StartFlush(l)
          \/ \E rev \in toFlush[l] : StartWrite(l, rev)
          \/ \E rev \in toFlush[l] : AcquireFails(l, rev)
          \/ FlushReturns(l)
          \/ \E rev \in failed[l] : Requeue(l, rev)
          \/ CycleEnds(l)
    \/ \E t \in tasks :
          \/ WriteOK(t)
          \/ WriteErr(t)
          \/ AppendRead(t)
          \/ AppendWrite(t)
          \/ Respond(t)

Spec == Init /\ [][Next]_vars

(* What the scheduler gives while the process runs: tickers tick, started  *)
(* writes return, goroutines and the two loops go on.                      *)
Response(l, rev) ==
    \E t \in tasks :
       /\ t.loop = l /\ t.rev = rev
       /\ WriteOK(t) \/ WriteErr(t) \/ AppendRead(t) \/ AppendWrite(t)
                     \/ Respond(t)

WriteSucceeds(l, rev) ==
    \E t \in tasks : t.loop = l /\ t.rev = rev /\ WriteOK(t)

LoopStep(l) ==
    \/ StartFlush(l)
    \/ FlushReturns(l)
    \/ \E rev \in failed[l] : Requeue(l, rev)
    \/ CycleEnds(l)

WhileRunning(A) == run = "running" /\ A

(* The semaphore serves its waiters in the order they came, so a loop that *)
(* waits for a permit gets one though the other loop takes permits too.    *)
SchedulerFairness ==
    \A l \in Loops :
       /\ WF_vars(WhileRunning(LoopStep(l)))
       /\ SF_vars(WhileRunning(\E rev \in toFlush[l] : StartWrite(l, rev)))
       /\ \A rev \in Events : WF_vars(WhileRunning(Response(l, rev)))

(* No revision is written over and over without the store ever taking it.  *)
StoreFairness ==
    \A l \in Loops, rev \in Events :
        SF_vars(WhileRunning(WriteSucceeds(l, rev)))

(* A cycle ends though the store may fail for ever ...                     *)
ScheduledSpec == Spec /\ SchedulerFairness

(* ... and revisions get stored if it does not.                            *)
FairSpec == ScheduledSpec /\ StoreFairness

-----------------------------------------------------------------------------

(* q makes r superfluous: it is of the same object and not older.          *)
Supersedes(q, r) == q.res = r.res /\ q.rv >= r.rv

(* Coalescing, the concurrent loops and the unconditional f.c.Delete never *)
(* make a queued revision disappear: it, or one that supersedes it, waits  *)
(* in c or the store has answered for it (flusher.go:92-95, 143, 158).     *)
NoSilentLoss ==
    \A r \in queued : \E q \in queued :
        /\ Supersedes(q, r)
        /\ q \in c \cup acked \cup failedWrites

(* Somebody still knows that the write of r failed: the retry cache under  *)
(* r's key, the slice of failed revisions of a cycle, or the goroutine     *)
(* that is about to append to it.                                          *)
RetryIsDue(r) ==
    \/ \E x \in retryCache : Key(x) = Key(r)
    \/ \E l \in Loops : r \in failed[l]
    \/ \E t \in tasks : t.rev = r /\ t.phase \in {"failed", "appending"}

(* "error flushing, will retry": every failed write is remembered for the  *)
(* retry loop (flusher.go:66-73, 141, 156).                                *)
FailedIsRetried == \A r \in failedWrites : RetryIsDue(r)

(* While the process runs, every queued revision is superseded by one that *)
(* the store acknowledged, whatever writes failed before.                  *)
EventuallyStored ==
    \A r \in Events :
        r \in queued ~> \/ \E q \in acked : Supersedes(q, r)
                        \/ run # "running"

(* A flush cycle ends and its loop waits for the next tick again: neither  *)
(* the wait group nor the shared write semaphore blocks it for ever.       *)
FlushCycleEnds ==
    \A l \in Loops : pc[l] = "flush" ~> pc[l] = "tick" \/ run # "running"
=============================================================================
