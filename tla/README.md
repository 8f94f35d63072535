# A TLA+ model of saiki

saiki backs up the objects of a Kubernetes cluster. `saiki watch` follows the
cluster and writes a *revision* of every object that changes, and a *tombstone*
for every object that is deleted, to a blob store; `saiki state` and `saiki
revisions` read that archive and restore from it.

This directory holds TLA+ modules of saiki's own logic (`pkg/` and `cmd/`), TLC
configurations that check them on small instances, and theorems that TLAPS
proves for every value of their constants. `PROJECT.json` lists the parts, the
runs, the lines each definition translates, the hazards and the theorems.

## The system

| part | state | operations | who uses it |
|---|---|---|---|
| informers (`controller.go`, client-go) | the objects a watch knows | add, update, delete, hourly resync | callbacks put items on the queue of the handler |
| controller (`pkg/controller/controller.go`) | handlers, queues, workers | `New`, `Run`, `syncStore`, `processUnstructured`, `different`, `handleDeletion` | reads the informer's store and the archive, queues revisions at the flusher |
| backup policy, handlers (`policy/`, `handler/`) | rules, handlers by kind and namespace | `RuleFor`, `getDynamics`, `HandlerFor` | controller and reaper |
| flusher (`pkg/controller/flusher`) | `c`, `retryCache`, two tickers | `Queue`, two loops over `flush`, `Stop` | writes to the store, concurrently if it can |
| revision cache (`pkg/controller/cache`) | a locked map from key to revision | `Cache`, `SafeCopy`, `Delete` | flusher and purger |
| store (`storage.go`, `readwrite.go`, `inmemory_getter.go`, `asyncwriter.go`) | blobs, `latestCache`, in-memory copy, write semaphore | `Update`, `Delete`, `Get`, `List`, `State`, `Sync`, `PurgeRevisions` | everyone |
| reaper, purger (`reaper/`, `purger/`) | list of old revisions; purge queue | `reap`, `purge` | read State, remove blobs |
| store configuration (`pkg/store/config`) | `config.json`: the API resources of the cluster | `WriteConfig`, `ReadConfig`, `BestResourceMappingFor` | written by the watcher at start, read by every command |
| commands (`cmd/`) | none of their own | `state`, `revisions get/delete/apply`, `watch` | a process per command, next to the watcher |

What is hard about it: workers overtake each other and compare an object with a
store that is behind the flusher; the flusher coalesces revisions while the
previous ones are being written, by two loops that share a semaphore and a
cache; a failed write leaves the cache before it is in the retry cache; a write
reaches the backend, `latestCache` and the in-memory reader one after the
other, while the reaper judges a snapshot and the purger acts on the judgement
later; blob keys hold whole seconds and are listed in the order of strings, by
prefixes; revisions are loaded lazily, from the object's latest revision, and
shared between the start-up comparison and the in-memory reader; calls of
`RuleFor` fill in the same RPO policies; a command talks to a store and a
cluster that change under it; and nothing is flushed when the process ends.

What makes the parts correct:

* flusher: a queued revision is written or superseded, a failed write is tried
  again, and a flush cycle ends;
* store, reaper, purger: nothing counts as stored that is not, only tombstones
  and superseded revisions are removed, and old ones are removed in the end;
* controller: when things are quiet, the newest revision of an object in the
  archive has its last fields, or is a tombstone if the object is gone; an
  object that is there is never buried; a process that was killed at any moment
  comes up again and makes up for what was lost;
* policy: the rule of an object is the most specific one, with the RPO it says
  or inherits, and the places that interpret rules agree;
* commands: an argument means the kind it names; `state` answers for the objects
  asked for and no others, with the last revision before the time asked for;
  `delete` removes what it is asked to and says so; `apply` restores it.

## Modules

| module | models | built on |
|---|---|---|
| `Decimal` | the order of decimal strings | |
| `Revision` | a revision, its key, reading the key back, the order of keys | `Decimal` |
| `RevisionCache` | `pkg/controller/cache` as operators on sets of revisions, for a key function | |
| `Flusher` | `flusher.go` with `asyncwriter.go` | `Revision`, two instances of `RevisionCache` |
| `Archive` | what the archive promises; abstract | `Revision` |
| `Retention` | the store under concurrent writes, reaper and purger | `Revision`, instances of `RevisionCache` and `Archive` |
| `Controller` | informers, queue, workers, start-up comparison, flush cycle, both stores, the end of the process and the next start | `Revision`, instance of `RevisionCache` |
| `Policy` | rules, watches, handlers, filters, inheritance of RPO policies | |
| `StoreConfig` | the API resources in the store and what an argument means | |
| `Commands` | `saiki state` and `saiki revisions`, next to `saiki watch` | `Revision`, `StoreConfig` |
| `FlusherProofs`, `RetentionProofs`, `ControllerProofs`, `PolicyProofs`, `CommandsProofs` | theorems about the module of that name | |
| `CaptureProofs`, `DeletionProofs` | that `Controller` captures changes, and deletions | `ControllerProofs` |
| `NaturalFacts` | induction over the natural numbers, that a loop has a value after every step, and that decimal strings are in order | `Decimal` |
| `MC...` | the sets TLC needs | the module of that name |

**Revision.** Group, version, kind, namespace and name of an object are one
value of `Resources`. Time is counted in ticks, `TicksPerSecond` of them a
second; `Key` drops the fraction, and `ParseLazyLoadingRevision` gives a
timestamp on a whole second. `WalkBefore` is the string order of keys (version
10 before version 9).

**Flusher.** `c` and `retryCache` are sets with one revision per key. Each loop
has a program counter; a write is a record in `tasks` with the phase it is in.
The append to `failedFlushRevs` is two steps, `AppendRead` and `AppendWrite`,
because the response goroutines do it without a lock. `AcquireFails` is a
semaphore acquisition under a cancelled context. With `Async = FALSE` the loop
waits for each write. `queued`, `acked` and `failedWrites` are history.

**Retention.** A writer goes through `save`, `latest`, `mem` and `respond` in
the order of `ReadWriteStore.Update`. `Faults` selects how saving may go wrong:
`create` is an error, `write` leaves a torn blob and an error, `close` loses
the blob and is not reported (`storage.go:343`). The reaper takes a snapshot
(of the reader, or of the backend when `EnableCache` is off), judges one
revision at a time with its own reading of the clock, and queues afterwards.
The purger removes, then evicts from the reader, then forgets; with `Bulk` a
removal may go unreported (`blob.go:200`). The flusher is the environment: it
writes each event once and rewrites the failed ones as often as it likes.

**Controller.** Of an object only the checked fields are kept. `phase` is where
`Run` is: informers list (`ListObject`), `WaitForCacheSync`, the walk of `Sync`
key by key, `SetDeleted` and `Queue` for every stale revision, and the workers.
The informer changes `known` before it queues; a worker is in one of the phases of
`processUnstructured`, so that everything can happen between the question to the
informer's store, the read of the archive and the queueing. There are both stores:
`archive` and `latestCache` of the backend store, `m` and `latest` of the
in-memory reader. A walked revision has content `Lazy`; it is loaded from the
object's latest live revision (`LoadLatest`, or the unlocked `LoadListed` and the
later `Memoize`), and if there is none the process ends (`revision.go:170`). Two
things are coarser here than elsewhere: `Write` is the save, the update of the
reader and `f.c.Delete` in one step, which `Retention` and `Flusher` take apart,
and the walk goes by the number of the version (`NextKeys`), where `Commands` and
`Retention` go by the string. `SyncDelete` marks the reader's own revision,
because `Sync` hands out pointers. `Crash` ends the process at any moment and
leaves the blobs. Writes succeed here; failing ones belong to `Flusher`. The
removal of revisions and timestamps are left to the other modules. `filtered`,
`recreated`, `late` and `crashes` are history.

**Policy.** A policy is any sequence of up to `MaxRules` rules. `Watch` is what
`getDynamics` and `New` make of it. A call is `Call` (the loop of `RuleFor`),
`InheritRPO` and `InheritPurge` (the writes through the shared pointer), and
`Filter`; `heap` holds what the pointers point to, at 0 the policy's own RPO
policy. `Others` is any other call that has chosen a rule and fills in a field.
The check for zero and the write are one step, since all calls write the same
value. Label selectors are sets of label values; a selector on a revision whose
content cannot be loaded skips the rule. A first name `*` is any name to
`nameMatch` (`backuppolicy.go:91`) and a name like any other to
`handleResourceFilter` (`controller.go:557`).

**StoreConfig.** `BestResourceMappingFor` is a loop over the stored list: the
full name ends the search, any other name is overruled by a later one. The names
of an API resource are a set; that they are compared in lower case is left out.

**Commands.** A blob is a key and the content saved under it, a content a record
of fields. `Meta` gives an object its group, kind, namespace and name, and
`Longer` says which of those strings start others. `StartWatch` writes the
configuration. A change takes three steps to the archive, because the order of
versions, of seconds and of writes need not be the same: the API server gives it a
version and reports it (`Accept`, `Vanish`), a worker takes up any of the reports
and stamps it with the time it has then (`Process` with `RevisionFrom`,
`revision.go:285`), as a tombstone if the object is gone by now, and `Flush`
writes any of the revisions so made. `SyncStore` makes a tombstone with the
version and the second of an archived revision (`controller.go:335`). A report
that is discarded, or a revision that is replaced in the flusher's cache or lost,
is one that is never taken up or never written. One version may be stored under
several seconds, as a live revision and as a tombstone. `StateOptions` is what
`saiki state` makes of its arguments, `WalkRoot`, `UnderRoot` and `Skipped` decide
which objects are walked, `Visit` which revision is kept, and `Visited` is the
walk of one object. `delete` and `apply` are jobs: `RemoveChunk` is one request of
`RemoveAll`, and `LoadContent`, `Create`, `GetCurrent` and `Patch` are the calls
of `apply`, while the cluster changes and `saiki watch` stores the changes. `out`
is what was printed; it is `Nothing` again before anything else happens, which
only keeps the model small. Whether the provider removes in bulk is chosen with
each `delete`. `Content` is `LazyLoadingRevision.Content`, which loads the
object's latest revision. `--at` and `--ago` of `saiki revisions` are always
refused, because `viper.GetString("revision")` is `"0"` and not empty when `-r` is
not given (`revisions.go:64`); the code behind them is not reached.

## Runs

`tlc -config X.cfg M` in this directory; deadlock is checked except where the
cluster or the process may come to rest.

| run | shows |
|---|---|
| `flusher_sync` | `TypeOK`, `NoSilentLoss`, `FailedIsRetried`, and under fairness `EventuallyStored`, for a synchronous client, failing writes and an interrupt at any time |
| `flusher_async` | `NoSilentLoss` and `FlushCycleEnds` with concurrent writers behind one permit that both loops want |
| `flusher_lost_failure` | **violated**: `FailedIsRetried`. Two response goroutines append at once and one failed revision is lost (`flusher.go:141`) |
| `retention` | `NewestSurvives`, the refinement `ArchiveSpec` and `ExpiredIsPurged` with failing and retried writes |
| `retention_faults` | `TypeOK` and `PurgePlanJustified` with torn writes and unreported removals: what is to be purged is followed by a blob that can be read or will be written again |
| `retention_uncached` | `PurgeKeepsOne` when the reaper reads the backend, with lost writes and a deletion |
| `retention_lost_write` | **violated**: `PurgeKeepsOne`. A write whose `Close` failed counts as the last revision, and the stored one is purged |
| `controller` | `ChangesCaptured`, `DeletionsCaptured`, `LivingAreNotBuried` and `ReaderNamesBlobs`, and under fairness `EventuallyCaptured` and `EventuallyUp`, with two workers, both kinds of store, a kill at any moment, unreadable blobs, deletions of an old version and another object in the archive |
| `controller_recreated` | **violated**: `ObjectsCaptured`. An object deleted and created again with the same fields stays recorded as deleted |
| `policy` | `RuleIsMostSpecific`, `RPOIsInherited` and `MatchedIsKept` for all policies of one or two rules, with and without `*` as a name, with other calls in between |
| `commands` | `TypeOK`, `AnswersWhatWasAsked`, `StateIsLatest` and `NewestIsExported` for `saiki state` at every time, `PrintsWhatWasAsked`, `DeleteIsExact`, `DeleteIsComplete` and `ApplyNewestRestores` for `saiki revisions`, while the changes of an object among six of similar names are taken up and written in any order |
| `commands_restore` | **violated**: `ApplyRestores`. `apply -r N` applies the newest content whatever `N` is |

Each property of a passing run has a mutant of the code (`PROJECT.json`) that
violates it.

### Bounds

* Flusher: two revisions of one object are what coalescing, `f.c.Delete` and
  the two loops can confuse; the lost failure needs a second object, which
  `MCFewEvents` has. One permit makes the loops wait for each other.
* Retention: two versions of one object with rewrites, all interleavings of
  two writers, reaper and purger. One of them must be older than a tick for the
  reaper (`PurgeOlderThan = 0`, `MaxNow` 1 or 2). `retention_faults` adds a
  tombstone with the version of the last revision, `retention_uncached` one with
  a version of its own; its versions have one digit each, so string order is
  numeric order.
* Controller: two workers, one kill; versions up to 3 are a change and a
  deletion, or two changes, after the object appeared, before or after a start.
  A third content is not selected by the policy. There are three set-ups: an
  object that is watched, alone or next to one of which only a tombstone is
  archived, and an archived object that nobody watches, with
  `--delete-untracked`. In the second of them the process may end at every start,
  which `EventuallyUp` and `EventuallyCaptured` except. A resync
  finds the workers at rest: it comes once an hour. Versions have one digit, so
  the walk is in numeric order. Deletions carry a version of their own or, when
  they are noticed by listing again, the last one; the cache may drop a
  tombstone of the latter kind (`cache.go:62`), and `DeletionsCaptured` excepts
  the object until the next start.
* Policy: rules over one name or `*`, one namespace, two groups, kind and resource
  name, with and without selector, and with no RPO policy or one of which
  nothing, the age or the RPO is given; revisions that match each of them or not.
* Commands: versions 9 and 10, so that string and numeric order differ; four
  ticks in two seconds, so that revisions share a second and State, which is
  asked for every moment up to now, sees both seconds. Two unwritten revisions
  (`MaxUnsaved`) are what can be written in the other order; reports may wait as
  long as they like. Two fields of two values are what a patch can mix.
  `ChunkSize` 1 makes two chunks of two keys and an empty one after them; the
  theorems are for every number of keys and every size. `commands_restore` has
  three versions. The other objects differ from the one that changes
  in a longer name, namespace or kind, have no namespace, or have one kind in
  two versions, of which the API server stops to offer one.

### Fairness

* `Flusher`: weak fairness of each loop and of each response goroutine while
  the process runs (tickers and the Go scheduler); strong fairness of starting a
  write, because the semaphore serves waiters in the order they came; and for
  `EventuallyStored` only, strong fairness of a successful write: the store does
  not reject one revision for ever. `FlushCycleEnds` does without it.
* `Retention`: weak fairness of ticker, reaper, purger, writers and the retry
  loop; strong fairness of saving and removing, as above.
* `Controller`: weak fairness of starting again (a pod is restarted), of
  listing, of the start-up comparison, of each worker and of the flush loop.
  Nothing is assumed of the cluster, which must only come to rest (`MaxRV`), or
  of kills, which must end (`MaxCrashes`); resyncs may go on for ever.

## Theorems

`tlapm M.tla` checks each of them, for any set of events, objects, rules and
queries, any number of permits, workers and versions, and any clock. Properties
that follow a thing through several hands are seldom inductive; the invariants
named below say where the thing is meanwhile.

**Flusher and Retention**

* `FlusherProofs!TypeCorrect`: types, and both caches are maps.
* `FlusherProofs!NothingLostSilently`: `Spec => []NoSilentLoss` for both kinds
  of client. `NoSilentLoss` is not inductive: when `f.c.Delete` drops a
  revision, one must know that the store has answered for it. `LossInv` adds
  `HoldsQueued` (whatever is in `c`, `toFlush` or a task was queued) and
  `Answered` (a task that is past writing is acknowledged or failed).
  `CacheSupersedes` says what `Cache` may replace.
* `FlusherProofs!SyncFailuresAreRetried`: with `~Async`, `[]FailedIsRetried`.
  `OneAppender` says that a loop has at most one task in the two append phases,
  so the slice that is written back is the one that was read. This is what the
  asynchronous client breaks, as `flusher_lost_failure` shows.
* `RetentionProofs!TypeCorrect`: types of the store, reaper and purger.
* `RetentionProofs!PurgePlansAreJustified`: what is `Planned`, from the snapshot
  of the reaper to the queue of the purger, is followed by a blob that can be read
  or is due to be written again, or the object was deleted. It assumes
  `SavesAreKept`: with the reader no write is lost unreported, which is the case
  that `retention_lost_write` shows. It follows from `KeepInv`, below.
* `RetentionProofs!StoreImplementsArchive`: with the reader and with saving that
  stores the whole blob or reports an error, `Retention` implements `Archive`.
  `PlanInv` says that the reader only holds acknowledged revisions, and that what
  was picked is a tombstone or superseded by one; `SavedInv` adds that a writer
  past `save` has its blob in the backend, or one that is superseded. The
  condition is needed: the runs with `close` violate the conclusion.
* `RetentionProofs!NewestAlwaysSurvives`: the newest acknowledged revision of
  a live object can be read back; from the refinement and an invariant of
  `Archive` alone.
* `RetentionProofs!RemovalsKeepOne`: `Spec => PurgeKeepsOne`, with the reader and
  without. Nothing the reaper knows at the time says that the removal is harmless
  later, so `KeepInv` says it of all that is `Planned`, from the snapshot to the
  queue of the purger: a key that the reaper takes for a later one is in the
  backend, or a tombstone of the object was written (`Followed`). A removal may
  take away that key as well, but then it is planned itself, and what follows it
  follows the other (`LaterOrder`). That needs the order to be strict and
  transitive, which for the reaper without the reader is the order of the walk,
  of strings. The revision that is kept there is the last of the walk and need
  not be the newest, if versions differ in length.
  `SavesAreWhole` asks for whole blobs and, with the reader only, for no unreported
  loss: with torn blobs, or with the lost ones of `retention_lost_write`, the
  conclusion is false. A reaper that reads the backend sees what
  was stored, so there the theorem holds with `close` faults too.

**Controller**

* `ControllerProofs!TypeCorrect`: `TypeInv` adds to `TypeOK` that `latestCache`,
  and the revision a worker is about to memoize, have been loaded; otherwise a
  lazy revision could reach the archive without content.
* `ControllerProofs!LivingNeverBuried`, `ReaderAlwaysNamesBlobs`: a tombstone is
  decided on long before it is a blob, and the object may change on the way. The
  heart of `SafeInv` is `Doomed`: every tombstone, in a worker's hand, in the
  cache, in the flush cycle or in the archive, is older than the object if that
  exists. It needs `Issued` (what is on its way to the archive, or in it, has a
  version that the API server has given out), `Started` and `Watched` (what has
  been listed in which phase) and `Stale` (what the start-up comparison is to
  delete is of an object that nobody watches, or that was deleted).
* `CaptureProofs!ChangesAlwaysCaptured`: `CaptureInv` says of every object that
  exists, and did all the time, that the newest of all that is in the archive or
  on its way there, in the queue, with a worker, in the cache or in the flush
  cycle, has its last fields (`Captured`). Workers
  overtake each other, so it also says that copies are `Ordered` by version, that
  one version has one content, and what a worker that compares or caches has
  before it (`ComparesBefore`, `CachesBefore`). When everything is at rest only
  the archive is left.
* `DeletionProofs!DeletionsAlwaysCaptured`: `DeletionInv` says of every object that
  is gone that whatever the archive has of it is followed by a tombstone of that
  version or a later one, or by something that will become one (`Passing`): a
  tombstone in the cache or in the flush cycle, a revision that the start-up
  comparison has yet to meet, the report of the deletion in the queue, or a worker
  that has not asked the informer yet. A live revision that may still be written
  (`Reviving`) has to be followed by a later version, because the cache keeps the
  first of two revisions of one version (`cache.go:62`); this is why
  `DeletionsCaptured` excepts the objects in `late`. `MayDrop` says what a step may
  drop, `CacheDying` what caching a revision replaces, `WriteDeletion` what a write
  to the archive leaves of the cache. At every
  kill the invariant starts over: all that is archived is compared again.

`SetupsAssumption` says that the archive of an earlier process is of objects that
are not watched now: no version has been given out yet when the model starts.
What is left over of watched objects comes about by `Crash` and the next start.

**Policy**

* `PolicyProofs!RuleAlwaysMostSpecific`, `RPOAlwaysInherited` and
  `MatchedAlwaysKept`, for policies of any length. `PolicyInv` has `Calling`
  (the call holds what `RuleFor` returns), `Filling` (what a shared pointer
  points to is as configured or filled in from the policy, and the fields that
  the call is past are filled in) and `Deciding` (what handlers and filters
  make of it). The loop of `RuleFor` is followed rule by rule.
* `MatchedAlwaysKept` is an equivalence: of the objects that a rule matches in
  everything, those are dropped whose first such rule has `*` for their name, and
  no others. There is no condition on the rules.

**Commands**

All properties of the run `commands` are proved.
`CommandInv` adds to the types `Archived`, that a version of an object has one
content wherever it is known, in a report, in a revision that is not written, in the
archive and in the cluster, and `Working`, which says of a running command what
it may rely on although `saiki watch` goes on storing. Nothing is said of the
order of versions and seconds, which is free:

* `DeleteAlwaysExact`, `DeleteAlwaysComplete`: a removal only holds live keys that
  it listed; what it printed is gone, unless `saiki watch` wrote it again, and
  is all that was requested so far unless an answer was incomplete (`Deleting`).
  `ChunkFacts` is about the chunks: each lies within the keys, they leave none
  out, and the last one, which may be empty, ends with the last key.
* `NewestAlwaysRestored`: an application holds a live revision that is still
  there and, if that was the newest when it was loaded, its content
  (`Restoring`). `AcceptedInv` is about what the patch makes of it.
* `StateAlwaysLatest`, `NewestAlwaysExported`: `VisitedFacts` follows the walk key by
  key: what is found is the latest, by the seconds of the keys, of those visited.
  That it is also the newest version is false (see below). `LoadedFacts` says that
  lazy loading gets the content of the newest live revision.
* `AlwaysAnswersWhatWasAsked`, `AlwaysPrintsWhatWasAsked`: `MappingFacts` follows
  the search of `BestResourceMappingFor` to the entry an argument means,
  `RootFacts` shows that whatever is not skipped lies below the root of the walk,
  so that the root only saves time, and `ScopeFacts` that the options select what
  was asked for. For a query without a kind only that everything that is asked for
  is answered is claimed, if it gives a namespace.

Assumed of Kubernetes: an object is known by group, kind, namespace and name
(`MetaAssumption`), only the namespace may be empty (`NamesAssumption`), and a
kind has namespaces or has none (`ScopeAssumption`).

**The order of versions**

`NaturalFacts!DecimalOrder`: `DecimalBefore` is a strict total order on the numbers
of up to ten digits, which is all that it compares. `Commands` and `Retention`
assume that versions have no more (`VersionAssumption`). The proof looks at the
*stems* of a number, what is left of it when its last digits are taken away: two
strings part where their stems first differ or where one ends, and above that place
all stems agree (`StemsAgreeAbove`). Both the walk of `State` in `Commands` and the
reaper without the reader rest on it.

### Only model-checked

* Liveness (`EventuallyStored`, `FlushCycleEnds`, `ExpiredIsPurged`,
  `EventuallyCaptured`, `EventuallyUp`): the prover has no fairness.

All other properties of the passing runs, invariants, action properties and the
refinement, are theorems.

Loops over sequences are written as recursive functions (`Matched`, `Visited` and
the loop of `RuleFor`), and sorting as a choice among the lists of a set, because
the provers know neither the folds nor `SortSeq`. Induction over the length of a
loop is `InductionUpTo` in `NaturalFacts`, which is stated for sets of numbers
instead of predicates.

## What the runs leave out on purpose

Some behaviour of the code is described by the models and excepted in a
property, because nothing in the repository says it should be otherwise:

* an archive that has only tombstones of an object, because its live revisions
  were removed, ends `saiki watch` at every start while the object is gone, and
  `saiki state` with labels or contents (`revision.go:170`): `EventuallyUp`, and
  `EventuallyCaptured` of the other objects;
* after a refused patch `apply` prints an error and then that the revision was
  applied (`revisions.go:244`): `ApplyNewestRestores`;
* `saiki state` names tombstones like any other revision (`state.go:171`):
  `StateIsLatest`;
* a bulk removal without an answer forgets what it removed before
  (`blob.go:201`): `DeleteIsComplete`.

### Known disagreements that no run shows

The models have these too, and the properties of the passing runs leave them
open, each in its comment. They are not claimed to be right: the words of the
repository say otherwise.

* `delete -r N` of a version that is not stored goes on with all live revisions of
  the object, without `--all` too (`revisions.go:108`); the help of `--all` says
  "Must be set when deleting without a revision specified" (`revisions.go:261`):
  `DeleteIsExact`;
* `saiki state` without a kind ignores `--namespace` (`state.go:81`); its help says
  "If present, the namespace scope for this request" (`state.go:198`):
  `AnswersWhatWasAsked`;
* a worker that takes an older version up a second later than another takes a
  newer one makes `saiki state` name the older one (`revision.go:285`,
  `storage.go:228`), which is not "the point-in-time state" (`state.go:41`):
  `StateIsLatest` goes by the seconds;
* a first resource name `*` is any name to `RuleFor` and none to the filter
  (`backuppolicy.go:91`, `controller.go:557`), so the objects a rule with it
  matches are watched and dropped: `MatchedIsKept` says exactly when;
* a rule with resources `pods`, which makes saiki watch pods (`controller.go:237`),
  matches a Pod by its group at most, because `RuleFor` looks for the kind
  (`backuppolicy.go:93`, against 47); of two such rules the later one wins and its
  names may drop the object the other one is for: `MatchedIsKept` is about rules
  that match in everything;
* without `--enable-cache` the reaper has the last revision of the walk kept, which
  is not the newest across a change of the length of the version
  (`storage.go:183`), and may be a torn blob (`storage.go:344`); `reaper.go:85`
  says "never purge the last revision of an object unless it's deleted":
  `PurgeKeepsOne` is checked for versions of one length and whole blobs.

## Not modelled

Metrics, HTTP server, flags, output formats, encryption and the fakes do not
touch the state the properties are about. Left out as well:

* the `Time` and `OnlyDeleted` filters of the in-memory reader, which cut a list
  while they run through it (`inmemory_getter.go:141`): no caller uses them;
* errors in the middle of a walk or a list, and blobs with foreign names, which
  end the operation that meets them;
* the purger next to a command that deletes or applies: `Commands` has no
  removal but its own, so a chosen revision is still there when it is loaded;
* retries in `Commands`: a revision is written once there, and what the retry
  loop writes again is the subject of `Retention`;
* an informer that never lists, for a namespaced rule on a cluster-scoped kind;
* the fields a rule inherits from its policy, which are the checked fields.

## Plan

1. Done: `Revision`, `RevisionCache`, `Flusher`, `Archive`, `Retention`,
   `Controller` with both stores, kills and restarts, `Policy` with the
   inheritance of RPO policies, `StoreConfig`, `Commands` with kinds, prefixes,
   chunks and the steps of `apply`; proofs for each of them.
2. Done: proofs of every safety property that a passing run checks.
3. Left: the retry cache that never shrinks; commands next to the purger.
