------------------------------ MODULE Commands ------------------------------
(***************************************************************************)
(* The commands that read the archive: saiki state (cmd/state.go) and      *)
(* saiki revisions get|delete|apply (cmd/revisions.go).  Both run in a     *)
(* process of their own without the in-memory reader, while the cluster    *)
(* changes and saiki watch goes on writing revisions.  One command runs at *)
(* a time, in steps where it talks to the backend or the API server more   *)
(* than once; what it has printed is seen before anything else happens.    *)
(*                                                                         *)
(* A blob is a key with the content that was saved under it.  Meta tells   *)
(* which group, kind, namespace and name an object of Resources has.       *)
(***************************************************************************)
EXTENDS Revision, StoreConfig

CONSTANTS
    Meta,          \* [Resources -> [gv, kind, ns, name]], ns "" if it has none
    Longer,        \* the pairs of those strings of which one starts the other
    Standing,      \* contents of the objects that are there and do not change
    Discoveries,   \* what the API server may offer: sequences of API resources
    Fields, Values,
    Queries,       \* saiki state: [arg, name, ns, all, selector, load]
    Named,         \* saiki revisions: [arg, name, ns]
    ChunkSize,     \* keys per request of a bulk removal
    FirstRV,       \* the resource version the cluster has got to
    MaxRV,         \* bound on resource versions
    MaxNow,        \* bound on the clock, in ticks
    MaxUnsaved,    \* bound on the revisions that wait to be written
    None

Contents == [Fields -> Values]

ASSUME StandingAssumption == /\ DOMAIN Standing \subseteq Resources
                             /\ \A res \in DOMAIN Standing :
                                   Standing[res] \in Contents
ASSUME MetaAssumption     == /\ Meta \in [Resources -> [gv : STRING, kind : STRING,
                                                   ns : STRING, name : STRING]]
                             /\ \A x, y \in Resources : Meta[x] = Meta[y] => x = y
ASSUME OfferAssumption    == \A d \in Discoveries : d \in Seq(APIResources)
ASSUME ChunkAssumption    == ChunkSize \in Nat \ {0}
ASSUME BoundsAssumption   == /\ FirstRV \in Nat /\ MaxRV \in Nat /\ MaxNow \in Nat
                             /\ FirstRV <= MaxRV
ASSUME NoneAssumption     == None \notin Contents \cup Keys \cup Discoveries

(* Only a namespace may be empty.                                          *)
ASSUME NamesAssumption ==
    /\ \A res \in Resources :
          "" \notin {Meta[res].gv, Meta[res].kind, Meta[res].name}
    /\ \A d \in Discoveries : \A i \in DOMAIN d : "" \notin {d[i].gv, d[i].kind}

(* The objects of a kind have namespaces, or none of them has.             *)
ASSUME ScopeAssumption ==
    \A d \in Discoveries, res \in Resources : \A i \in DOMAIN d :
        d[i].gv = Meta[res].gv /\ d[i].kind = Meta[res].kind
        => (d[i].namespaced <=> Meta[res].ns # "")

(* Versions are strings to the backend, of at most ten digits here.        *)
ASSUME VersionAssumption == MaxRV \in TenDigits

VARIABLES
    now,           \* the clock, in ticks
    lastRV,        \* the last resource version given out
    blobs,         \* the revisions in the backend
    config,        \* config.json, None if there is none
    cluster,       \* the objects of the cluster
    version,       \* their resource versions
    reports,       \* what saiki watch was told and has not looked at
    unsaved,       \* the revisions it has made and not written
    job,           \* the command that is running, None if there is none
    out            \* what the last command printed

clusterVars == <<now, lastRV, cluster, version, reports>>
vars == <<clusterVars, unsaved, blobs, config, job, out>>

Blobs   == [key : Keys, content : Contents]
Reports == [res : Resources, rv : Nat, content : Contents]
Nothing == [cmd |-> "none"]

(* Another revision may wait to be written.                                *)
Room == Cardinality(unsaved) < MaxUnsaved

(* Types, that a key names one blob, and that the live revisions of one    *)
(* version have one content.                                               *)
TypeOK ==
    /\ now \in 0..MaxNow
    /\ lastRV \in FirstRV..MaxRV
    /\ cluster \in [Resources -> Contents \cup {None}]
    /\ version \in [Resources -> FirstRV..MaxRV]
    /\ reports \subseteq Reports
    /\ unsaved \subseteq Blobs
    /\ blobs \subseteq Blobs
    /\ \A x, y \in blobs : x.key = y.key => x = y
    /\ \A x, y \in blobs :
          /\ x.key.res = y.key.res /\ x.key.rv = y.key.rv
          /\ ~x.key.deleted /\ ~y.key.deleted
          => x.content = y.content
    /\ config \in Discoveries \cup {None}
    /\ job # None => job.cmd \in {"delete", "apply"}
    /\ out.cmd \in {"none", "state", "get", "delete", "apply", "error",
                    "fatal"}

Init ==
    /\ now = 0
    /\ lastRV = FirstRV
    /\ blobs = {}
    /\ config = None
    /\ cluster = [res \in Resources |->
                     IF res \in DOMAIN Standing THEN Standing[res] ELSE None]
    /\ version = [res \in Resources |-> FirstRV]
    /\ reports = {}
    /\ unsaved = {}
    /\ job = None
    /\ out = Nothing

-----------------------------------------------------------------------------
(* Reading the archive.                                                    *)

Stored == {b.key : b \in blobs}

KeysOf(res) == {k \in Stored : k.res = res}

LiveKeys(res) == {k \in KeysOf(res) : ~k.deleted}

ContentAt(key) == (CHOOSE b \in blobs : b.key = key).content

(* The keys of an object in the order of a walk.                           *)
Walk(res) ==
    CHOOSE s \in SetToSeqs(KeysOf(res)) :
        \A i, j \in DOMAIN s : i < j => WalkBefore(s[i], s[j])

(* List: the live revisions, sorted by resource version.                   *)
List(res) ==
    CHOOSE s \in SetToSeqs(LiveKeys(res)) :
        \A i, j \in DOMAIN s : i < j => s[i].rv <= s[j].rv

(* Mutant of latestRevision: the first of the list.                        *)
latestRevisionFirst(res) ==
    IF List(res) = <<>> THEN None ELSE Head(List(res))

(* latestRevision: the list is run through with latestTS left at zero, so  *)
(* every revision replaces the one before.                                 *)
latestRevision(res) ==
    IF List(res) = <<>> THEN None ELSE Last(List(res))

(* Content of a revision that is loaded lazily: Get looks for the latest   *)
(* revision of the object, whichever revision it was asked for.            *)
Content(key) == ContentAt(latestRevision(key.res))

(* There is none, which ends the process (revision.go:170).                *)
Unloadable(res) == latestRevision(res) = None

-----------------------------------------------------------------------------
(* The cluster and saiki watch.  Of what saiki watch does on the way from  *)
(* an event to a blob (the subject of Controller, Flusher and Retention)   *)
(* the commands see the delays: a change has its version from the API      *)
(* server, its timestamp from the worker that takes it up, and is in the   *)
(* archive when the flusher has written it, and others may overtake it in  *)
(* between.  What is discarded, replaced or lost is never taken up or      *)
(* never written.                                                          *)

Tick ==
    /\ out = Nothing
    /\ now < MaxNow
    /\ now' = now + 1
    /\ UNCHANGED <<lastRV, cluster, version, reports, unsaved, blobs, config,
                   job, out>>

(* RevisionFrom: the timestamp is that of the moment it is called.         *)
RevisionFrom(u, deleted) ==
    [key |-> Key([res |-> u.res, rv |-> u.rv, ts |-> now,
                  deleted |-> deleted]),
     content |-> u.content]

(* New() stores what the API server offers now, in place of what it        *)
(* offered before; when saiki is started first the objects that are there  *)
(* are stored.                                                             *)
StartWatch(d) ==
    /\ out = Nothing
    /\ config # d
    /\ config' = d
    /\ blobs' = IF config # None THEN blobs
                ELSE {RevisionFrom([res |-> res, rv |-> FirstRV,
                                    content |-> Standing[res]], FALSE) :
                         res \in DOMAIN Standing}
    /\ UNCHANGED <<clusterVars, unsaved, job, out>>

(* The API server gives the object content x and the next version, and     *)
(* saiki watch is told.                                                    *)
Accept(res, x) ==
    IF x = cluster[res] THEN UNCHANGED <<lastRV, cluster, version, reports>>
    ELSE /\ lastRV < MaxRV
         /\ lastRV' = lastRV + 1
         /\ cluster' = [cluster EXCEPT ![res] = x]
         /\ version' = [version EXCEPT ![res] = lastRV + 1]
         /\ reports' = reports \cup
                {[res |-> res, rv |-> lastRV + 1, content |-> x]}

(* An object is created or changed.                                        *)
Store(res, x) ==
    /\ out = Nothing
    /\ config # None
    /\ x # cluster[res]
    /\ Accept(res, x)
    /\ UNCHANGED <<now, unsaved, blobs, config, job, out>>

(* An object is deleted.  It is reported as it was last, with a version of *)
(* its own, or with its last one if the deletion is noticed when the       *)
(* objects are listed again (DeletedFinalStateUnknown).                    *)
Vanish(res, rv) ==
    /\ out = Nothing
    /\ config # None
    /\ cluster[res] # None
    /\ lastRV < MaxRV
    /\ lastRV' = lastRV + 1
    /\ cluster' = [cluster EXCEPT ![res] = None]
    /\ reports' = reports \cup
          {[res |-> res, rv |-> rv, content |-> cluster[res]]}
    /\ UNCHANGED <<now, version, unsaved, blobs, config, job, out>>

(* A worker takes up any of the reports, makes a revision of it and looks  *)
(* the object up.  Whatever was reported, it has been deleted if it is not *)
(* there now.                                                              *)
Process(u) ==
    /\ out = Nothing
    /\ Room
    /\ reports' = reports \ {u}
    /\ unsaved' = unsaved \cup {RevisionFrom(u, cluster[u.res] = None)}
    /\ UNCHANGED <<now, lastRV, cluster, version, blobs, config, job, out>>

(* syncStore of a later start finds a revision of an object that is not    *)
(* there and marks it as deleted.  It keeps its version and its time.      *)
SyncStore(key) ==
    /\ out = Nothing
    /\ Room
    /\ cluster[key.res] = None
    /\ latestRevision(key.res) # None
    /\ unsaved' = unsaved \cup {[key     |-> [key EXCEPT !.deleted = TRUE],
                                content |-> Content(key)]}
    /\ UNCHANGED <<clusterVars, blobs, config, job, out>>

(* A deletion is running.                                                  *)
Removing == job # None /\ job.cmd = "delete"

(* The flusher writes a revision, over a blob of that name.                *)
Flush(b) ==
    /\ out = Nothing
    /\ unsaved' = unsaved \ {b}
    /\ blobs' = {x \in blobs : x.key # b.key} \cup {b}
    /\ job' = IF Removing THEN [job EXCEPT !.again = @ \cup {b.key}] ELSE job
    /\ UNCHANGED <<clusterVars, config, out>>

-----------------------------------------------------------------------------
(* saiki state.                                                            *)

Idle == job = None /\ out = Nothing

Answer(o) == out' = o /\ job' = None

(* The API resource an argument means; without a configuration there is    *)
(* none.                                                                   *)
Mappings(arg) ==
    IF config = None THEN {} ELSE BestResourceMappingFor(config, arg)

(* saiki state without an argument, or with "all", is about every kind.    *)
EveryKind(q) == q.arg \in {"", "all"}

(* The configuration cannot be read, or does not know the kind.            *)
Misdirected(q) ==
    /\ Idle
    /\ config = None \/ (~EveryKind(q) /\ Mappings(q.arg) = {})
    /\ Answer([cmd |-> IF config = None THEN "fatal" ELSE "error"])
    /\ UNCHANGED <<clusterVars, unsaved, blobs, config>>

(* The options of State: "" stands for any.  The namespace is only used    *)
(* for a kind that has them.                                               *)
StateOptions(q) ==
    LET options == [gv |-> "", kind |-> "", ns |-> "", name |-> q.name,
                    all |-> q.all]
    IN  IF EveryKind(q) THEN {options}
        ELSE {[options EXCEPT !.gv = a.gv, !.kind = a.kind,
                              !.ns = IF a.namespaced THEN q.ns ELSE ""] :
                 a \in Mappings(q.arg)}

(* The directory of an object.                                             *)
Path(res) ==
    LET m == Meta[res]
    IN  IF m.ns = "" THEN <<m.gv, m.kind, m.name>>
        ELSE <<m.gv, m.kind, m.ns, m.name>>

WalkRoot(o) ==
    CASE o.kind # "" /\ o.ns # "" /\ ~o.all /\ o.name # ""
            -> <<o.gv, o.kind, o.ns, o.name>>
      [] o.kind # "" /\ o.ns # "" /\ ~o.all /\ o.name = ""
            -> <<o.gv, o.kind, o.ns>>
      [] o.kind # "" /\ (o.ns = "" \/ o.all) -> <<o.gv, o.kind>>
      [] OTHER -> <<>>

(* A bucket lists what starts with the root, also the objects, namespaces  *)
(* and kinds whose names go on where the root ends.                        *)
UnderRoot(root, res) ==
    /\ Len(root) <= Len(Path(res))
    /\ \A i \in DOMAIN root :
          \/ Path(res)[i] = root[i]
          \/ i = Len(root) /\ <<root[i], Path(res)[i]>> \in Longer

(* Mutant of Skipped: the root of the walk is trusted with the name.       *)
SkippedByScope(o, res) ==
    \/ ~o.all /\ o.ns # "" /\ Meta[res].ns # o.ns
    \/ o.kind # "" /\ Meta[res].kind # o.kind
    \/ o.gv # "" /\ Meta[res].gv # o.gv

(* The first revision of such an object makes the walk skip the rest.      *)
Skipped(o, res) ==
    \/ ~o.all /\ o.ns # "" /\ Meta[res].ns # o.ns
    \/ o.name # "" /\ Meta[res].name # o.name
    \/ o.kind # "" /\ Meta[res].kind # o.kind
    \/ o.gv # "" /\ Meta[res].gv # o.gv

(* Mutant of Visit: a revision that was found is kept.                     *)
VisitFirst(found, key, time, selector) ==
    IF /\ time > ParseLazyLoadingRevision(key).ts
       /\ found = None
       /\ selector # None => Content(key) \in selector
    THEN key ELSE found

(* One step of the walk of State: revisions not before the time are        *)
(* passed over, and a later one replaces the one found, if its labels are  *)
(* selected.                                                               *)
Visit(found, key, time, selector) ==
    IF /\ time > ParseLazyLoadingRevision(key).ts
       /\ \/ found = None
          \/ ParseLazyLoadingRevision(key).ts
                > ParseLazyLoadingRevision(found).ts
       /\ selector # None => Content(key) \in selector
    THEN key ELSE found

(* What is found after each step of the walk.                              *)
Visited(res, time, selector) ==
    LET after[i \in 0..Len(Walk(res))] ==
            IF i = 0 THEN None
            ELSE Visit(after[i - 1], Walk(res)[i], time, selector)
    IN  after

StateOf(o, res, time, selector) ==
    IF ~UnderRoot(WalkRoot(o), res) \/ Skipped(o, res) THEN None
    ELSE Visited(res, time, selector)[Len(Walk(res))]

(* Labels are compared, or contents written, of an object that has none.   *)
Fails(o, q, time) ==
    \E res \in Resources :
        /\ q.selector # None \/ q.load
        /\ Unloadable(res)
        /\ StateOf(o, res, time, None) # None

(* The time is now, a whole second (--at) or any moment before now         *)
(* (--ago).  The contents are printed or written to files if asked for.    *)
State(q, time) ==
    /\ Idle
    /\ config # None
    /\ \E o \in StateOptions(q) :
          LET found == [res \in Resources |->
                           StateOf(o, res, time, q.selector)]
          IN  Answer(IF Fails(o, q, time) THEN [cmd |-> "fatal"]
                    ELSE [cmd |-> "state", q |-> q, time |-> time,
                          found |-> found,
                          content |-> [res \in Resources |->
                                          IF q.load /\ found[res] # None
                                          THEN Content(found[res])
                                          ELSE None]])
    /\ UNCHANGED <<clusterVars, unsaved, blobs, config>>

-----------------------------------------------------------------------------
(* saiki revisions.  revision is 0 when -r is not given; timed says that   *)
(* --at or --ago is.                                                       *)

(* viper.GetString("revision") is "0" by default and never empty, so the   *)
(* command refuses every use of --at and --ago, and what it does with them *)
(* further down is not reached.                                            *)
Refused(verb, revision, all, timed) ==
    \/ verb = "delete" /\ ~all /\ revision = 0
    \/ verb = "apply" /\ revision = 0 /\ ~timed
    \/ timed

(* Mutant of ObjectsNamed: the namespace is forgotten.                     *)
ObjectsAnywhere(a, q) ==
    {res \in Resources :
        /\ Meta[res].gv = a.gv /\ Meta[res].kind = a.kind
        /\ Meta[res].name = q.name}

(* The object with the mapped kind and the name; the namespace is only     *)
(* used for a kind that has them.                                          *)
ObjectsNamed(a, q) ==
    {res \in Resources :
        Meta[res] = [gv |-> a.gv, kind |-> a.kind, name |-> q.name,
                     ns |-> IF a.namespaced THEN q.ns ELSE ""]}

(* Mutant of Choose: every revision up to the one that is asked for.       *)
ChooseUpTo(res, revision) ==
    IF \E k \in KeysOf(res) : k.rv = revision
    THEN SelectSeq(List(res), LAMBDA k : k.rv <= revision)
    ELSE List(res)

(* The revisions a verb is applied to: all of them, or the last one of the *)
(* version that is asked for.                                              *)
Choose(res, revision) ==
    LET list  == List(res)
        asked == {i \in DOMAIN list : list[i].rv = revision}
    IN  IF asked = {} THEN list ELSE <<list[Max(asked)]>>

(* The chosen revisions of the object, none if nothing is stored of it.    *)
Chosen(a, q, revision) ==
    IF ObjectsNamed(a, q) = {} THEN <<>>
    ELSE Choose(CHOOSE res \in ObjectsNamed(a, q) : TRUE, revision)

Get(q, revision, timed) ==
    /\ Idle
    /\ config # None
    /\ ~Refused("get", revision, FALSE, timed)
    /\ \E a \in Mappings(q.arg) :
          Answer([cmd |-> "get", q |-> q,
                  printed |-> Chosen(a, q, revision)])
    /\ UNCHANGED <<clusterVars, unsaved, blobs, config>>

(* PurgeRevisions of the chosen revisions, if there are any.  bulk says    *)
(* that the provider removes many keys with one request; again are the     *)
(* keys that are written meanwhile.                                        *)
Delete(q, revision, all, timed, bulk) ==
    /\ Idle
    /\ config # None
    /\ ~Refused("delete", revision, all, timed)
    /\ \E a \in Mappings(q.arg) :
          /\ Chosen(a, q, revision) # <<>>
          /\ job' = [cmd |-> "delete", revision |-> revision,
                     keys |-> Chosen(a, q, revision),
                     listed |-> UNION {LiveKeys(res) :
                                          res \in ObjectsNamed(a, q)},
                     bulk |-> bulk, chunk |-> 0, printed |-> {},
                     faulty |-> FALSE, again |-> {}]
    /\ UNCHANGED <<clusterVars, unsaved, blobs, config, out>>

(* Mutant of Chunks: rounded down without the one for the rest.            *)
FullChunks(keys, bulk) ==
    IF bulk THEN (Len(keys) - 1) \div ChunkSize ELSE Len(keys)

(* How many requests RemoveAll makes: len(keys)/chunkSize+1 for a bulk     *)
(* removal, the last one empty if the keys come out even, and one for each *)
(* key otherwise.                                                          *)
Chunks(keys, bulk) ==
    IF bulk THEN Len(keys) \div ChunkSize + 1 ELSE Len(keys)

Chunk(keys, bulk, i) ==
    LET size == IF bulk THEN ChunkSize ELSE 1
    IN  ToSet(SubSeq(keys, i * size + 1, Min({(i + 1) * size, Len(keys)})))

Removed(printed, faulty) ==
    Answer([cmd |-> "delete", printed |-> printed, faulty |-> faulty,
            chosen |-> ToSet(job.keys), again |-> job.again])

(* One request of RemoveAll.  Not all of its keys need to go, and not all  *)
(* that are gone need to be reported; the next request follows anyway.     *)
RemoveChunk ==
    /\ Removing
    /\ LET chunk == Chunk(job.keys, job.bulk, job.chunk)
       IN  \E gone \in SUBSET chunk : \E told \in SUBSET gone :
              LET printed == job.printed \cup told
                  faulty  == job.faulty \/ told # chunk
              IN  /\ blobs' = {b \in blobs : b.key \notin gone}
                  /\ IF job.chunk + 1 < Chunks(job.keys, job.bulk)
                     THEN /\ job' = [job EXCEPT !.chunk = @ + 1,
                                                !.printed = printed,
                                                !.faulty = faulty]
                          /\ UNCHANGED out
                     ELSE Removed(printed, faulty)
    /\ UNCHANGED <<clusterVars, unsaved, config>>

(* A bulk request without an answer ends the removal, and the answers that *)
(* came before are forgotten.                                              *)
RemoveUnanswered ==
    /\ Removing
    /\ job.bulk
    /\ \E gone \in SUBSET Chunk(job.keys, job.bulk, job.chunk) :
          blobs' = {b \in blobs : b.key \notin gone}
    /\ Removed({}, TRUE)
    /\ UNCHANGED <<clusterVars, unsaved, config>>

(* The first of the chosen revisions is applied.                           *)
Apply(q, revision, overwrite, timed) ==
    /\ Idle
    /\ config # None
    /\ ~Refused("apply", revision, FALSE, timed)
    /\ \E a \in Mappings(q.arg) :
          IF Chosen(a, q, revision) = <<>> THEN Answer([cmd |-> "error"])
          ELSE /\ job' = [cmd |-> "apply", at |-> "content",
                          key |-> Head(Chosen(a, q, revision)),
                          overwrite |-> overwrite, sub |-> a.sub,
                          content |-> None, current |-> None,
                          newest |-> FALSE]
               /\ UNCHANGED out
    /\ UNCHANGED <<clusterVars, unsaved, blobs, config>>

Applying(at) == job # None /\ job.cmd = "apply" /\ job.at = at

Applied(printed) ==
    Answer([cmd |-> "apply", key |-> job.key, printed |-> printed,
            current |-> job.current, newest |-> job.newest])

(* Content of the revision, which is by now the newest one or is not.      *)
LoadContent ==
    /\ Applying("content")
    /\ \/ /\ job' = [job EXCEPT
                        !.at = IF job.overwrite THEN "get" ELSE "create",
                        !.content = Content(job.key),
                        !.newest = \A k \in LiveKeys(job.key.res) :
                                      k.rv <= job.key.rv]
          /\ UNCHANGED out
       \/ Applied({"error"})
    /\ UNCHANGED <<clusterVars, unsaved, blobs, config>>

(* Create is refused if the object exists, or for other reasons: always    *)
(* for a subresource.                                                      *)
Create ==
    /\ Applying("create")
    /\ \/ /\ ~job.sub
          /\ cluster[job.key.res] = None
          /\ Accept(job.key.res, job.content)
          /\ Applied({"applied"})
       \/ /\ Applied({"error"})
          /\ UNCHANGED <<lastRV, cluster, version, reports>>
    /\ UNCHANGED <<now, unsaved, blobs, config>>

(* Get of the current object with --overwrite.                             *)
GetCurrent ==
    /\ Applying("get")
    /\ \/ /\ job.sub \/ cluster[job.key.res] = None
          /\ job' = [job EXCEPT !.at = "create"]
          /\ UNCHANGED out
       \/ /\ ~job.sub /\ cluster[job.key.res] # None
          /\ job' = [job EXCEPT !.at = "patch",
                                !.current = cluster[job.key.res]]
          /\ UNCHANGED out
       \/ Applied({"error"})
    /\ UNCHANGED <<clusterVars, unsaved, blobs, config>>

(* The merge patch from current to content, applied to the object as it is *)
(* now.                                                                    *)
Merged(current, content, live) ==
    [f \in Fields |-> IF current[f] = content[f] THEN live[f] ELSE content[f]]

(* Mutant of Patch: after a refused patch only "applied" is printed.       *)
PatchSilently ==
    /\ Applying("patch")
    /\ \/ /\ cluster[job.key.res] # None
          /\ Accept(job.key.res, Merged(job.current, job.content,
                                        cluster[job.key.res]))
       \/ UNCHANGED <<lastRV, cluster, version, reports>>
    /\ Applied({"applied"})
    /\ UNCHANGED <<now, unsaved, blobs, config>>

(* After a refused patch the command prints that it was applied as well.   *)
Patch ==
    /\ Applying("patch")
    /\ \/ /\ cluster[job.key.res] # None
          /\ Accept(job.key.res, Merged(job.current, job.content,
                                        cluster[job.key.res]))
          /\ Applied({"applied"})
       \/ /\ Applied({"error", "applied"})
          /\ UNCHANGED <<lastRV, cluster, version, reports>>
    /\ UNCHANGED <<now, unsaved, blobs, config>>

(* The command has ended.                                                  *)
Done ==
    /\ out # Nothing
    /\ out' = Nothing
    /\ UNCHANGED <<clusterVars, unsaved, blobs, config, job>>

Environment ==
    \/ Tick
    \/ \E d \in Discoveries : StartWatch(d)
    \/ \E res \in Resources \ DOMAIN Standing :
          \/ \E x \in Contents : Store(res, x)
          \/ \E rv \in {version[res], lastRV + 1} : Vanish(res, rv)
    \/ \E u \in reports : Process(u)
    \/ \E key \in Stored : SyncStore(key)
    \/ \E b \in unsaved : Flush(b)

Command ==
    \/ \E q \in Queries : Misdirected(q) \/ \E time \in 0..now : State(q, time)
    \/ \E q \in Named, revision \in {0} \cup FirstRV + 1..MaxRV, timed \in BOOLEAN :
          \/ Get(q, revision, timed)
          \/ \E all, bulk \in BOOLEAN : Delete(q, revision, all, timed, bulk)
          \/ \E overwrite \in BOOLEAN : Apply(q, revision, overwrite, timed)
    \/ RemoveChunk
    \/ RemoveUnanswered
    \/ LoadContent
    \/ Create
    \/ GetCurrent
    \/ Patch
    \/ Done

Next == Environment \/ Command

Spec == Init /\ [][Next]_vars

-----------------------------------------------------------------------------

Before(k, time) == ParseLazyLoadingRevision(k).ts < time

(* An argument means the kinds it is a name of, and if it is the full name *)
(* of one, that one in its group.                                          *)
Means(arg, res) ==
    \/ arg \in {"", "all"}
    \/ \E i \in DOMAIN config :
          /\ config[i].gv = Meta[res].gv /\ config[i].kind = Meta[res].kind
          /\ \/ arg = config[i].full
                /\ \A j \in 1..i - 1 : arg # config[j].full
             \/ /\ arg \in config[i].aliases
                /\ \A j \in DOMAIN config :
                      j > i => arg \notin config[j].aliases
                /\ \A j \in DOMAIN config : arg # config[j].full

(* The objects a query is about.                                           *)
Asked(q, res) ==
    /\ Means(q.arg, res)
    /\ q.name \in {"", Meta[res].name}
    /\ q.all \/ q.ns = "" \/ Meta[res].ns \in {"", q.ns}

(* There was a revision of the object before the time.                     *)
Had(res, time) == \E k \in KeysOf(res) : Before(k, time)

(* saiki state names a revision of every object that is asked for and had  *)
(* one, and of no other, although a bucket lists by prefixes               *)
(* (state.go:67-99, storage.go:171-216, config.go:53-75).  What else it    *)
(* names is left open for a query with a namespace and without a kind: the *)
(* code ignores the namespace then (state.go:81), against the help of the  *)
(* flag (state.go:198).                                                    *)
AnswersWhatWasAsked ==
    out.cmd = "state" /\ out.q.selector = None =>
        \A res \in Resources :
            /\ Asked(out.q, res) /\ Had(res, out.time)
               => out.found[res] # None
            /\ out.found[res] # None => Had(res, out.time)
            /\ /\ out.found[res] # None
               /\ ~EveryKind(out.q) \/ out.q.all \/ out.q.ns = ""
               => Asked(out.q, res)

(* saiki revisions get prints live revisions of the object that is asked   *)
(* for (revisions.go:81-112, config.go:53-75).                             *)
PrintsWhatWasAsked ==
    out.cmd = "get" =>
        \A k \in ToSet(out.printed) :
            /\ Means(out.q.arg, k.res) /\ Meta[k.res].name = out.q.name
            /\ Meta[k.res].ns \in {"", out.q.ns}
            /\ k \in LiveKeys(k.res)

(* The state at a point in time names a revision of an object from before  *)
(* it, and none of the others from before it was made in a later second,   *)
(* in whatever order the versions were taken up, written and walked        *)
(* (storage.go:218-249).  It need not be the newest version: the timestamp *)
(* is the worker's, and workers overtake each other (revision.go:285).     *)
StateIsLatest ==
    out.cmd = "state" /\ out.q.selector = None =>
        \A res \in Resources :
            LET f == out.found[res]
            IN  f # None =>
                   /\ f \in KeysOf(res) /\ Before(f, out.time)
                   /\ \A k \in KeysOf(res) :
                         Before(k, out.time) => k.sec <= f.sec

(* What is written for a revision is its content, if it is the newest live *)
(* one of its object (state.go:103-128, revision.go:155-174).              *)
NewestIsExported ==
    out.cmd = "state" /\ out.q.load =>
        \A res \in Resources :
            LET f == out.found[res]
            IN  f # None /\ ~f.deleted
                /\ (\A k \in LiveKeys(res) : k.rv <= f.rv)
                => out.content[res] = ContentAt(f)

(* If there is a live revision of the version that is to be deleted,       *)
(* nothing else goes; and whatever goes was listed, so tombstones, other   *)
(* objects and what is written meanwhile stay (revisions.go:105-112,       *)
(* 166-173, blob.go:171-231).  If there is none the code goes on with all  *)
(* live revisions of the object (revisions.go:108), without --all too,     *)
(* against the help of that flag (revisions.go:261).                       *)
DeleteIsExact ==
    [][\A k \in Stored \ Stored' :
          /\ Removing
          /\ k \in job.listed /\ ~k.deleted
          /\ (\E l \in job.listed : l.rv = job.revision)
             => k.rv = job.revision]_vars

(* What delete prints is gone, unless saiki watch wrote it again, and if   *)
(* every request was answered in full it is all that was chosen, however   *)
(* many chunks that takes (blob.go:179-212).                               *)
DeleteIsComplete ==
    out.cmd = "delete" =>
        /\ Stored \cap out.printed \subseteq out.again
        /\ ~out.faulty => out.printed = out.chosen

(* Every field is what it was in the revision, or was so when the command  *)
(* compared it.                                                            *)
Restored ==
    LET res  == out.key.res
        then == ContentAt(out.key)
    IN  /\ cluster[res] # None
        /\ \A f \in Fields : \/ cluster[res][f] = then[f]
                             \/ /\ out.current # None
                                /\ out.current[f] = then[f]

(* If apply prints nothing but that the newest live revision was applied,  *)
(* then it was, whatever happened to the object meanwhile                  *)
(* (revisions.go:174-249, revision.go:155-174).                            *)
ApplyNewestRestores ==
    out.cmd = "apply" /\ out.printed = {"applied"} /\ out.newest => Restored

(* Applying a revision makes the object what it was then                   *)
(* (revisions.go:179-180, revision.go:155-174).                            *)
ApplyRestores ==
    out.cmd = "apply" /\ out.printed = {"applied"} => Restored
=============================================================================
