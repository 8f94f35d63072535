------------------------------ MODULE Revision ------------------------------
(***************************************************************************)
(* A revision of a Kubernetes object and the key it is stored under        *)
(* (pkg/store/revision.go).                                                *)
(*                                                                         *)
(* Of a revision the model keeps the resource it belongs to (apiVersion,   *)
(* kind, namespace and name are one value of Resources), its resource      *)
(* version, the time it was taken and the deletion mark.  Time is counted  *)
(* in ticks; the key only holds whole seconds.                             *)
(***************************************************************************)
EXTENDS Integers, Decimal

CONSTANTS
    Resources,        \* the objects of the cluster, one value per ResourceKey
    TicksPerSecond    \* resolution of time.Now() relative to Unix seconds

ASSUME TicksAssumption == TicksPerSecond \in Nat \ {0}

(* The fields of struct revision.  resourceVersion is an int parsed from   *)
(* the decimal string the API server hands out.                            *)
Revisions == [res : Resources, rv : Nat, ts : Int, deleted : BOOLEAN]

(* time.Time.Unix(): the fraction of a second is dropped.                  *)
Unix(ts) == ts \div TicksPerSecond

ResourceKey(rev) == rev.res

(* Mutant of Key: the version is not part of the name.                     *)
KeyBySecond(rev) == [res     |-> ResourceKey(rev),
                     rv      |-> 0,
                     sec     |-> Unix(rev.ts),
                     deleted |-> rev.deleted]

(* The name of the blob: <resource key>/<rv>-<unix seconds>.json, with the *)
(* suffix .deleted for a tombstone.                                        *)
Key(rev) == [res     |-> ResourceKey(rev),
             rv      |-> rev.rv,
             sec     |-> Unix(rev.ts),
             deleted |-> rev.deleted]

Keys == [res : Resources, rv : Nat, sec : Int, deleted : BOOLEAN]

(* Reading a key back: the timestamp comes out on a whole second.          *)
ParseLazyLoadingRevision(key) == [res     |-> key.res,
                                  rv      |-> key.rv,
                                  ts      |-> key.sec * TicksPerSecond,
                                  deleted |-> key.deleted]

(* The order in which a bucket lists the keys of one object.               *)
WalkBefore(k, l) ==
    \/ DecimalBefore(k.rv, l.rv)
    \/ k.rv = l.rv /\ k.sec < l.sec
    \/ k.rv = l.rv /\ k.sec = l.sec /\ ~k.deleted /\ l.deleted

=============================================================================
