---------------------------- MODULE RevisionCache ----------------------------
(***************************************************************************)
(* The coalescing cache of pkg/controller/cache/cache.go, which the        *)
(* flusher and the purger use as their queues.                             *)
(*                                                                         *)
(* The Go map m is modelled by the set of its values: the key of a value   *)
(* is always keyFunc of it.  Every operation runs under the cache's lock,  *)
(* so each is one atomic operator.                                         *)
(***************************************************************************)
EXTENDS Integers

CONSTANT keyFunc(_)      \* the key function given to New

(* A map holds one value per key.                                          *)
OnePerKey(m) == \A x, y \in m : keyFunc(x) = keyFunc(y) => x = y

(* Mutant of Cache: the entry that rev replaces stays.                     *)
CacheWithoutReplace(m, rev) ==
    LET cached == {x \in m : keyFunc(x) = keyFunc(rev)}
    IN  IF \A x \in cached : x.rv < rev.rv THEN m \cup {rev} ELSE m

(* Cache(rev): insert, or replace an entry of a lower resource version.    *)
(* An entry of the same resource version stays and rev is dropped.         *)
Cache(m, rev) ==
    LET cached == {x \in m : keyFunc(x) = keyFunc(rev)}
    IN  IF \A x \in cached : x.rv < rev.rv
        THEN (m \ cached) \cup {rev}
        ELSE m

(* SafeCopy(): the values of m at this instant, in no particular order.    *)
SafeCopy(m) == {x : x \in m}

(* Mutant of Delete: whatever is under rev's key goes, newer or not.       *)
DeleteAnyVersion(m, rev) == {x \in m : keyFunc(x) # keyFunc(rev)}

(* Delete(rev): forget the entry under rev's key, unless it has been       *)
(* replaced by another resource version since.                             *)
Delete(m, rev) ==
    {x \in m : ~(keyFunc(x) = keyFunc(rev) /\ x.rv = rev.rv)}

=============================================================================
