------------------------------- MODULE Archive -------------------------------
(***************************************************************************)
(* What the archive of revisions promises, without its caches, loops and   *)
(* failures: a revision is stored, then acknowledged, and only goes when   *)
(* the object was deleted or has a newer acknowledged revision.            *)
(*                                                                         *)
(* pkg/store and pkg/controller/{reaper,purger} are meant to implement     *)
(* this; module Retention is the detailed specification.                   *)
(***************************************************************************)
EXTENDS Revision

CONSTANT Events          \* the revisions that are ever handed to the store

VARIABLES
    archive,             \* the keys whose blob can be read back
    seen                 \* the revisions acknowledged to the writer

vars == <<archive, seen>>

TypeOK == archive \subseteq Keys /\ seen \subseteq Events

(* A revision, or its key, may go if it is a tombstone or a newer revision *)
(* of the object is acknowledged.                                          *)
Expendable(r) == r.deleted \/ \E q \in seen : q.res = r.res /\ q.rv > r.rv

Init == archive = {} /\ seen = {}

Store(r) ==
    /\ archive' = archive \cup {Key(r)}
    /\ UNCHANGED seen

Acknowledge(r) ==
    /\ Key(r) \in archive \/ Expendable(r)
    /\ seen' = seen \cup {r}
    /\ UNCHANGED archive

Purge(k) ==
    /\ Expendable(k)
    /\ archive' = archive \ {k}
    /\ UNCHANGED seen

Next ==
    \/ \E r \in Events : Store(r) \/ Acknowledge(r)
    \/ \E k \in archive : Purge(k)

Spec == Init /\ [][Next]_vars

(* The newest acknowledged revision of an object, unless it records the    *)
(* deletion, is in the archive: "never purge the last revision of an       *)
(* object unless it's deleted" (reaper.go:85).                             *)
NewestSurvives == \A r \in seen : Expendable(r) \/ Key(r) \in archive
=============================================================================
