----------------------------- MODULE MCRetention -----------------------------
(***************************************************************************)
(* Small instances of Retention.  A tick is half a second.                 *)
(***************************************************************************)
EXTENDS Retention

MCRevision(res, rv, ts, deleted) ==
    [res |-> res, rv |-> rv, ts |-> ts, deleted |-> deleted]

(* An object that changes once.                                            *)
Changed == {MCRevision("a", 1, 0, FALSE), MCRevision("a", 2, 0, FALSE)}

(* An object that is deleted, noticed so late that the tombstone carries   *)
(* its last resource version.                                              *)
Vanished == {MCRevision("a", 1, 0, FALSE), MCRevision("a", 2, 0, FALSE),
             MCRevision("a", 2, 1, TRUE)}

(* An object that changes and is deleted, with a version of its own for it.*)
ChangedAndDeleted == Changed \cup {MCRevision("a", 3, 1, TRUE)}
=============================================================================
