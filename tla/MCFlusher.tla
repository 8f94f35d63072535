------------------------------ MODULE MCFlusher ------------------------------
(* Small instances of Flusher: object a is created and changed, object b   *)
(* is created.                                                             *)
EXTENDS Flusher

MCRevision(res, rv, ts, deleted) ==
    [res |-> res, rv |-> rv, ts |-> ts, deleted |-> deleted]

Updates == {MCRevision("a", 1, 1, FALSE), MCRevision("a", 2, 2, FALSE)}

MCFewEvents == Updates \cup {MCRevision("b", 1, 2, FALSE)}
=============================================================================
