---------------------------- MODULE MCController ----------------------------
(* Small clusters for module Controller.                                   *)
EXTENDS Controller

(* A change to the content an object has already is one of fields that are *)
(* not checked; the labels that go with "other" are not selected.          *)
MCContents == {"x", "y", "other"}
MCSelected == {"x", "y"}

MCArchived(deleted) ==
    [res |-> "b", rv |-> 1, content |-> "x", deleted |-> deleted]

(* Object a is watched from the start, alone or next to an object of which *)
(* only a tombstone is left; or b was archived and is not watched any more.*)
MCSetups ==
    {[handled |-> {"a"}, archive |-> {}],
     [handled |-> {"a"}, archive |-> {MCArchived(TRUE)}],
     [handled |-> {}, archive |-> {MCArchived(FALSE)}]}

MCWatched == {[handled |-> {"a"}, archive |-> {}]}
=============================================================================
