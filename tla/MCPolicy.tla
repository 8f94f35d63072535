------------------------------ MODULE MCPolicy ------------------------------
(* Policies of up to two rules over two kinds and two namespaces.          *)
EXTENDS Policy

(* The default of the policy, and the RPO policies of its rules: none, or  *)
(* one of which nothing, the age or the RPO is given.                      *)
MCDefaultRPO == [rpo |-> 2, purge |-> 7]

MCRPO(names, selector) ==
    CASE names = <<>> /\ selector = None -> None
      [] names = <<>> /\ selector # None -> [rpo |-> 0, purge |-> 0]
      [] names # <<>> /\ selector = None -> [rpo |-> 0, purge |-> 5]
      [] OTHER                           -> [rpo |-> 3, purge |-> 0]

MCRules == {[groups |-> g, resources |-> r, names |-> n, namespaces |-> ns,
             selector |-> l, rpo |-> MCRPO(n, l)] :
               g \in {<<"*">>, <<"v1">>},
               r \in {<<>>, <<"Pod">>, <<"pods">>},
               n \in {<<>>, <<"n1">>, <<"*">>},
               ns \in {<<>>, <<"ns1">>},
               l \in {None, {"app"}}}

MCAPIResources == {[gv |-> "v1", name |-> "pods", kind |-> "Pod",
                    verbs |-> TRUE],
                   [gv |-> "v1", name |-> "bindings", kind |-> "Binding",
                    verbs |-> FALSE],
                   [gv |-> "batch/v1", name |-> "jobs", kind |-> "Job",
                    verbs |-> TRUE]}

(* Without its content a revision's labels do not matter.                  *)
MCRevs == {r \in [gv : {"v1", "batch/v1"}, kind : {"Pod", "Job"},
                  ns : {"ns1", "ns2"}, name : {"n1", "n2"},
                  labels : {"app", "db"}, loadable : BOOLEAN] :
              /\ r.gv = "v1" <=> r.kind = "Pod"
              /\ r.loadable \/ r.labels = "app"}
=============================================================================
