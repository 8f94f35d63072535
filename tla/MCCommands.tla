----------------------------- MODULE MCCommands -----------------------------
(* A small archive for module Commands.                                    *)
EXTENDS Commands

(* Object a changes.  The others have a name, a namespace, a kind or a     *)
(* group that is easily taken for one of a's.                              *)
MCMeta ==
    ("a" :> [gv |-> "v1", kind |-> "Pod", ns |-> "ns1", name |-> "web"]) @@
    ("b" :> [gv |-> "v1", kind |-> "Pod", ns |-> "ns1", name |-> "web2"]) @@
    ("c" :> [gv |-> "v1", kind |-> "Pod", ns |-> "ns10", name |-> "web"]) @@
    ("t" :> [gv |-> "v1", kind |-> "PodTemplate", ns |-> "ns1",
             name |-> "web"]) @@
    ("n" :> [gv |-> "v1", kind |-> "Node", ns |-> "", name |-> "web"]) @@
    ("j" :> [gv |-> "batch/v1", kind |-> "CronJob", ns |-> "ns1",
             name |-> "web"]) @@
    ("k" :> [gv |-> "batch/v1beta1", kind |-> "CronJob", ns |-> "ns1",
             name |-> "web"])

MCLonger == {<<"web", "web2">>, <<"ns1", "ns10">>, <<"Pod", "PodTemplate">>,
             <<"batch/v1", "batch/v1beta1">>}

MCStanding == [res \in DOMAIN MCMeta \ {"a"} |-> [f \in Fields |-> 0]]

Resource(gv, kind, full, aliases, namespaced, sub) ==
    [gv |-> gv, kind |-> kind, full |-> full, aliases |-> aliases,
     namespaced |-> namespaced, sub |-> sub]

MCPods  == Resource("v1", "Pod", "pod.", {"pod", "pods", "po"}, TRUE, FALSE)
MCPodSt == Resource("v1", "Pod", ".", {"pod", "pods/status"}, TRUE, TRUE)
MCNodes == Resource("v1", "Node", "node.", {"node", "nodes"}, FALSE, FALSE)
MCJobs  == Resource("batch/v1", "CronJob", "cronjob.batch",
                    {"cronjob", "cronjobs"}, TRUE, FALSE)
MCBeta  == Resource("batch/v1beta1", "CronJob", "cronjob.batch",
                    {"cronjob", "cronjobs"}, TRUE, FALSE)

(* The API server stops to offer the beta version.                         *)
MCOffer == <<MCPods, MCPodSt, MCNodes, MCJobs>>

MCDiscoveries == {MCOffer \o <<MCBeta>>, MCOffer}

MCOneDiscovery == {MCOffer}

MCQueries ==
    {[arg |-> "", name |-> "", ns |-> "ns1", all |-> FALSE, selector |-> None,
      load |-> FALSE],
     [arg |-> "all", name |-> "web", ns |-> "", all |-> FALSE,
      selector |-> None, load |-> FALSE],
     [arg |-> "pods", name |-> "web", ns |-> "ns1", all |-> FALSE,
      selector |-> None, load |-> TRUE],
     [arg |-> "pods", name |-> "", ns |-> "ns1", all |-> FALSE,
      selector |-> {[f \in Fields |-> 0]}, load |-> TRUE],
     [arg |-> "pods", name |-> "", ns |-> "ns1", all |-> FALSE,
      selector |-> None, load |-> FALSE],
     [arg |-> "pod", name |-> "web", ns |-> "ns1", all |-> TRUE,
      selector |-> None, load |-> FALSE],
     [arg |-> "nodes", name |-> "", ns |-> "ns1", all |-> FALSE,
      selector |-> None, load |-> FALSE],
     [arg |-> "cronjob", name |-> "web", ns |-> "", all |-> FALSE,
      selector |-> None, load |-> FALSE],
     [arg |-> "cronjob.batch", name |-> "web", ns |-> "ns1", all |-> FALSE,
      selector |-> None, load |-> FALSE],
     [arg |-> "widget", name |-> "", ns |-> "ns1", all |-> FALSE,
      selector |-> None, load |-> FALSE]}

MCNamed == {[arg |-> "pods", name |-> "web", ns |-> "ns1"],
            [arg |-> "pod", name |-> "web", ns |-> "ns1"],
            [arg |-> "pod", name |-> "web", ns |-> "ns2"]}
=============================================================================
