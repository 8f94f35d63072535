---------------------------- MODULE StoreConfig ----------------------------
(***************************************************************************)
(* The configuration in the store (pkg/store/config/config.go): the list   *)
(* of API resources the cluster offered when saiki watch was started last, *)
(* and how a command finds the kind that an argument means.                *)
(*                                                                         *)
(* An API resource is [gv, kind, full, aliases, namespaced, sub]: full is  *)
(* <singular name>.<group>, aliases are the other names that are compared  *)
(* (kind, singular, plural and short names, in lower case), and sub says   *)
(* that it is a subresource such as pods/status.                           *)
(***************************************************************************)
EXTENDS Integers, SequencesExt

APIResources == [gv : STRING, kind : STRING, full : STRING,
                 aliases : SUBSET STRING, namespaced : BOOLEAN, sub : BOOLEAN]

(* Mutant of Matching: any version of the kind will do.                    *)
MatchingLast(found, a, arg) ==
    IF arg = a.full \/ arg \in a.aliases
    THEN [exact |-> FALSE, mapping |-> {a}] ELSE found

(* One step of the search: the full name ends it, any other name replaces  *)
(* what was found before.                                                  *)
Matching(found, a, arg) ==
    IF found.exact THEN found
    ELSE IF arg = a.full THEN [exact |-> TRUE, mapping |-> {a}]
    ELSE IF arg \in a.aliases THEN [exact |-> FALSE, mapping |-> {a}]
    ELSE found

(* What is found after each step.                                          *)
Matched(config, arg) ==
    LET after[i \in 0..Len(config)] ==
            IF i = 0 THEN [exact |-> FALSE, mapping |-> {}]
            ELSE Matching(after[i - 1], config[i], arg)
    IN  after

(* The API resource in a set, or none: "the store doesn't have a resource  *)
(* type".                                                                  *)
BestResourceMappingFor(config, arg) ==
    Matched(config, arg)[Len(config)].mapping
=============================================================================
