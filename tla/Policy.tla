------------------------------- MODULE Policy -------------------------------
(***************************************************************************)
(* The backup policy (pkg/controller/policy/backuppolicy.go): which        *)
(* resources the controller watches because of it (getDynamics,            *)
(* watchDynamic), which handler and which rule a revision gets, what the   *)
(* rule inherits from the policy, and whether the revision is kept.        *)
(*                                                                         *)
(* Workers and reaper call RuleFor at the same time and fill in the same   *)
(* RPO policies.  One call is followed; the others are what they do to     *)
(* the RPO policies in between (Others).                                   *)
(***************************************************************************)
EXTENDS Integers, SequencesExt

CONSTANTS
    Rules,          \* the rules a policy may be made of
    DefaultRPO,     \* BackupPolicy.RPOPolicy as it was read: [rpo, purge]
    MaxRules,       \* bound on the number of rules of a policy
    APIResources,   \* what the API server offers: [gv, name, kind, verbs]
    Revs,           \* revisions: [gv, kind, ns, name, labels, loadable]
    None

(* An RPO policy: zero is a field that is not given.                       *)
RPOs == [rpo : Int, purge : Int]

ASSUME DefaultAssumption == DefaultRPO \in RPOs
ASSUME RulesAssumption   == \A r \in Rules : r.rpo \in RPOs \cup {None}
ASSUME MaxAssumption     == MaxRules \in Nat
ASSUME NoneAssumption    == None \notin Nat \cup Revs \cup RPOs

VARIABLES
    rules,          \* BackupPolicy.Rules
    heap,           \* the RPO policies of the rules, and at 0 the default
    handlers,       \* keys of operator.resourceHandlers, None before New()
    pc,             \* where the call is
    rev,            \* the revision it is about
    rule,           \* the index of the rule RuleFor has chosen
    kept            \* whether processUnstructured goes on with it

vars == <<rules, heap, handlers, pc, rev, rule, kept>>

Handlers == [gv : {a.gv : a \in APIResources},
             kind : {a.kind : a \in APIResources},
             ns : {""} \cup UNION {Range(r.namespaces) : r \in Rules}]

Init ==
    /\ rules \in UNION {[1..n -> Rules] : n \in 1..MaxRules}
    /\ heap = [i \in 0..Len(rules) |->
                  IF i = 0 THEN DefaultRPO ELSE rules[i].rpo]
    /\ handlers = None
    /\ pc = "idle"
    /\ rev = None
    /\ rule = None
    /\ kept = FALSE

In(list, x) == x \in Range(list)

(* An empty list, or one that starts with a star, is for everything.       *)
Everything(list) == list = <<>> \/ Head(list) = "*"

Covers(list, x) == Everything(list) \/ In(list, x)

-----------------------------------------------------------------------------
(* getDynamics: a rule for all namespaces makes one client for all of them *)
(* and ends the search; other rules add a client per namespace.            *)

Wants(r, a) == Covers(r.groups, a.gv) /\ Covers(r.resources, a.name)

Namespaces(a) ==
    LET wanting == {r \in Range(rules) : Wants(r, a)}
    IN  IF \E r \in wanting : Everything(r.namespaces) THEN {""}
        ELSE UNION {Range(r.namespaces) : r \in wanting}

(* New(): every client becomes a handler, if its resource has the verbs.   *)
Watch ==
    /\ handlers = None
    /\ handlers' = {h \in Handlers :
                       \E a \in APIResources : /\ a.verbs
                                               /\ a.gv = h.gv
                                               /\ a.kind = h.kind
                                               /\ h.ns \in Namespaces(a)}
    /\ UNCHANGED <<rules, heap, pc, rev, rule, kept>>

(* Mutant of HandlerFor: no fallback to the handler for all namespaces.    *)
HandlerForNamespace(r) ==
    {h \in handlers : h.gv = r.gv /\ h.kind = r.kind /\ h.ns = r.ns}

(* HandlerFor: the handler of the namespace, or the one for all.           *)
HandlerFor(r) ==
    {h \in handlers : /\ h.gv = r.gv /\ h.kind = r.kind
                      /\ \/ h.ns = r.ns
                         \/ /\ h.ns = ""
                            /\ [h EXCEPT !.ns = r.ns] \notin handlers}

-----------------------------------------------------------------------------
(* RuleFor.                                                                *)

nameMatch(r, v)      == Covers(r.names, v.name)
namespaceMatch(r, v) == Covers(r.namespaces, v.ns)
resourcesMatch(r, v) == Covers(r.resources, v.kind)
groupMatch(r, v)     == Covers(r.groups, v.gv)
labelMatch(r, v)     == r.selector = None \/ v.labels \in r.selector

(* Mutant of Consider: a less specific rule replaces a more specific one.  *)
ConsiderLast(acc, i, v) ==
    LET r == rules[i]
    IN  IF groupMatch(r, v) /\ labelMatch(r, v) /\ ~acc.done
        THEN [ret |-> i, specificity |-> 1,
              done |-> /\ nameMatch(r, v) /\ namespaceMatch(r, v)
                       /\ resourcesMatch(r, v)]
        ELSE acc

(* One iteration: a rule that matches in everything ends the loop; one     *)
(* that matches less is taken unless a more specific one was.  A rule      *)
(* whose labels cannot be compared is passed over.                         *)
Consider(acc, i, v) ==
    LET r     == rules[i]
        group == groupMatch(r, v) /\ labelMatch(r, v)
        res   == resourcesMatch(r, v) /\ group
        ns    == namespaceMatch(r, v) /\ res
        Take(specificity) == [ret |-> i, specificity |-> specificity,
                              done |-> specificity = 4]
    IN  IF acc.done \/ (r.selector # None /\ ~v.loadable) THEN acc
        ELSE IF nameMatch(r, v) /\ ns           THEN Take(4)
        ELSE IF acc.specificity < 4 /\ ns       THEN Take(3)
        ELSE IF acc.specificity < 3 /\ res      THEN Take(2)
        ELSE IF acc.specificity < 2 /\ group    THEN Take(1)
        ELSE acc

(* The loop of RuleFor: what it has found after the first k rules.         *)
Considered(v) ==
    LET after[k \in 0..Len(rules)] ==
            IF k = 0 THEN [ret |-> None, specificity |-> 0, done |-> FALSE]
            ELSE Consider(after[k - 1], k, v)
    IN  after

RuleFor(v) == Considered(v)[Len(rules)].ret

(* A worker asks for the rule of what an informer reported, the reaper for *)
(* that of any revision.                                                   *)
Call(v) ==
    /\ handlers # None
    /\ pc = "idle"
    /\ pc' = IF RuleFor(v) = None THEN "filter" ELSE "rpo"
    /\ rev' = v
    /\ rule' = RuleFor(v)
    /\ UNCHANGED <<rules, heap, handlers, kept>>

(* The RPO policy a rule points to: its own, or that of the policy.        *)
RPOPolicy(i) == IF rules[i].rpo = None THEN 0 ELSE i

(* A field that is zero gets the value of the policy's.                    *)
Inherit(i, field) ==
    heap' = [heap EXCEPT ![RPOPolicy(i)][field] =
                IF @ = 0 THEN heap[0][field] ELSE @]

(* Mutant of InheritRPO: an RPO policy that has an RPO is taken as filled  *)
(* in, also if another call is just doing it.                              *)
InheritUnlessFilled ==
    /\ pc = "rpo"
    /\ pc' = IF heap[RPOPolicy(rule)].rpo = 0 THEN "purge" ELSE "filter"
    /\ Inherit(rule, "rpo")
    /\ UNCHANGED <<rules, handlers, rev, rule, kept>>

InheritRPO ==
    /\ pc = "rpo"
    /\ pc' = "purge"
    /\ Inherit(rule, "rpo")
    /\ UNCHANGED <<rules, handlers, rev, rule, kept>>

InheritPurge ==
    /\ pc = "purge"
    /\ pc' = "filter"
    /\ Inherit(rule, "purge")
    /\ UNCHANGED <<rules, handlers, rev, rule, kept>>

(* Another call of RuleFor has chosen rule i.                              *)
Others(i, field) ==
    /\ handlers # None
    /\ heap[RPOPolicy(i)][field] = 0
    /\ Inherit(i, field)
    /\ UNCHANGED <<rules, handlers, pc, rev, rule, kept>>

(* handleResourceFilter looks at names and labels again.  It does not know *)
(* the star.                                                               *)
handleResourceFilter(v, r) ==
    \/ r.names # <<>> /\ ~In(r.names, v.name)
    \/ ~labelMatch(r, v)

(* processUnstructured after RuleFor up to the handler.                    *)
Filter ==
    /\ pc = "filter"
    /\ pc' = "done"
    /\ kept' = /\ rule # None
               /\ ~handleResourceFilter(rev, rules[rule])
               /\ HandlerFor(rev) # {}
    /\ UNCHANGED <<rules, heap, handlers, rev, rule>>

Return ==
    /\ pc = "done"
    /\ pc' = "idle"
    /\ rev' = None
    /\ rule' = None
    /\ kept' = FALSE
    /\ UNCHANGED <<rules, heap, handlers>>

Next ==
    \/ Watch
    \/ \E v \in Revs : Call(v)
    \/ InheritRPO
    \/ InheritPurge
    \/ \E i \in DOMAIN rules, field \in {"rpo", "purge"} : Others(i, field)
    \/ Filter
    \/ Return

Spec == Init /\ [][Next]_vars

-----------------------------------------------------------------------------

(* How far a rule matches a revision.                                      *)
Level(r, v) ==
    IF ~groupMatch(r, v) \/ ~labelMatch(r, v)
       \/ (r.selector # None /\ ~v.loadable) THEN 0
    ELSE IF ~resourcesMatch(r, v) THEN 1
    ELSE IF ~namespaceMatch(r, v) THEN 2
    ELSE IF ~nameMatch(r, v) THEN 3
    ELSE 4

(* RuleFor returns a rule that matches as far as any does: the first that  *)
(* matches in everything, else the last of the most specific ones          *)
(* (backuppolicy.go:83-128).                                               *)
RuleIsMostSpecific ==
    rev # None =>
        LET best == {i \in DOMAIN rules :
                        \A j \in DOMAIN rules :
                            Level(rules[j], rev) <= Level(rules[i], rev)}
            level == Level(rules[CHOOSE i \in best : TRUE], rev)
        IN  rule = CASE level = 0 -> None
                     [] level = 4 -> Min(best)
                     [] OTHER     -> Max(best)

(* Whichever calls fill in the RPO policies in between, the rule that is   *)
(* returned has its own values where it was given any and the policy's     *)
(* elsewhere, and the policy's never change (backuppolicy.go:129-138): an  *)
(* RPO policy that is used half filled in would purge at once.             *)
RPOIsInherited ==
    /\ heap[0] = DefaultRPO
    /\ pc \in {"filter", "done"} /\ rule # None =>
          LET own == rules[rule].rpo
              Or(x, y) == IF x = 0 THEN y ELSE x
          IN  heap[RPOPolicy(rule)] =
                 IF own = None THEN DefaultRPO
                 ELSE [rpo   |-> Or(own.rpo, DefaultRPO.rpo),
                       purge |-> Or(own.purge, DefaultRPO.purge)]

(* An informer reports the revision to a handler.                          *)
Watched(v) ==
    \E h \in handlers : h.gv = v.gv /\ h.kind = v.kind /\ h.ns \in {"", v.ns}

(* The rule names the object itself, or no object at all.                  *)
Names(r, v) == r.names = <<>> \/ In(r.names, v.name)

(* A watched object that some rule matches in everything is kept if the    *)
(* first of these rules names the object or no object, and only then: the  *)
(* star that is any name to RuleFor is not one to the filter.  What        *)
(* getDynamics registers and HandlerFor finds is otherwise in agreement    *)
(* with these rules (controller.go:223-272, 516-530, 556-574, resource.go: *)
(* 45-53, backuppolicy.go:91).  A rule that lists its resources by name,   *)
(* pods, as getDynamics wants them, is not one of them: RuleFor looks for  *)
(* the kind, Pod, in that list (backuppolicy.go:93).                       *)
MatchedIsKept ==
    LET complete == {i \in DOMAIN rules : Level(rules[i], rev) = 4}
    IN  pc = "done" /\ Watched(rev) /\ complete # {}
        => (kept <=> Names(rules[Min(complete)], rev))
=============================================================================
