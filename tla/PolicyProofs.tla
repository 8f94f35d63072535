---------------------------- MODULE PolicyProofs ----------------------------
(***************************************************************************)
(* Proofs about Policy, for every policy of any length, every revision and *)
(* every API server.                                                       *)
(***************************************************************************)
EXTENDS Policy, NaturalFacts, SequenceTheorems

-----------------------------------------------------------------------------
(* What RuleFor computes.                                                  *)

(* The accumulator of the loop.                                            *)
Accs == [ret : Nat \cup {None}, specificity : 0..4, done : BOOLEAN]

Nothing == [ret |-> None, specificity |-> 0, done |-> FALSE]

LEMMA LevelType ==
    ASSUME NEW r, NEW v
    PROVE  Level(r, v) \in 0..4
BY DEF Level

(* One iteration takes a rule that matches at all and as far as the one    *)
(* it has, unless that matches in everything.                              *)
LEMMA ConsiderIs ==
    ASSUME NEW acc \in Accs, acc.done <=> acc.specificity = 4,
           NEW i \in Nat, NEW v
    PROVE  LET l == Level(rules[i], v)
           IN  Consider(acc, i, v) =
                  IF l # 0 /\ acc.specificity <= l /\ ~acc.done
                  THEN [ret |-> i, specificity |-> l, done |-> l = 4]
                  ELSE acc
<1>1. acc.specificity \in 0..4
  BY DEF Accs
<1> QED BY <1>1 DEF Consider, Level

(* The loop is a function of the number of rules that it has looked at.    *)
LEMMA ConsideredExists ==
    ASSUME NEW v, NEW n \in Nat
    PROVE  \E f : f = [k \in 0..n |-> IF k = 0 THEN Nothing
                                      ELSE Consider(f[k - 1], k, v)]
<1> DEFINE Is(f, m) == f = [k \in 0..m |-> IF k = 0 THEN Nothing
                                           ELSE Consider(f[k - 1], k, v)]
           S == {m \in Nat : \E f : Is(f, m)}
<1>1. 0 \in S
  <2> DEFINE f == [k \in 0..0 |-> Nothing]
  <2>1. Is(f, 0)
    OBVIOUS
  <2> QED BY <2>1
<1>2. ASSUME NEW m \in S PROVE m + 1 \in S
  <2>1. m \in Nat /\ m + 1 \in Nat
    OBVIOUS
  <2>2. PICK f : Is(f, m)
    BY <1>2
  <2> DEFINE g == [k \in 0..(m + 1) |-> IF k = m + 1 THEN Consider(f[m], m + 1, v)
                                        ELSE f[k]]
  <2>3. \A k \in 0..m : f[k] = IF k = 0 THEN Nothing ELSE Consider(f[k - 1], k, v)
    BY <2>2
  <2>4. \A k \in 0..m : g[k] = f[k]
    BY <2>1
  <2>5. ASSUME NEW k \in 0..(m + 1)
        PROVE  g[k] = IF k = 0 THEN Nothing ELSE Consider(g[k - 1], k, v)
    <3>1. CASE k = m + 1
      <4>1. g[k] = Consider(f[m], m + 1, v) /\ g[m] = f[m] /\ k - 1 = m /\ k # 0
        BY <2>1, <2>4, <3>1
      <4> HIDE DEF g
      <4> QED BY <3>1, <4>1
    <3>2. CASE k # m + 1
      <4>1. k \in 0..m /\ (k # 0 => k - 1 \in 0..m)
        BY <2>1, <3>2
      <4> HIDE DEF g
      <4> QED BY <2>3, <2>4, <4>1
    <3> QED BY <3>1, <3>2
  <2>6. Is(g, m + 1)
    <3>1. g = [k \in 0..(m + 1) |-> g[k]]
      OBVIOUS
    <3> HIDE DEF g
    <3> QED BY <2>5, <3>1
  <2> QED BY <2>1, <2>6
<1>3. S = Nat
  <2>1. S \in SUBSET Nat
    OBVIOUS
  <2> HIDE DEF S
  <2> QED BY <1>1, <1>2, <2>1, InductionForSets
<1>4. n \in S
  BY <1>3
<1> QED BY <1>4

LEMMA ConsideredIs ==
    ASSUME NEW v, rules \in Seq(Rules)
    PROVE  \A k \in 0..Len(rules) :
              Considered(v)[k] = IF k = 0 THEN Nothing
                                 ELSE Consider(Considered(v)[k - 1], k, v)
<1>1. Len(rules) \in Nat
  BY LenProperties
<1>2. PICK f : f = [k \in 0..Len(rules) |-> IF k = 0 THEN Nothing
                                            ELSE Consider(f[k - 1], k, v)]
  BY <1>1, ConsideredExists
<1>3. Considered(v) = [k \in 0..Len(rules) |->
                          IF k = 0 THEN Nothing
                          ELSE Consider(Considered(v)[k - 1], k, v)]
  BY <1>2 DEF Considered, Nothing
<1> QED BY <1>3

(* What the accumulator says of the first k rules: the level of the rule   *)
(* it holds is the highest, and that rule is the first of level 4 or the   *)
(* last of a lower level.                                                  *)
Best(acc, k, v) ==
    LET L(j) == Level(rules[j], v)
    IN  /\ acc \in Accs
        /\ acc.done <=> acc.specificity = 4
        /\ acc.ret = None <=> acc.specificity = 0
        /\ \A j \in 1..k : L(j) <= acc.specificity
        /\ acc.specificity # 0 => acc.ret \in 1..k /\ L(acc.ret) = acc.specificity
        /\ acc.specificity = 4 => \A j \in 1..k : L(j) = 4 => acc.ret <= j
        /\ acc.specificity \in 1..3 =>
              \A j \in 1..k : L(j) = acc.specificity => j <= acc.ret

LEMMA BestStep ==
    ASSUME NEW v, NEW k \in Nat, NEW acc, Best(acc, k, v)
    PROVE  Best(Consider(acc, k + 1, v), k + 1, v)
<1> DEFINE l == Level(rules[k + 1], v)
           new == Consider(acc, k + 1, v)
<1>1. /\ acc \in Accs /\ acc.specificity \in 0..4 /\ l \in 0..4
      /\ acc.done <=> acc.specificity = 4
      /\ \A j \in 1..(k + 1) : Level(rules[j], v) \in 0..4
      /\ None \notin Nat
  BY LevelType, NoneAssumption DEF Best, Accs
<1>2. \A j \in 1..(k + 1) : j \in 1..k \/ (j = k + 1 /\ Level(rules[j], v) = l)
  OBVIOUS
<1>3. /\ acc.ret = None <=> acc.specificity = 0
      /\ \A j \in 1..k : Level(rules[j], v) <= acc.specificity
      /\ acc.specificity # 0 => /\ acc.ret \in 1..k
                                /\ Level(rules[acc.ret], v) = acc.specificity
      /\ acc.specificity = 4 =>
            \A j \in 1..k : Level(rules[j], v) = 4 => acc.ret <= j
      /\ acc.specificity \in 1..3 =>
            \A j \in 1..k : Level(rules[j], v) = acc.specificity => j <= acc.ret
  BY DEF Best
<1>4. CASE l # 0 /\ acc.specificity <= l /\ ~acc.done
  <2>1. new = [ret |-> k + 1, specificity |-> l, done |-> l = 4]
    BY <1>1, <1>4, ConsiderIs
  <2>2. Level(rules[k + 1], v) = l
    OBVIOUS
  <2> HIDE DEF new, l
  <2>3. (l = 4) \in BOOLEAN /\ k + 1 \in Nat
    OBVIOUS
  <2>4. new \in Accs
    BY <1>1, <2>1, <2>3 DEF Accs
  <2>5. new.ret = k + 1 /\ new.specificity = l /\ (new.done <=> l = 4)
    BY <2>1
  <2>6. \A j \in 1..(k + 1) : Level(rules[j], v) <= l
    BY <1>1, <1>2, <1>3, <1>4
  <2>7. l = 4 => \A j \in 1..k : Level(rules[j], v) # 4
    BY <1>1, <1>3, <1>4
  <2>8. l = 4 => \A j \in 1..(k + 1) : Level(rules[j], v) = 4 => new.ret <= j
    BY <1>2, <2>5, <2>7
  <2>9. \A j \in 1..(k + 1) : j <= new.ret
    BY <2>5
  <2>10. new.ret \in 1..(k + 1) /\ new.ret # None
    BY <1>1, <2>5
  <2>11. Best(new, k + 1, v)
    BY <1>4, <2>2, <2>4, <2>5, <2>6, <2>8, <2>9, <2>10 DEF Best
  <2> QED BY <2>11 DEF new
<1>5. CASE ~(l # 0 /\ acc.specificity <= l /\ ~acc.done)
  <2>1. new = acc
    BY <1>1, <1>5, ConsiderIs
  <2>2. l <= acc.specificity /\ (acc.specificity \in 1..3 => l # acc.specificity)
    BY <1>1, <1>5
  <2> HIDE DEF new, l
  <2>3. \A j \in 1..(k + 1) : Level(rules[j], v) <= acc.specificity
    BY <1>2, <1>3, <2>2
  <2>4. acc.specificity # 0 => acc.ret \in 1..(k + 1)
    BY <1>3
  <2>5. acc.specificity = 4 =>
            \A j \in 1..(k + 1) : Level(rules[j], v) = 4 => acc.ret <= j
    BY <1>2, <1>3
  <2>6. acc.specificity \in 1..3 =>
            \A j \in 1..(k + 1) : Level(rules[j], v) = acc.specificity => j <= acc.ret
    BY <1>2, <1>3, <2>2
  <2> QED BY <1>1, <1>3, <2>1, <2>3, <2>4, <2>5, <2>6 DEF Best, new
<1> QED BY <1>4, <1>5 DEF Best

LEMMA RuleForBest ==
    ASSUME NEW v, rules \in Seq(Rules)
    PROVE  Best(Considered(v)[Len(rules)], Len(rules), v)
<1>1. Len(rules) \in Nat
  BY LenProperties
<1> DEFINE S == {n \in Nat : n <= Len(rules) => Best(Considered(v)[n], n, v)}
<1>2. 0 \in S
  <2>1. Considered(v)[0] = Nothing
    BY <1>1, ConsideredIs
  <2>2. Best(Nothing, 0, v)
    BY DEF Best, Nothing, Accs
  <2> QED BY <2>1, <2>2
<1>3. ASSUME NEW n \in S PROVE n + 1 \in S
  <2> SUFFICES ASSUME n + 1 <= Len(rules)
               PROVE  Best(Considered(v)[n + 1], n + 1, v)
    OBVIOUS
  <2>1. n \in Nat /\ n + 1 \in 0..Len(rules) /\ n + 1 # 0 /\ n + 1 - 1 = n
    BY <1>1
  <2>2. Considered(v)[n + 1] = Consider(Considered(v)[n], n + 1, v)
    BY <2>1, ConsideredIs
  <2>3. Best(Considered(v)[n], n, v)
    BY <1>1, <2>1
  <2> QED BY <2>1, <2>2, <2>3, BestStep
<1>4. S = Nat
  <2>1. S \in SUBSET Nat
    OBVIOUS
  <2> HIDE DEF S
  <2> QED BY <1>2, <1>3, <2>1, InductionForSets
<1> QED BY <1>1, <1>4

(* RuleFor returns the first rule that matches in everything, else the     *)
(* last of the most specific ones, or none.                                *)
LEMMA RuleForIs ==
    ASSUME NEW v, rules \in Seq(Rules)
    PROVE  \E s \in 0..4 :
              /\ \A j \in DOMAIN rules : Level(rules[j], v) <= s
              /\ s = 0 <=> RuleFor(v) = None
              /\ s # 0 => /\ RuleFor(v) \in DOMAIN rules
                          /\ Level(rules[RuleFor(v)], v) = s
              /\ s = 4 => \A j \in DOMAIN rules :
                             Level(rules[j], v) = 4 => RuleFor(v) <= j
              /\ s \in 1..3 => \A j \in DOMAIN rules :
                                  Level(rules[j], v) = s => j <= RuleFor(v)
<1>1. DOMAIN rules = 1..Len(rules)
  BY LenProperties
<1>2. Best(Considered(v)[Len(rules)], Len(rules), v)
  BY RuleForBest
<1> DEFINE acc == Considered(v)[Len(rules)]
<1>3. acc.specificity \in 0..4 /\ RuleFor(v) = acc.ret
  BY <1>2 DEF Best, Accs, RuleFor
<1> HIDE DEF acc
<1>4. Best(acc, Len(rules), v)
  BY <1>2 DEF acc
<1> QED BY <1>1, <1>3, <1>4 DEF Best

-----------------------------------------------------------------------------
(* The invariant.                                                          *)

Or(x, y) == IF x = 0 THEN y ELSE x

(* What the RPO policy of rule i is to become.                             *)
Inherited(i, field) == Or(rules[i].rpo[field], DefaultRPO[field])

Fields == {"rpo", "purge"}

(* A call knows its revision and the rule that RuleFor gives it.           *)
Calling ==
    /\ rules \in Seq(Rules) /\ rules # <<>>
    /\ pc \in {"idle", "rpo", "purge", "filter", "done"}
    /\ rev \in Revs \cup {None}
    /\ rev = None <=> pc = "idle"
    /\ rev # None => rule = RuleFor(rev) /\ handlers # None
    /\ rule = None => pc \notin {"rpo", "purge"}

(* Every call gives a field the same value, and a call has given those     *)
(* that it has passed theirs.                                              *)
Filling ==
    /\ heap \in [0..Len(rules) -> RPOs \cup {None}]
    /\ heap[0] = DefaultRPO
    /\ \A i \in DOMAIN rules : rules[i].rpo # None =>
          /\ heap[i] \in RPOs
          /\ \A field \in Fields :
                heap[i][field] \in {rules[i].rpo[field], Inherited(i, field)}
    /\ rev # None /\ rule # None /\ rules[rule].rpo # None =>
          /\ pc # "rpo" => heap[rule]["rpo"] = Inherited(rule, "rpo")
          /\ pc \notin {"rpo", "purge"} =>
                heap[rule]["purge"] = Inherited(rule, "purge")

(* What processUnstructured has decided on.                                *)
Deciding ==
    /\ handlers = None \/ handlers \subseteq Handlers
    /\ pc = "done" =>
          kept = (/\ rule # None
                  /\ ~handleResourceFilter(rev, rules[rule])
                  /\ HandlerFor(rev) # {})

PolicyInv == Calling /\ Filling /\ Deciding

LEMMA PolicyInit == Init => PolicyInv
<1> SUFFICES ASSUME Init PROVE PolicyInv
  OBVIOUS
<1>1. PICK n \in 1..MaxRules : rules \in [1..n -> Rules]
  BY DEF Init
<1>2. n \in Nat /\ n # 0
  BY MaxAssumption
<1>3. rules \in Seq(Rules)
  BY <1>1, <1>2, SeqDef
<1>4. DOMAIN rules = 1..Len(rules) /\ Len(rules) \in Nat /\ DOMAIN rules = 1..n
  BY <1>1, <1>3, LenProperties
<1>5. rules # <<>>
  BY <1>2, <1>3, <1>4, EmptySeq
<1>6. Calling
  BY <1>3, <1>5 DEF Init, Calling
<1>7. \A i \in DOMAIN rules : rules[i] \in Rules
  BY <1>1, <1>4
<1>8. Filling
  <2>1. \A i \in 0..Len(rules) : i # 0 => i \in DOMAIN rules
    BY <1>4
  <2>2. heap = [i \in 0..Len(rules) |-> IF i = 0 THEN DefaultRPO ELSE rules[i].rpo]
    BY DEF Init
  <2>3. heap \in [0..Len(rules) -> RPOs \cup {None}] /\ heap[0] = DefaultRPO
    BY <1>4, <1>7, <2>1, <2>2, DefaultAssumption, RulesAssumption
  <2>4. \A i \in DOMAIN rules : heap[i] = rules[i].rpo /\ heap[i] \in RPOs \cup {None}
    BY <1>4, <1>7, <2>2, <2>3, RulesAssumption
  <2> QED BY <2>3, <2>4 DEF Init, Filling
<1>9. Deciding
  BY DEF Init, Deciding
<1> QED BY <1>6, <1>8, <1>9 DEF PolicyInv

(* Filling in a field once more gives it its value, and changes nothing    *)
(* that has it.                                                            *)
LEMMA InheritFacts ==
    ASSUME Calling, Filling, NEW i \in DOMAIN rules, NEW field \in Fields,
           Inherit(i, field), rules' = rules
    PROVE  /\ heap' \in [0..Len(rules) -> RPOs \cup {None}]
           /\ heap'[0] = DefaultRPO
           /\ \A j \in DOMAIN rules : rules[j].rpo # None =>
                 /\ heap'[j] \in RPOs
                 /\ \A g \in Fields :
                       /\ heap'[j][g] \in {rules[j].rpo[g], Inherited(j, g)}
                       /\ heap[j][g] = Inherited(j, g) =>
                             heap'[j][g] = Inherited(j, g)
           /\ rules[i].rpo # None => heap'[i][field] = Inherited(i, field)
<1>1. /\ heap \in [0..Len(rules) -> RPOs \cup {None}] /\ heap[0] = DefaultRPO
      /\ DOMAIN rules = 1..Len(rules) /\ Len(rules) \in Nat
      /\ \A j \in DOMAIN rules : rules[j] \in Rules /\ j \in 0..Len(rules) /\ j # 0
  BY LenProperties, ElementOfSeq DEF Calling, Filling
<1>2. \A j \in DOMAIN rules : rules[j].rpo # None => rules[j].rpo \in RPOs
  BY <1>1, RulesAssumption
<1> DEFINE p == RPOPolicy(i)
           x == IF heap[p][field] = 0 THEN heap[0][field] ELSE heap[p][field]
           q == [heap[p] EXCEPT ![field] = x]
<1>3. p \in 0..Len(rules) /\ heap[p] \in RPOs
      /\ (p = 0 <=> rules[i].rpo = None) /\ (p # 0 => p = i)
  BY <1>1, DefaultAssumption DEF RPOPolicy, Filling
<1>4. heap' = [heap EXCEPT ![p] = q]
  BY DEF Inherit
<1>5. \A r \in RPOs : r.rpo \in Int /\ r.purge \in Int /\ r["rpo"] = r.rpo
                      /\ r["purge"] = r.purge
  BY DEF RPOs
<1>6. \A r \in RPOs : \A g \in Fields : r[g] \in Int
  BY <1>5 DEF Fields
<1>7. heap[0] \in RPOs
  BY <1>1, DefaultAssumption
<1>8. x \in Int
  BY <1>3, <1>6, <1>7
<1>9. /\ q \in RPOs /\ q[field] = x
      /\ \A g \in Fields : g # field => q[g] = heap[p][g]
  BY <1>3, <1>8 DEF Fields, RPOs
<1>10. x = IF heap[p][field] = 0 THEN DefaultRPO[field] ELSE heap[p][field]
  BY <1>1
<1> HIDE DEF p, x, q
<1>11. /\ heap' \in [0..Len(rules) -> RPOs \cup {None}]
       /\ \A j \in 0..Len(rules) : j # p => heap'[j] = heap[j]
       /\ heap'[p] = q
  BY <1>1, <1>3, <1>4, <1>9
<1>12. CASE p = 0
  <2>1. x = heap[0][field]
    BY <1>1, <1>10, <1>12
  <2>2. q = heap[0]
    BY <1>3, <1>9, <1>12, <2>1 DEF RPOs, Fields
  <2>3. \A j \in 0..Len(rules) : heap'[j] = heap[j]
    BY <1>11, <1>12, <2>2
  <2> QED BY <1>1, <1>3, <1>11, <1>12, <2>3 DEF Filling
<1>13. CASE p = i /\ p # 0
  <2>1. rules[i].rpo # None /\ heap'[0] = DefaultRPO
    BY <1>1, <1>3, <1>11, <1>13
  <2>2. heap[i][field] \in {rules[i].rpo[field], Inherited(i, field)}
    BY <2>1 DEF Filling
  <2>3. x = Inherited(i, field)
    BY <1>10, <1>13, <2>2 DEF Inherited, Or
  <2>4. heap'[i] \in RPOs /\ heap'[i][field] = Inherited(i, field)
        /\ \A g \in Fields : g # field => heap'[i][g] = heap[i][g]
    BY <1>9, <1>11, <1>13, <2>3
  <2>5. \A j \in DOMAIN rules : j # i => heap'[j] = heap[j]
    BY <1>1, <1>11, <1>13
  <2>6. \A j \in DOMAIN rules : rules[j].rpo # None => heap'[j] \in RPOs
    BY <2>4, <2>5 DEF Filling
  <2>7. ASSUME NEW j \in DOMAIN rules, rules[j].rpo # None, NEW g \in Fields
        PROVE  /\ heap'[j][g] \in {rules[j].rpo[g], Inherited(j, g)}
               /\ heap[j][g] = Inherited(j, g) => heap'[j][g] = Inherited(j, g)
    <3>1. CASE j = i /\ g = field
      BY <2>4, <3>1
    <3>2. CASE ~(j = i /\ g = field)
      BY <2>4, <2>5, <2>7, <3>2 DEF Filling
    <3> QED BY <3>1, <3>2
  <2> QED BY <1>11, <2>1, <2>4, <2>6, <2>7
<1> QED BY <1>3, <1>12, <1>13

(* RuleFor only looks at the rules.                                        *)
LEMMA SameRule ==
    ASSUME rules' = rules, NEW v
    PROVE  RuleFor(v)' = RuleFor(v)
BY DEF RuleFor, Considered, Consider, groupMatch, labelMatch, resourcesMatch,
       namespaceMatch, nameMatch

LEMMA RuleType ==
    ASSUME Calling, rev # None, rule # None
    PROVE  rule \in DOMAIN rules
BY RuleForIs DEF Calling

LEMMA PolicyNext == PolicyInv /\ [Next]_vars => PolicyInv'
<1> SUFFICES ASSUME PolicyInv, [Next]_vars PROVE PolicyInv'
  OBVIOUS
<1> USE DEF PolicyInv
<1>0. None \notin Revs
  BY NoneAssumption
<1>1. ASSUME Watch PROVE PolicyInv'
  <2>1. handlers = None /\ UNCHANGED <<rules, heap, pc, rev, rule, kept>>
    BY <1>1 DEF Watch
  <2>2. pc = "idle" /\ rev = None
    BY <2>1 DEF Calling
  <2>3. Calling' /\ Filling'
    BY <2>1, <2>2 DEF Calling, Filling, Inherited
  <2>4. Deciding'
    BY <1>1, <2>1, <2>2 DEF Deciding, Watch
  <2> QED BY <2>3, <2>4
<1>2. ASSUME NEW v \in Revs, Call(v) PROVE PolicyInv'
  <2>1. /\ handlers # None /\ UNCHANGED <<rules, heap, handlers, kept>>
        /\ pc' = (IF RuleFor(v) = None THEN "filter" ELSE "rpo")
        /\ rev' = v /\ rule' = RuleFor(v)
    BY <1>2 DEF Call
  <2>2. RuleFor(v)' = RuleFor(v)
    BY <2>1, SameRule
  <2>3. Calling'
    BY <1>0, <2>1, <2>2 DEF Calling
  <2>4. Filling'
    <3>1. rule' # None => pc' = "rpo"
      BY <2>1
    <3> QED BY <2>1, <3>1 DEF Filling, Inherited
  <2>5. Deciding'
    BY <2>1 DEF Deciding
  <2> QED BY <2>3, <2>4, <2>5
<1>3. ASSUME InheritRPO \/ InheritPurge PROVE PolicyInv'
  <2>1. PICK field \in Fields :
            /\ field = "rpo" => pc = "rpo" /\ pc' = "purge"
            /\ field = "purge" => pc = "purge" /\ pc' = "filter"
            /\ Inherit(rule, field)
            /\ UNCHANGED <<rules, handlers, rev, rule, kept>>
    BY <1>3 DEF InheritRPO, InheritPurge, Fields
  <2>2. pc \in {"rpo", "purge"} /\ pc' \in {"purge", "filter"}
        /\ (field = "rpo" \/ field = "purge")
    BY <2>1 DEF Fields
  <2>3. rev # None /\ rule # None
    BY <2>2 DEF Calling
  <2>4. rule \in DOMAIN rules
    BY <2>3, RuleType
  <2>5. Calling'
    <3>1. RuleFor(rev)' = RuleFor(rev)
      BY <2>1 DEF RuleFor, Considered, Consider, groupMatch, labelMatch,
                  resourcesMatch, namespaceMatch, nameMatch
    <3> QED BY <2>1, <2>2, <2>3, <3>1 DEF Calling
  <2>6. /\ heap' \in [0..Len(rules) -> RPOs \cup {None}]
        /\ heap'[0] = DefaultRPO
        /\ \A j \in DOMAIN rules : rules[j].rpo # None =>
              /\ heap'[j] \in RPOs
              /\ \A g \in Fields :
                    /\ heap'[j][g] \in {rules[j].rpo[g], Inherited(j, g)}
                    /\ heap[j][g] = Inherited(j, g) =>
                          heap'[j][g] = Inherited(j, g)
        /\ rules[rule].rpo # None => heap'[rule][field] = Inherited(rule, field)
    BY <2>1, <2>4, InheritFacts
  <2>7. rules[rule].rpo # None =>
            /\ pc' # "rpo" => heap'[rule]["rpo"] = Inherited(rule, "rpo")
            /\ pc' \notin {"rpo", "purge"} =>
                  heap'[rule]["purge"] = Inherited(rule, "purge")
    <3>1. CASE field = "rpo"
      BY <2>1, <2>6, <3>1
    <3>2. CASE field = "purge"
      <4>1. rules[rule].rpo # None => heap[rule]["rpo"] = Inherited(rule, "rpo")
        BY <2>1, <2>3, <3>2 DEF Filling
      <4>2. "rpo" \in Fields
        BY DEF Fields
      <4> QED BY <2>1, <2>4, <2>6, <3>2, <4>1, <4>2
    <3> QED BY <2>2, <3>1, <3>2
  <2>8. \A j, g : Inherited(j, g)' = Inherited(j, g)
    BY <2>1 DEF Inherited
  <2>9. Filling'
    BY <2>1, <2>6, <2>7, <2>8 DEF Filling
  <2>10. Deciding'
    BY <2>1, <2>2 DEF Deciding
  <2> QED BY <2>5, <2>9, <2>10
<1>4. ASSUME NEW i \in DOMAIN rules, NEW field \in Fields, Others(i, field)
      PROVE  PolicyInv'
  <2>1. Inherit(i, field) /\ UNCHANGED <<rules, handlers, pc, rev, rule, kept>>
    BY <1>4 DEF Others
  <2>2. Calling'
    <3>1. RuleFor(rev)' = RuleFor(rev)
      BY <2>1 DEF RuleFor, Considered, Consider, groupMatch, labelMatch,
                  resourcesMatch, namespaceMatch, nameMatch
    <3> QED BY <2>1, <3>1 DEF Calling
  <2>3. /\ heap' \in [0..Len(rules) -> RPOs \cup {None}]
        /\ heap'[0] = DefaultRPO
        /\ \A j \in DOMAIN rules : rules[j].rpo # None =>
              /\ heap'[j] \in RPOs
              /\ \A g \in Fields :
                    /\ heap'[j][g] \in {rules[j].rpo[g], Inherited(j, g)}
                    /\ heap[j][g] = Inherited(j, g) =>
                          heap'[j][g] = Inherited(j, g)
    BY <2>1, InheritFacts
  <2>4. \A j, g : Inherited(j, g)' = Inherited(j, g)
    BY <2>1 DEF Inherited
  <2>5. "rpo" \in Fields /\ "purge" \in Fields
    BY DEF Fields
  <2>6. rev # None /\ rule # None => rule \in DOMAIN rules
    BY RuleType
  <2>7. Filling'
    BY <2>1, <2>3, <2>4, <2>5, <2>6 DEF Filling
  <2>8. Deciding'
    BY <2>1 DEF Deciding, HandlerFor, handleResourceFilter, labelMatch
  <2> QED BY <2>2, <2>7, <2>8
<1>5. ASSUME Filter PROVE PolicyInv'
  <2>1. /\ pc = "filter" /\ pc' = "done"
        /\ kept' = (/\ rule # None
                    /\ ~handleResourceFilter(rev, rules[rule])
                    /\ HandlerFor(rev) # {})
        /\ UNCHANGED <<rules, heap, handlers, rev, rule>>
    BY <1>5 DEF Filter
  <2>2. Calling'
    <3>1. RuleFor(rev)' = RuleFor(rev)
      BY <2>1 DEF RuleFor, Considered, Consider, groupMatch, labelMatch,
                  resourcesMatch, namespaceMatch, nameMatch
    <3> QED BY <2>1, <3>1 DEF Calling
  <2>3. Filling'
    BY <2>1 DEF Filling, Inherited
  <2>4. Deciding'
    BY <2>1 DEF Deciding, HandlerFor, handleResourceFilter, labelMatch
  <2> QED BY <2>2, <2>3, <2>4
<1>6. ASSUME Return PROVE PolicyInv'
  <2>1. pc' = "idle" /\ rev' = None /\ rule' = None
        /\ UNCHANGED <<rules, heap, handlers>>
    BY <1>6 DEF Return
  <2> QED BY <2>1 DEF Calling, Filling, Deciding, Inherited
<1>7. CASE UNCHANGED vars
  <2>1. UNCHANGED <<rules, heap, handlers, pc, rev, rule, kept>>
    BY <1>7 DEF vars
  <2>2. Calling'
    <3>1. RuleFor(rev)' = RuleFor(rev)
      BY <2>1 DEF RuleFor, Considered, Consider, groupMatch, labelMatch,
                  resourcesMatch, namespaceMatch, nameMatch
    <3> QED BY <2>1, <3>1 DEF Calling
  <2>3. Filling' /\ Deciding'
    BY <2>1 DEF Filling, Inherited, Deciding, HandlerFor, handleResourceFilter,
                labelMatch
  <2> QED BY <2>2, <2>3
<1> QED BY <1>1, <1>2, <1>3, <1>4, <1>5, <1>6, <1>7 DEF Next, Fields

LEMMA PolicyAlways == Spec => []PolicyInv
BY PolicyInit, PolicyNext, PTL DEF Spec

-----------------------------------------------------------------------------

(* For every policy, RuleFor returns a rule that matches as far as any     *)
(* does: the first that matches in everything, else the last of the most   *)
(* specific ones (backuppolicy.go:83-128).                                 *)
THEOREM RuleAlwaysMostSpecific == Spec => []RuleIsMostSpecific
<1>1. ASSUME PolicyInv PROVE RuleIsMostSpecific
  <2> SUFFICES ASSUME rev # None PROVE RuleIsMostSpecific
    BY DEF RuleIsMostSpecific
  <2> DEFINE L(i) == Level(rules[i], rev)
             best == {i \in DOMAIN rules : \A j \in DOMAIN rules : L(j) <= L(i)}
             b == CHOOSE i \in best : TRUE
  <2>1. rules \in Seq(Rules) /\ rules # <<>> /\ rule = RuleFor(rev)
    BY <1>1 DEF PolicyInv, Calling
  <2>2. DOMAIN rules = 1..Len(rules) /\ Len(rules) \in Nat /\ 1 \in DOMAIN rules
    BY <2>1, LenProperties, EmptySeq
  <2>3. \A i \in DOMAIN rules : L(i) \in 0..4
    BY LevelType
  <2>4. PICK s \in 0..4 :
            /\ \A j \in DOMAIN rules : L(j) <= s
            /\ s = 0 <=> rule = None
            /\ s # 0 => rule \in DOMAIN rules /\ L(rule) = s
            /\ s = 4 => \A j \in DOMAIN rules : L(j) = 4 => rule <= j
            /\ s \in 1..3 => \A j \in DOMAIN rules : L(j) = s => j <= rule
    BY <2>1, RuleForIs
  <2>5. \E i \in DOMAIN rules : L(i) = s
    <3>1. CASE s = 0
      BY <2>2, <2>3, <2>4, <3>1
    <3>2. CASE s # 0
      BY <2>4, <3>2
    <3> QED BY <3>1, <3>2
  <2> HIDE DEF L
  <2>6. best = {i \in DOMAIN rules : L(i) = s}
    BY <2>3, <2>4, <2>5
  <2>7. b \in best /\ L(b) = s
    BY <2>5, <2>6
  <2> HIDE DEF b
  <2>8. best \subseteq Nat
    BY <2>2
  <2>9. rule = CASE s = 0 -> None
                 [] s = 4 -> Min(best)
                 [] OTHER -> Max(best)
    <3>1. CASE s = 0
      BY <2>4, <3>1
    <3>2. CASE s = 4
      <4>1. rule \in best /\ \A j \in best : rule <= j
        BY <2>4, <2>6, <3>2
      <4> HIDE DEF best
      <4>2. Min(best) \in best /\ \A j \in best : Min(best) <= j
        BY <4>1 DEF Min
      <4>3. Min(best) \in Nat /\ rule \in Nat /\ Min(best) <= rule /\ rule <= Min(best)
        BY <2>8, <4>1, <4>2, Zenon
      <4>4. Min(best) = rule
        BY <4>3
      <4> QED BY <3>2, <4>4
    <3>3. CASE s \in 1..3
      <4>1. rule \in best /\ \A j \in best : j <= rule
        BY <2>4, <2>6, <3>3
      <4> HIDE DEF best
      <4>2. \A j \in best : rule >= j
        BY <2>8, <4>1
      <4>3. Max(best) \in best /\ \A j \in best : Max(best) >= j
        BY <4>1, <4>2 DEF Max
      <4>4. Max(best) \in Nat /\ rule \in Nat /\ Max(best) >= rule /\ rule >= Max(best)
        BY <2>8, <4>1, <4>2, <4>3, Zenon
      <4>5. Max(best) = rule
        BY <4>4
      <4> QED BY <3>3, <4>5
    <3> QED BY <3>1, <3>2, <3>3
  <2>10. Level(rules[b], rev) = s
    BY <2>7 DEF L
  <2> QED BY <2>9, <2>10 DEF RuleIsMostSpecific, L, b
<1> QED BY <1>1, PolicyAlways, PTL

(* Whatever other calls fill in at the same time, a call that is done with *)
(* RuleFor has the RPO policy it should have (backuppolicy.go:129-138).    *)
THEOREM RPOAlwaysInherited == Spec => []RPOIsInherited
<1>1. ASSUME PolicyInv PROVE RPOIsInherited
  <2> USE <1>1 DEF PolicyInv
  <2>1. heap[0] = DefaultRPO
    BY DEF Filling
  <2>2. ASSUME pc \in {"filter", "done"}, rule # None
        PROVE  heap[RPOPolicy(rule)] =
                  IF rules[rule].rpo = None THEN DefaultRPO
                  ELSE [rpo   |-> Or(rules[rule].rpo.rpo, DefaultRPO.rpo),
                        purge |-> Or(rules[rule].rpo.purge, DefaultRPO.purge)]
    <3>1. rev # None /\ rule \in DOMAIN rules
      BY <2>2, RuleType DEF Calling
    <3>2. CASE rules[rule].rpo = None
      BY <2>1, <3>2 DEF RPOPolicy
    <3>3. CASE rules[rule].rpo # None
      <4>1. /\ heap[rule] \in RPOs
            /\ heap[rule]["rpo"] = Inherited(rule, "rpo")
            /\ heap[rule]["purge"] = Inherited(rule, "purge")
        BY <2>2, <3>1, <3>3 DEF Filling
      <4> QED BY <3>3, <4>1 DEF RPOPolicy, RPOs, Inherited
    <3> QED BY <3>2, <3>3
  <2> QED BY <2>1, <2>2 DEF RPOIsInherited, Or
<1> QED BY <1>1, PolicyAlways, PTL

(* A watched object that some rule matches in everything is kept if and    *)
(* only if the first of these rules names the object or no object, for     *)
(* every policy, with the star among the names or without: getDynamics,    *)
(* HandlerFor and the labels agree with RuleFor, and the star is all that  *)
(* the filter takes otherwise (controller.go:223-272, 516-530, 556-574,    *)
(* resource.go:45-53, backuppolicy.go:91).                                 *)
THEOREM MatchedAlwaysKept == Spec => []MatchedIsKept
<1> DEFINE complete == {i \in DOMAIN rules : Level(rules[i], rev) = 4}
<1>1. ASSUME PolicyInv, pc = "done", complete # {}
      PROVE  /\ rule # None /\ rule = Min(complete)
             /\ ~handleResourceFilter(rev, rules[rule]) <=> Names(rules[rule], rev)
  <2>1. rule = RuleFor(rev) /\ rules \in Seq(Rules)
    BY <1>1 DEF PolicyInv, Calling
  <2>2. PICK s \in 0..4 :
            /\ \A j \in DOMAIN rules : Level(rules[j], rev) <= s
            /\ s = 0 <=> rule = None
            /\ s # 0 => rule \in DOMAIN rules /\ Level(rules[rule], rev) = s
            /\ s = 4 => \A j \in DOMAIN rules :
                           Level(rules[j], rev) = 4 => rule <= j
    BY <2>1, RuleForIs
  <2>3. s = 4
    BY <1>1, <2>2
  <2>4. /\ rule \in complete /\ \A j \in complete : rule <= j
        /\ complete \subseteq Nat
    BY <2>1, <2>2, <2>3, LenProperties
  <2>5. rule = Min(complete)
    <3> HIDE DEF complete
    <3>1. Min(complete) \in complete /\ \A j \in complete : Min(complete) <= j
      BY <2>4 DEF Min
    <3>2. /\ Min(complete) \in Nat /\ rule \in Nat
          /\ Min(complete) <= rule /\ rule <= Min(complete)
      BY <2>4, <3>1, Zenon
    <3> QED BY <3>2
  <2>6. labelMatch(rules[rule], rev)
    BY <2>2, <2>3 DEF Level
  <2>7. ~handleResourceFilter(rev, rules[rule]) <=> Names(rules[rule], rev)
    BY <2>6 DEF handleResourceFilter, Names
  <2> QED BY <2>2, <2>3, <2>5, <2>7
<1>2. ASSUME PolicyInv, rev # None, Watched(rev)
      PROVE  HandlerFor(rev) # {}
  <2>0. PICK h \in handlers : /\ h.gv = rev.gv /\ h.kind = rev.kind
                             /\ h.ns \in {"", rev.ns}
    BY <1>2 DEF Watched
  <2>1. h \in Handlers
    BY <1>2 DEF PolicyInv, Calling, Deciding
  <2>2. CASE h.ns = rev.ns
    BY <2>0, <2>2 DEF HandlerFor
  <2>3. CASE h.ns = "" /\ [h EXCEPT !.ns = rev.ns] \notin handlers
    BY <2>0, <2>3 DEF HandlerFor
  <2>4. CASE [h EXCEPT !.ns = rev.ns] \in handlers
    <3> DEFINE g == [h EXCEPT !.ns = rev.ns]
    <3>1. g.gv = h.gv /\ g.kind = h.kind /\ g.ns = rev.ns
      BY <2>1 DEF Handlers
    <3>2. g \in handlers
      BY <2>4
    <3> HIDE DEF g
    <3> QED BY <2>0, <3>1, <3>2 DEF HandlerFor
  <2> QED BY <2>0, <2>2, <2>3, <2>4
<1>3. ASSUME PolicyInv, pc = "done", Watched(rev), complete # {}
      PROVE  kept <=> Names(rules[Min(complete)], rev)
  <2>1. rev # None
    BY <1>3 DEF PolicyInv, Calling
  <2>2. HandlerFor(rev) # {}
    BY <1>2, <1>3, <2>1
  <2>3. kept <=> ~handleResourceFilter(rev, rules[rule])
    <3>1. rule # None
      BY <1>1, <1>3
    <3> QED BY <1>3, <2>2, <3>1 DEF PolicyInv, Deciding
  <2> HIDE DEF complete
  <2> QED BY <1>1, <1>3, <2>3
<1>4. PolicyInv => MatchedIsKept
  BY <1>3 DEF MatchedIsKept
<1> QED BY <1>4, PolicyAlways, PTL
=============================================================================
