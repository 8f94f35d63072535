---------------------------- MODULE NaturalFacts ----------------------------
(***************************************************************************)
(* Induction and extrema of sets of naturals, for sets rather than for     *)
(* operators, from the well-foundedness of the naturals; and the order of  *)
(* decimal strings, by the stems their numbers leave digit by digit.       *)
(***************************************************************************)
EXTENDS Decimal, TLAPS, WellFoundedInduction

(* A set of naturals that is not empty has a least element.                *)
LEMMA LeastExists ==
    ASSUME NEW S \in SUBSET Nat, S # {}
    PROVE  \E n \in S : \A k \in S : n <= k
<1> DEFINE Less == {p \in Nat \X Nat : p[1] < p[2]}
<1>1. IsWellFoundedOn(Less, Nat)
  BY NatLessThanWellFounded DEF OpToRel
<1>2. \A x, y \in Nat : x < y => <<x, y>> \in Less
  OBVIOUS
<1> HIDE DEF Less
<1>3. PICK n \in S : \A k \in S : <<k, n>> \notin Less
  BY <1>1, WFMin
<1>4. \A k \in S : ~(k < n)
  BY <1>2, <1>3
<1> QED BY <1>4

(* A bounded one has a greatest element.                                   *)
LEMMA GreatestExists ==
    ASSUME NEW S \in SUBSET Nat, S # {}, NEW b \in Nat, \A k \in S : k <= b
    PROVE  \E n \in S : \A k \in S : k <= n
<1> DEFINE Gaps == {b - k : k \in S}
<1>1. Gaps \in SUBSET Nat /\ Gaps # {}
  <2>1. \A k \in S : b - k \in Nat
    OBVIOUS
  <2>2. \E k \in S : b - k \in Gaps
    OBVIOUS
  <2> QED BY <2>1, <2>2
<1>2. PICK g \in Gaps : \A h \in Gaps : g <= h
  <2> HIDE DEF Gaps
  <2> QED BY <1>1, LeastExists
<1>3. PICK n \in S : g = b - n
  BY <1>2
<1>4. \A k \in S : b - n <= b - k
  BY <1>2, <1>3
<1> QED BY <1>4

(* A set with 0 and the successors of its elements holds every natural.    *)
LEMMA InductionForSets ==
    ASSUME NEW S \in SUBSET Nat, 0 \in S, \A n \in S : n + 1 \in S
    PROVE  S = Nat
<1>1. SUFFICES ASSUME Nat \ S # {} PROVE FALSE
  BY Zenon
<1>2. PICK n \in Nat \ S : \A k \in Nat \ S : n <= k
  BY <1>1, LeastExists
<1>3. n - 1 \in S
  BY <1>2
<1> QED BY <1>2, <1>3

(* A loop over 1..n has a value after every step: step[k] is what its body *)
(* makes of the value before.                                              *)
LEMMA LoopExists ==
    ASSUME NEW A, NEW start \in A, NEW n \in Nat, NEW step \in [1..n -> [A -> A]]
    PROVE  \E f \in [0..n -> A] :
               /\ f[0] = start
               /\ \A k \in 1..n : f[k] = step[k][f[k - 1]]
<1> DEFINE Upto(m) == \E f \in [0..m -> A] :
                          /\ f[0] = start
                          /\ \A k \in 1..m : f[k] = step[k][f[k - 1]]
           S == {m \in Nat : m <= n => Upto(m)}
<1>1. 0 \in S
  <2> DEFINE f == [k \in 0..0 |-> start]
  <2>1. f \in [0..0 -> A] /\ f[0] = start /\ \A k \in 1..0 : FALSE
    OBVIOUS
  <2> QED BY <2>1
<1>2. ASSUME NEW m \in S PROVE m + 1 \in S
  <2>1. SUFFICES ASSUME m + 1 <= n PROVE Upto(m + 1)
    <3>1. m + 1 \in Nat
      OBVIOUS
    <3> HIDE DEF Upto
    <3> QED BY <3>1
  <2>2. m \in Nat /\ m + 1 \in 1..n
    BY <2>1
  <2>3. PICK f \in [0..m -> A] : /\ f[0] = start
                                 /\ \A k \in 1..m : f[k] = step[k][f[k - 1]]
    BY <2>1, <2>2
  <2> DEFINE x == step[m + 1][f[m]]
             g == [k \in 0..m + 1 |-> IF k = m + 1 THEN x ELSE f[k]]
  <2>4. x \in A
    BY <2>2
  <2> HIDE DEF x
  <2>5. g \in [0..m + 1 -> A] /\ g[m + 1] = x /\ \A k \in 0..m : g[k] = f[k]
    BY <2>2, <2>4
  <2> HIDE DEF g
  <2>6. g[0] = start
    BY <2>2, <2>3, <2>5
  <2>7. ASSUME NEW k \in 1..m + 1 PROVE g[k] = step[k][g[k - 1]]
    <3>1. CASE k = m + 1
      <4>1. k - 1 = m /\ g[k - 1] = f[m]
        BY <2>2, <2>5, <3>1
      <4> QED BY <2>5, <3>1, <4>1 DEF x
    <3>2. CASE k \in 1..m
      <4>1. k \in 0..m /\ k - 1 \in 0..m
        BY <2>2, <3>2
      <4> QED BY <2>3, <2>5, <3>2, <4>1
    <3> QED BY <2>2, <3>1, <3>2
  <2> QED BY <2>5, <2>6, <2>7
<1>3. S = Nat
  <2>1. S \in SUBSET Nat
    OBVIOUS
  <2> HIDE DEF S
  <2> QED BY <1>1, <1>2, <2>1, InductionForSets
<1> QED BY <1>3

(* Induction along a loop.                                                 *)
LEMMA InductionUpTo ==
    ASSUME NEW n \in Nat, NEW S, 0 \in S,
           \A k \in 0..n : k \in S /\ k < n => k + 1 \in S
    PROVE  \A k \in 0..n : k \in S
<1> DEFINE T == {k \in Nat : k <= n => k \in S}
<1>1. T \in SUBSET Nat /\ 0 \in T /\ \A k \in T : k + 1 \in T
  OBVIOUS
<1>2. T = Nat
  <2> HIDE DEF T
  <2> QED BY <1>1, InductionForSets
<1> QED BY <1>2
(* f[i] is what the i last digits of a number leave of it.                 *)
Stems == {f \in [Nat -> Nat] :
             /\ \A i \in Nat : i > 9 => f[i] = 0
             /\ \A i \in Nat : f[i + 1] = f[i] \div 10}

(* The stems of x, which has ten digits at most.                           *)
Stem(x) == [i \in Nat |-> IF i <= 9 THEN x \div 10^i ELSE 0]

(* The position i of the stem is a digit of the string: no leading zero.   *)
Digit(f, i) == i \in Nat /\ (f[i] # 0 \/ i = 0)

(* The strings agree up to the digits i and j and differ in them.          *)
Branches(f, g, i, j) == f[i + 1] = g[j + 1] /\ f[i] < g[j]

(* The whole of the first string is the beginning of the second.           *)
Extends(f, g, i, j) == i = 0 /\ j > 0 /\ f[i] = g[j]

(* The order of decimal strings, on stems.                                 *)
StemBefore(f, g) ==
    \E i, j \in Nat : /\ Digit(f, i) /\ Digit(g, j)
                      /\ Branches(f, g, i, j) \/ Extends(f, g, i, j)

(* Dividing by ten step by step.                                           *)
LEMMA StemSteps ==
    ASSUME NEW x \in Nat
    PROVE  /\ x \div 1 = x
           /\ (x \div 10) \div 10 = x \div 100
           /\ (x \div 100) \div 10 = x \div 1000
           /\ (x \div 1000) \div 10 = x \div 10000
           /\ (x \div 10000) \div 10 = x \div 100000
           /\ (x \div 100000) \div 10 = x \div 1000000
           /\ (x \div 1000000) \div 10 = x \div 10000000
           /\ (x \div 10000000) \div 10 = x \div 100000000
           /\ (x \div 100000000) \div 10 = x \div 1000000000
  BY SMT

(* The stems of a number are stems.                                        *)
LEMMA StemIsStem ==
    ASSUME NEW x \in TenDigits
    PROVE  Stem(x) \in Stems
<1> DEFINE f == Stem(x)
<1>1. x \in Nat /\ x \div 1000000000 < 10
  BY SMT DEF TenDigits
<1>2. f[0] = x /\ f[1] = x \div 10 /\ f[2] = x \div 100 /\ f[3] = x \div 1000
  BY <1>1, SMT DEF Stem
<1>3. /\ f[4] = x \div 10000 /\ f[5] = x \div 100000
      /\ f[6] = x \div 1000000 /\ f[7] = x \div 10000000
  BY <1>1, SMT DEF Stem
<1>4. f[8] = x \div 100000000 /\ f[9] = x \div 1000000000
  BY <1>1, SMT DEF Stem
<1>5. \A i \in Nat : i > 9 => f[i] = 0
  BY SMT DEF Stem
<1>6. f = [i \in Nat |-> f[i]]
  BY Zenon DEF Stem
<1> HIDE DEF f
<1>7. \A i \in {0, 1, 2, 3, 4, 5, 6, 7, 8} : f[i + 1] = f[i] \div 10
  BY <1>1, <1>2, <1>3, <1>4, StemSteps, SMT
<1>8. f[9] \div 10 = 0
  BY <1>1, <1>4, SMT
<1>9. \A i \in Nat : f[i + 1] = f[i] \div 10
  <2>1. \A i \in 0..8 : i \in {0, 1, 2, 3, 4, 5, 6, 7, 8}
    BY SMT
  <2> QED BY ONLY <1>5, <1>7, <1>8, <2>1, SMT
<1>10. \A i \in Nat : f[i] \in Nat
  <2>1. \A i \in {0, 1, 2, 3, 4, 5, 6, 7, 8, 9} : f[i] \in Nat
    BY <1>1, <1>2, <1>3, <1>4, SMT
  <2>2. \A i \in 0..9 : i \in {0, 1, 2, 3, 4, 5, 6, 7, 8, 9}
    BY SMT
  <2> QED BY ONLY <1>5, <2>1, <2>2, SMT
<1>11. f \in [Nat -> Nat]
  BY ONLY <1>6, <1>10, Zenon
<1> QED BY ONLY <1>5, <1>9, <1>11, Zenon DEF Stems, f

(* Two stems that agree at a position agree above it.                      *)
LEMMA StemsAgreeAbove ==
    ASSUME NEW f \in Stems, NEW g \in Stems, NEW i \in Nat, NEW j \in Nat,
           f[i] = g[j]
    PROVE  \A e \in Nat : f[i + e] = g[j + e]
<1> DEFINE S == {e \in Nat : f[i + e] = g[j + e]}
<1>1. S \in SUBSET Nat /\ 0 \in S
  BY DEF Stems
<1>2. ASSUME NEW e \in S PROVE e + 1 \in S
  <2>1. /\ e \in Nat /\ i + e \in Nat /\ j + e \in Nat
        /\ i + (e + 1) = (i + e) + 1 /\ j + (e + 1) = (j + e) + 1
    OBVIOUS
  <2>2. f[(i + e) + 1] = f[i + e] \div 10 /\ g[(j + e) + 1] = g[j + e] \div 10
    BY <2>1 DEF Stems
  <2> QED BY <2>1, <2>2
<1>3. S = Nat
  <2> HIDE DEF S
  <2> QED BY <1>1, <1>2, InductionForSets
<1> QED BY <1>3

(* A stem gets smaller with every digit it loses.                          *)
LEMMA StemsShrink ==
    ASSUME NEW f \in Stems, NEW i \in Nat, NEW j \in Nat, i < j
    PROVE  f[j] <= f[i] /\ (f[i] # 0 => f[j] < f[i])
<1> DEFINE S == {e \in Nat : /\ f[i + (e + 1)] <= f[i]
                             /\ f[i] # 0 => f[i + (e + 1)] < f[i]}
<1>0. /\ \A k \in Nat : f[k] \in Nat
      /\ \A k \in Nat : f[k + 1] <= f[k] /\ (f[k] # 0 => f[k + 1] < f[k])
  <2>1. \A n \in Nat : n \div 10 <= n /\ (n # 0 => n \div 10 < n)
    OBVIOUS
  <2> QED BY <2>1 DEF Stems
<1>1. S \in SUBSET Nat /\ 0 \in S
  BY <1>0
<1>2. ASSUME NEW e \in S PROVE e + 1 \in S
  <2>1. /\ e \in Nat /\ e + 1 \in Nat /\ i + (e + 1) \in Nat
        /\ i + ((e + 1) + 1) = (i + (e + 1)) + 1
    OBVIOUS
  <2>2. f[(i + (e + 1)) + 1] <= f[i + (e + 1)]
    BY <1>0, <2>1
  <2>3. f[(i + (e + 1)) + 1] \in Nat /\ f[i + (e + 1)] \in Nat /\ f[i] \in Nat
    BY <1>0, <2>1
  <2> QED BY <2>1, <2>2, <2>3
<1>3. S = Nat
  <2> HIDE DEF S
  <2> QED BY <1>1, <1>2, InductionForSets
<1>4. (j - i) - 1 \in S
  <2>1. (j - i) - 1 \in Nat
    OBVIOUS
  <2> HIDE DEF S
  <2> QED BY <1>3, <2>1
<1>5. i + (((j - i) - 1) + 1) = j
  OBVIOUS
<1> QED BY <1>4, <1>5

(* Only ten positions hold digits, and those below a digit are digits.     *)
LEMMA StemFacts ==
    ASSUME NEW f \in Stems, NEW i \in Nat
    PROVE  /\ f[i] \in Nat
           /\ f[i] # 0 => i <= 9
           /\ Digit(f, i) => i <= 9 /\ \A k \in 0..i : Digit(f, k)
<1>1. f[i] \in Nat /\ (f[i] # 0 => i <= 9)
  BY DEF Stems
<1>2. ASSUME Digit(f, i), NEW k \in 0..i PROVE Digit(f, k)
  <2>1. CASE k = i \/ k = 0
    BY <1>2, <2>1 DEF Digit
  <2>2. CASE 0 < k /\ k < i
    <3>1. k \in Nat /\ f[k] \in Nat /\ f[i] # 0
      BY <1>2, <2>2 DEF Digit, Stems
    <3>2. f[i] <= f[k]
      BY <2>2, <3>1, StemsShrink
    <3> QED BY <1>1, <3>1, <3>2 DEF Digit
  <2> QED BY <2>1, <2>2
<1> QED BY <1>1, <1>2 DEF Digit

(* The order on the stems is the order on the numbers.                     *)
LEMMA BeforeByStems ==
    ASSUME NEW x \in TenDigits, NEW y \in TenDigits
    PROVE  DecimalBefore(x, y) <=> StemBefore(Stem(x), Stem(y))
<1> DEFINE f == Stem(x)
           g == Stem(y)
<1>1. f \in Stems /\ g \in Stems
  BY StemIsStem
<1>2. \A i \in 0..9 : f[i] = x \div 10^i /\ g[i] = y \div 10^i
  BY DEF Stem
<1> HIDE DEF f, g
<1>3. \A i \in 0..9 : f[i + 1] = f[i] \div 10 /\ g[i + 1] = g[i] \div 10
  BY <1>1 DEF Stems
<1>4. \A i \in Nat : (Digit(f, i) => i \in 0..9) /\ (Digit(g, i) => i \in 0..9)
  BY <1>1, StemFacts
<1>5. DecimalBefore(x, y)
      <=> \E i, j \in 0..9 :
              /\ f[i] # 0 \/ i = 0
              /\ g[j] # 0 \/ j = 0
              /\ \/ f[i] \div 10 = g[j] \div 10 /\ f[i] < g[j]
                 \/ i = 0 /\ j > 0 /\ f[i] = g[j]
  BY <1>2, Zenon DEF DecimalBefore
<1>6. @ <=> \E i, j \in 0..9 : /\ Digit(f, i) /\ Digit(g, j)
                               /\ Branches(f, g, i, j) \/ Extends(f, g, i, j)
  BY <1>3 DEF Digit, Branches, Extends
<1>7. @ <=> StemBefore(f, g)
  <2>1. \A i \in 0..9 : i \in Nat
    OBVIOUS
  <2> QED BY <1>4, <2>1, Zenon DEF StemBefore
<1> QED BY <1>5, <1>6, <1>7 DEF f, g

(* Where g and h part is above, at or below where f and g do.              *)
LEMMA BeforeTransitive ==
    ASSUME NEW f \in Stems, NEW g \in Stems, NEW h \in Stems,
           StemBefore(f, g), StemBefore(g, h)
    PROVE  StemBefore(f, h)
<1>1. PICK i \in Nat, j \in Nat :
             /\ Digit(f, i) /\ Digit(g, j)
             /\ Branches(f, g, i, j) \/ Extends(f, g, i, j)
  BY Zenon DEF StemBefore
<1>2. PICK k \in Nat, l \in Nat :
             /\ Digit(g, k) /\ Digit(h, l)
             /\ Branches(g, h, k, l) \/ Extends(g, h, k, l)
  BY Zenon DEF StemBefore
<1>3. \A n \in Nat : f[n] \in Nat /\ g[n] \in Nat /\ h[n] \in Nat
  BY StemFacts
<1>4. ASSUME NEW n \in Nat, NEW o \in Nat, Digit(f, n), Digit(h, o),
             Branches(f, h, n, o) \/ Extends(f, h, n, o)
      PROVE  StemBefore(f, h)
  BY <1>4, Zenon DEF StemBefore
<1>5. CASE Branches(f, g, i, j) /\ Branches(g, h, k, l) /\ j = k
  <2>1. Branches(f, h, i, l)
    BY <1>3, <1>5 DEF Branches
  <2> QED BY <1>1, <1>2, <1>4, <2>1
<1>6. CASE Branches(f, g, i, j) /\ Branches(g, h, k, l) /\ j < k
  <2> DEFINE n == i + (k - j)
  <2>1. n \in Nat /\ f[n] = g[k] /\ f[n + 1] = g[k + 1]
    <3>1. f[i + 1] = g[j + 1] /\ i + 1 \in Nat /\ j + 1 \in Nat
      BY <1>6 DEF Branches
    <3>2. \A e \in Nat : f[(i + 1) + e] = g[(j + 1) + e]
      BY <3>1, StemsAgreeAbove
    <3>3. /\ k - j - 1 \in Nat /\ k - j \in Nat
          /\ (i + 1) + (k - j - 1) = n /\ (j + 1) + (k - j - 1) = k
          /\ (i + 1) + (k - j) = n + 1 /\ (j + 1) + (k - j) = k + 1
      BY <1>6
    <3> QED BY <3>2, <3>3
  <2> HIDE DEF n
  <2>2. Digit(f, n)
    BY <1>2, <1>6, <2>1 DEF Digit
  <2>3. Branches(f, h, n, l)
    BY <1>6, <2>1 DEF Branches
  <2> QED BY <1>2, <1>4, <2>1, <2>2, <2>3
<1>7. CASE Branches(g, h, k, l) /\ k < j
  <2> DEFINE o == l + (j - k)
  <2>1. o \in Nat /\ o > 0 /\ h[o] = g[j] /\ h[o + 1] = g[j + 1]
    <3>1. g[k + 1] = h[l + 1] /\ k + 1 \in Nat /\ l + 1 \in Nat
      BY <1>7 DEF Branches
    <3>2. \A e \in Nat : g[(k + 1) + e] = h[(l + 1) + e]
      BY <3>1, StemsAgreeAbove
    <3>3. /\ j - k - 1 \in Nat /\ j - k \in Nat
          /\ (k + 1) + (j - k - 1) = j /\ (l + 1) + (j - k - 1) = o
          /\ (k + 1) + (j - k) = j + 1 /\ (l + 1) + (j - k) = o + 1
      BY <1>7
    <3>4. o \in Nat /\ o > 0
      BY <1>7
    <3> HIDE DEF o
    <3> QED BY <3>2, <3>3, <3>4
  <2> HIDE DEF o
  <2>2. Digit(h, o)
    BY <1>1, <1>7, <2>1 DEF Digit
  <2>3. Branches(f, h, i, o) \/ Extends(f, h, i, o)
    BY <1>1, <2>1 DEF Branches, Extends
  <2> QED BY <1>1, <1>4, <2>1, <2>2, <2>3
<1>8. CASE Extends(f, g, i, j) /\ Branches(g, h, k, l) /\ j <= k
  <2> DEFINE n == k - j
  <2>1. n \in Nat /\ f[n] = g[k] /\ f[n + 1] = g[k + 1]
    <3>1. f[0] = g[j]
      BY <1>8 DEF Extends
    <3>2. \A e \in Nat : f[0 + e] = g[j + e]
      BY <3>1, StemsAgreeAbove
    <3>3. /\ n \in Nat /\ n + 1 \in Nat /\ 0 + n = n /\ j + n = k
          /\ 0 + (n + 1) = n + 1 /\ j + (n + 1) = k + 1
      BY <1>8
    <3> QED BY <3>2, <3>3
  <2>2. n = 0 \/ k > 0
    BY <1>8
  <2> HIDE DEF n
  <2>3. Digit(f, n)
    BY <1>2, <2>1, <2>2 DEF Digit
  <2>4. Branches(f, h, n, l)
    BY <1>8, <2>1 DEF Branches
  <2> QED BY <1>2, <1>4, <2>1, <2>3, <2>4
<1>9. CASE Extends(g, h, k, l)
  <2> DEFINE o == l + j
  <2>1. h[o] = g[j] /\ h[o + 1] = g[j + 1]
    <3>1. g[0] = h[l]
      BY <1>9 DEF Extends
    <3>2. \A e \in Nat : g[0 + e] = h[l + e]
      BY <3>1, StemsAgreeAbove
    <3>3. 0 + j = j /\ 0 + (j + 1) = j + 1 /\ j + 1 \in Nat /\ l + (j + 1) = o + 1
      OBVIOUS
    <3> QED BY <3>2, <3>3
  <2>2. o \in Nat /\ o > 0 /\ (j = 0 => o = l)
    BY <1>9 DEF Extends
  <2> HIDE DEF o
  <2>3. Digit(h, o)
    BY <1>1, <1>2, <1>9, <2>1, <2>2 DEF Digit, Extends
  <2>4. Branches(f, h, i, o) \/ Extends(f, h, i, o)
    BY <1>1, <2>1, <2>2 DEF Branches, Extends
  <2> QED BY <1>1, <1>4, <2>2, <2>3, <2>4
<1> QED BY <1>1, <1>2, <1>5, <1>6, <1>7, <1>8, <1>9

(* A string parts from itself nowhere, since its stems shrink.             *)
LEMMA BeforeIrreflexive ==
    ASSUME NEW f \in Stems, StemBefore(f, f)
    PROVE  FALSE
<1>1. PICK i \in Nat, j \in Nat :
             /\ Digit(f, i) /\ Digit(f, j)
             /\ Branches(f, f, i, j) \/ Extends(f, f, i, j)
  BY Zenon DEF StemBefore
<1>2. \A n \in Nat : f[n] \in Nat
  BY StemFacts
<1>3. \A m, n \in Nat : m < n => f[n] <= f[m] /\ (f[m] # 0 => f[n] < f[m])
  BY StemsShrink
<1>4. CASE Branches(f, f, i, j)
  <2>1. f[i + 1] = f[j + 1] /\ f[i] < f[j]
    BY <1>4 DEF Branches
  <2>2. j < i
    BY <1>2, <1>3, <2>1
  <2>3. f[j + 1] = 0
    BY <1>2, <1>3, <2>1, <2>2
  <2>4. f[i] = 0
    BY <1>2, <1>3, <2>2, <2>3
  <2> QED BY <1>1, <2>2, <2>4 DEF Digit
<1>5. CASE Extends(f, f, i, j)
  BY <1>1, <1>2, <1>3, <1>5 DEF Extends, Digit
<1> QED BY <1>1, <1>4, <1>5

(* The first digit of a string.                                            *)
LEMMA FirstDigit ==
    ASSUME NEW f \in Stems
    PROVE  \E a \in Nat : Digit(f, a) /\ f[a + 1] = 0
<1> DEFINE S == {n \in Nat : Digit(f, n)}
<1>1. S \in SUBSET Nat /\ S # {} /\ \A n \in S : n <= 9
  <2>1. 0 \in S
    BY DEF Digit
  <2> QED BY <2>1, StemFacts
<1>2. PICK a \in S : \A n \in S : n <= a
  <2> HIDE DEF S
  <2> QED BY <1>1, GreatestExists
<1>3. a \in Nat /\ Digit(f, a) /\ a + 1 \in Nat /\ ~(a + 1 <= a)
  BY <1>2
<1>4. a + 1 \notin S
  <2> HIDE DEF S
  <2> QED BY <1>2, <1>3
<1> QED BY <1>3, <1>4 DEF Digit

(* Aligned at their first digits, two strings part or one ends first.      *)
LEMMA BeforeTotal ==
    ASSUME NEW f \in Stems, NEW g \in Stems, f[0] # g[0]
    PROVE  StemBefore(f, g) \/ StemBefore(g, f)
<1>1. PICK a \in Nat : Digit(f, a) /\ f[a + 1] = 0
  BY FirstDigit
<1>2. PICK b \in Nat : Digit(g, b) /\ g[b + 1] = 0
  BY FirstDigit
<1>3. /\ \A n \in Nat : f[n] \in Nat /\ g[n] \in Nat
      /\ \A n \in 0..a : Digit(f, n)
      /\ \A n \in 0..b : Digit(g, n)
  BY <1>1, <1>2, StemFacts
<1> DEFINE S == {e \in Nat : e <= a /\ e <= b /\ f[a - e] # g[b - e]}
<1>4. CASE S # {}
  <2>1. S \in SUBSET Nat
    OBVIOUS
  <2>2. PICK e \in S : \A d \in S : e <= d
    <3> HIDE DEF S
    <3> QED BY <1>4, <2>1, LeastExists
  <2> DEFINE i == a - e
             j == b - e
  <2>3. /\ e \in Nat /\ e <= a /\ e <= b /\ f[i] # g[j]
        /\ i \in Nat /\ j \in Nat /\ i \in 0..a /\ j \in 0..b
    BY <2>2
  <2>4. f[i + 1] = g[j + 1]
    <3>1. CASE e = 0
      BY <1>1, <1>2, <3>1
    <3>2. CASE e > 0
      <4>1. e - 1 \in Nat /\ e - 1 <= a /\ e - 1 <= b /\ ~(e <= e - 1)
        BY <2>3, <3>2
      <4>2. e - 1 \notin S
        <5> HIDE DEF S
        <5> QED BY <2>2, <4>1
      <4>3. f[a - (e - 1)] = g[b - (e - 1)]
        BY <4>1, <4>2
      <4>4. a - (e - 1) = i + 1 /\ b - (e - 1) = j + 1
        BY <2>3
      <4> QED BY <4>3, <4>4
    <3> QED BY <2>3, <3>1, <3>2
  <2> HIDE DEF i, j
  <2>5. Digit(f, i) /\ Digit(g, j)
    BY <1>3, <2>3
  <2>6. Branches(f, g, i, j) \/ Branches(g, f, j, i)
    <3>1. f[i] < g[j] \/ g[j] < f[i]
      <4>1. f[i] \in Nat /\ g[j] \in Nat
        BY <1>3, <2>3
      <4> QED BY <2>3, <4>1
    <3> QED BY <2>4, <3>1, Zenon DEF Branches
  <2> QED BY <2>3, <2>5, <2>6, Zenon DEF StemBefore
<1>5. CASE S = {}
  <2>1. \A e \in Nat : e <= a /\ e <= b => f[a - e] = g[b - e]
    BY <1>5
  <2> HIDE DEF S
  <2>2. CASE a < b
    <3>1. f[0] = g[b - a] /\ b - a \in Nat /\ b - a \in 0..b /\ b - a > 0
      BY <2>1, <2>2
    <3>2. Digit(f, 0) /\ Digit(g, b - a) /\ Extends(f, g, 0, b - a)
      BY <1>3, <3>1 DEF Digit, Extends
    <3>3. 0 \in Nat
      OBVIOUS
    <3> QED BY <3>1, <3>2, <3>3, Zenon DEF StemBefore
  <2>3. CASE b < a
    <3>1. g[0] = f[a - b] /\ a - b \in Nat /\ a - b \in 0..a /\ a - b > 0
      BY <2>1, <2>3
    <3>2. Digit(g, 0) /\ Digit(f, a - b) /\ Extends(g, f, 0, a - b)
      BY <1>3, <3>1 DEF Digit, Extends
    <3>3. 0 \in Nat
      OBVIOUS
    <3> QED BY <3>1, <3>2, <3>3, Zenon DEF StemBefore
  <2>4. CASE a = b
    <3>1. f[a - a] = g[a - a] /\ a - a = 0
      BY <2>1, <2>4
    <3> QED BY <3>1
  <2> QED BY <2>2, <2>3, <2>4
<1> QED BY <1>4, <1>5

(* The order in which a bucket lists the versions of an object is a strict *)
(* total order: DecimalBefore is one on the numbers of up to ten digits,   *)
(* though 10 comes before 9 in it.                                         *)
THEOREM DecimalOrder ==
    \A x, y, z \in TenDigits :
        /\ ~DecimalBefore(x, x)
        /\ DecimalBefore(x, y) /\ DecimalBefore(y, z) => DecimalBefore(x, z)
        /\ x = y \/ DecimalBefore(x, y) \/ DecimalBefore(y, x)
<1> SUFFICES ASSUME NEW x \in TenDigits, NEW y \in TenDigits,
                    NEW z \in TenDigits
             PROVE  /\ ~DecimalBefore(x, x)
                    /\ DecimalBefore(x, y) /\ DecimalBefore(y, z)
                       => DecimalBefore(x, z)
                    /\ x = y \/ DecimalBefore(x, y) \/ DecimalBefore(y, x)
  BY Zenon
<1>1. Stem(x) \in Stems /\ Stem(y) \in Stems /\ Stem(z) \in Stems
  BY StemIsStem
<1>2. ~DecimalBefore(x, x)
  BY <1>1, BeforeByStems, BeforeIrreflexive
<1>3. DecimalBefore(x, y) /\ DecimalBefore(y, z) => DecimalBefore(x, z)
  BY <1>1, BeforeByStems, BeforeTransitive
<1>4. Stem(x)[0] = x /\ Stem(y)[0] = y
  BY SMT DEF Stem, TenDigits
<1>5. x # y => DecimalBefore(x, y) \/ DecimalBefore(y, x)
  BY <1>1, <1>4, BeforeByStems, BeforeTotal
<1> QED BY <1>2, <1>3, <1>5
=============================================================================
