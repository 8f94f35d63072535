--------------------------- MODULE CommandsProofs ---------------------------
(***************************************************************************)
(* Theorems about module Commands: types, what saiki revisions deletes and *)
(* applies, and what saiki state answers.  The invariant is CommandInv:    *)
(* a version of an object has one content wherever it is known, and a      *)
(* command that is running has what it relies on.                          *)
(***************************************************************************)
EXTENDS Commands, NaturalFacts, FiniteSetTheorems, SequenceTheorems

-----------------------------------------------------------------------------
(* Sorted lists of a finite set.                                           *)

Connected(R, S) ==
    /\ \A x, y \in S : x = y \/ <<x, y>> \in R \/ <<y, x>> \in R
    /\ \A x, y, z \in S :
          <<x, y>> \in R /\ <<y, z>> \in R => <<x, z>> \in R

(* A finite set that is not empty has a last element in such an order.     *)
LEMMA LastExists ==
    ASSUME NEW S, IsFiniteSet(S), S # {}, NEW R, Connected(R, S)
    PROVE  \E m \in S : \A y \in S \ {m} : <<y, m>> \in R
<1> DEFINE Good == {n \in Nat : \A T \in SUBSET S : Cardinality(T) = n + 1 =>
                        \E m \in T : \A y \in T \ {m} : <<y, m>> \in R}
<1>1. \A T \in SUBSET S : IsFiniteSet(T) /\ Cardinality(T) \in Nat
  BY FS_Subset, FS_CardinalityType
<1>2. 0 \in Good
  <2>1. SUFFICES ASSUME NEW T \in SUBSET S, Cardinality(T) = 1
                 PROVE  \E m \in T : \A y \in T \ {m} : <<y, m>> \in R
    OBVIOUS
  <2>2. \E x : T = {x}
    BY <1>1, <2>1, FS_Singleton
  <2> QED BY <2>2
<1>3. \A n \in Good : n + 1 \in Good
  <2>1. SUFFICES ASSUME NEW n \in Good, NEW T \in SUBSET S,
                        Cardinality(T) = (n + 1) + 1
                 PROVE  \E m \in T : \A y \in T \ {m} : <<y, m>> \in R
    OBVIOUS
  <2>2. n \in Nat
    OBVIOUS
  <2>3. PICK x \in T : TRUE
    BY <1>1, <2>1, <2>2, FS_EmptySet
  <2>4. T \ {x} \in SUBSET S /\ Cardinality(T \ {x}) = n + 1
    BY <1>1, <2>1, <2>2, FS_RemoveElement
  <2>5. PICK m \in T \ {x} : \A y \in (T \ {x}) \ {m} : <<y, m>> \in R
    BY <2>4
  <2>6. CASE <<x, m>> \in R
    BY <2>5, <2>6
  <2>7. CASE <<m, x>> \in R
    <3>1. \A y \in T \ {x} : <<y, x>> \in R
      BY <2>3, <2>5, <2>7 DEF Connected
    <3> QED BY <2>3, <3>1
  <2> QED BY <2>3, <2>5, <2>6, <2>7 DEF Connected
<1>4. Good = Nat
  <2> HIDE DEF Good
  <2>1. Good \in SUBSET Nat
    BY DEF Good
  <2> QED BY <1>2, <1>3, <2>1, InductionForSets
<1>5. Cardinality(S) # 0 /\ Cardinality(S) \in Nat
  BY <1>1, FS_EmptySet
<1>6. Cardinality(S) - 1 \in Good
  BY <1>4, <1>5
<1> QED BY <1>5, <1>6

(* It can be listed in that order.                                         *)
LEMMA SortedExists ==
    ASSUME NEW S, IsFiniteSet(S), NEW R, Connected(R, S)
    PROVE  \E s \in SetToSeqs(S) :
               \A i, j \in DOMAIN s : i < j => <<s[i], s[j]>> \in R
<1> DEFINE Sorted(s) == \A i, j \in DOMAIN s : i < j => <<s[i], s[j]>> \in R
           Good == {n \in Nat : \A T \in SUBSET S : Cardinality(T) = n =>
                        \E s \in SetToSeqs(T) : Sorted(s)}
<1>1. \A T \in SUBSET S : IsFiniteSet(T) /\ Cardinality(T) \in Nat
  BY FS_Subset, FS_CardinalityType
<1>2. 0 \in Good
  <2>1. SUFFICES ASSUME NEW T \in SUBSET S, Cardinality(T) = 0
                 PROVE  \E s \in SetToSeqs(T) : Sorted(s)
    OBVIOUS
  <2> DEFINE s == [i \in 1..0 |-> i]
  <2>2. s \in SetToSeqs(T) /\ Sorted(s)
    BY <2>1 DEF SetToSeqs
  <2> QED BY <2>2
<1>3. \A n \in Good : n + 1 \in Good
  <2>1. SUFFICES ASSUME NEW n \in Good, NEW T \in SUBSET S,
                        Cardinality(T) = n + 1
                 PROVE  \E s \in SetToSeqs(T) : Sorted(s)
    OBVIOUS
  <2>2. n \in Nat /\ T # {}
    BY <2>1, FS_EmptySet
  <2>3. PICK m \in T : \A y \in T \ {m} : <<y, m>> \in R
    BY <1>1, <2>2, LastExists DEF Connected
  <2>4. T \ {m} \in SUBSET S /\ Cardinality(T \ {m}) = n
    BY <1>1, <2>1, <2>2, FS_RemoveElement
  <2>5. PICK s \in SetToSeqs(T \ {m}) : Sorted(s)
    BY <2>4
  <2>6. s \in [1..n -> T \ {m}] /\ \A i, j \in 1..n : i # j => s[i] # s[j]
    BY <2>4, <2>5 DEF SetToSeqs
  <2> DEFINE t == [i \in 1..n + 1 |-> IF i <= n THEN s[i] ELSE m]
  <2>7. t \in [1..n + 1 -> T]
    BY <2>2, <2>6
  <2>8. \A i, j \in 1..n + 1 : i # j => t[i] # t[j]
    BY <2>2, <2>6
  <2>9. \A i, j \in 1..n + 1 : i < j => <<t[i], t[j]>> \in R
    <3>1. SUFFICES ASSUME NEW i \in 1..n + 1, NEW j \in 1..n + 1, i < j
                   PROVE  <<t[i], t[j]>> \in R
      OBVIOUS
    <3>2. i \in 1..n /\ t[i] = s[i] /\ s[i] \in T \ {m}
      BY <2>2, <2>6, <3>1
    <3>3. CASE j <= n
      BY <2>2, <2>5, <2>6, <3>1, <3>2, <3>3
    <3>4. CASE j = n + 1
      BY <2>2, <2>3, <3>2, <3>4
    <3> QED BY <2>2, <3>3, <3>4
  <2> HIDE DEF t
  <2>10. t \in SetToSeqs(T) /\ Sorted(t)
    BY <2>1, <2>7, <2>8, <2>9 DEF SetToSeqs
  <2> QED BY <2>10
<1>4. Good = Nat
  <2> HIDE DEF Good
  <2>1. Good \in SUBSET Nat
    BY DEF Good
  <2> QED BY <1>2, <1>3, <2>1, InductionForSets
<1> QED BY <1>1, <1>4

(* Such a list has every element of the set.                               *)
LEMMA SeqsAreOnto ==
    ASSUME NEW S, IsFiniteSet(S), NEW s \in SetToSeqs(S)
    PROVE  /\ s \in Seq(S) /\ Len(s) = Cardinality(S) /\ ToSet(s) = S
           /\ \A i, j \in DOMAIN s : s[i] = s[j] => i = j
<1> DEFINE n == Cardinality(S)
<1>1. n \in Nat /\ s \in [1..n -> S] /\ \A i, j \in 1..n : i # j => s[i] # s[j]
  BY FS_CardinalityType DEF SetToSeqs
<1>2. IsFiniteSet(1..n) /\ Cardinality(1..n) = n
  BY <1>1, FS_Interval
<1>3. s \in Injection(1..n, S)
  BY <1>1 DEF Injection, IsInjective
<1>4. s \in Surjection(1..n, S)
  BY <1>2, <1>3, FS_Injection
<1>5. \A x \in S : \E i \in 1..n : s[i] = x
  BY <1>4 DEF Surjection
<1> QED BY <1>1, <1>5 DEF ToSet

-----------------------------------------------------------------------------
(* The archive.                                                            *)

(* What a version of an object contains, according to the cluster, a       *)
(* report or a live revision.                                              *)
Known(u) ==
    \/ u \in reports
    \/ \E b \in blobs \cup unsaved :
          /\ ~b.key.deleted
          /\ u = [res |-> b.key.res, rv |-> b.key.rv, content |-> b.content]
    \/ cluster[u.res] = u.content /\ version[u.res] = u.rv

(* They agree, and no version is from the future.                          *)
Agreed ==
    /\ \A u, v \in Reports :
          Known(u) /\ Known(v) /\ u.res = v.res /\ u.rv = v.rv => u = v
    /\ \A u \in Reports : Known(u) => u.rv <= lastRV

Archived ==
    /\ config = None => /\ reports = {} /\ unsaved = {} /\ blobs = {}
                        /\ \A res \in DOMAIN Standing :
                              /\ cluster[res] = Standing[res]
                              /\ version[res] = FirstRV
    /\ \A res \in Resources : IsFiniteSet(KeysOf(res))
    /\ \A b \in blobs \cup unsaved : b.key.rv <= MaxRV
    /\ \A u \in reports : u.rv <= MaxRV
    /\ Agreed

LEMMA UnixFacts ==
    ASSUME NEW t \in Nat
    PROVE  Unix(t) \in Int
<1>1. \A d \in Nat \ {0} : t \div d \in Int
  OBVIOUS
<1> QED BY <1>1, TicksAssumption DEF Unix

LEMMA KeysFacts ==
    ASSUME TypeOK, Archived, NEW res
    PROVE  /\ KeysOf(res) \subseteq Keys /\ IsFiniteSet(KeysOf(res))
           /\ LiveKeys(res) \subseteq KeysOf(res) /\ IsFiniteSet(LiveKeys(res))
           /\ \A k \in KeysOf(res) : /\ k.res = res /\ k.rv \in 0..MaxRV
                                     /\ \E b \in blobs : b.key = k
           /\ \A b \in blobs : b.key.res = res => b.key \in KeysOf(res)
<1>1. /\ KeysOf(res) \subseteq Keys
      /\ \A k \in KeysOf(res) : k.res = res /\ \E b \in blobs : b.key = k
      /\ \A b \in blobs : b.key.res = res => b.key \in KeysOf(res)
  BY DEF KeysOf, Stored, TypeOK, Blobs
<1>2. \A k \in KeysOf(res) : k.rv \in 0..MaxRV
  <2>1. \A k \in KeysOf(res) : k.rv \in Nat /\ k.rv <= MaxRV
    BY <1>1 DEF Archived, Keys
  <2> QED BY <2>1, BoundsAssumption
<1>3. IsFiniteSet(KeysOf(res))
  <2>1. CASE res \in Resources
    BY <2>1 DEF Archived
  <2>2. CASE res \notin Resources
    <3>1. KeysOf(res) = {}
      BY <1>1, <2>2 DEF Keys
    <3> QED BY <3>1, FS_EmptySet
  <2> QED BY <2>1, <2>2
<1>4. LiveKeys(res) \subseteq KeysOf(res)
  BY DEF LiveKeys
<1>5. IsFiniteSet(LiveKeys(res))
  BY <1>3, <1>4, FS_Subset
<1> QED BY <1>1, <1>2, <1>3, <1>4, <1>5

(* List gives every live revision once, in the order of versions.          *)
LEMMA ListFacts ==
    ASSUME TypeOK, Archived, NEW res
    PROVE  /\ List(res) \in Seq(LiveKeys(res))
           /\ ToSet(List(res)) = LiveKeys(res)
           /\ \A i, j \in DOMAIN List(res) :
                 i < j => List(res)[i].rv <= List(res)[j].rv
<1> DEFINE S == LiveKeys(res)
           R == {p \in S \X S : p[1].rv <= p[2].rv}
<1>1. IsFiniteSet(S) /\ \A k \in S : k.rv \in Nat
  BY KeysFacts, BoundsAssumption
<1>2. Connected(R, S)
  BY <1>1 DEF Connected
<1>3. \A x, y : <<x, y>> \in R => x.rv <= y.rv
  OBVIOUS
<1> HIDE DEF R
<1>4. \E s \in SetToSeqs(S) :
          \A i, j \in DOMAIN s : i < j => s[i].rv <= s[j].rv
  <2>1. PICK s \in SetToSeqs(S) :
                \A i, j \in DOMAIN s : i < j => <<s[i], s[j]>> \in R
    BY <1>1, <1>2, SortedExists
  <2> QED BY <1>3, <2>1
<1>5. /\ List(res) \in SetToSeqs(S)
      /\ \A i, j \in DOMAIN List(res) :
            i < j => List(res)[i].rv <= List(res)[j].rv
  BY <1>4 DEF List
<1> QED BY <1>1, <1>5, SeqsAreOnto

(* A walk visits every revision of the object once.                        *)
LEMMA WalkFacts ==
    ASSUME TypeOK, Archived, NEW res
    PROVE  Walk(res) \in Seq(KeysOf(res)) /\ ToSet(Walk(res)) = KeysOf(res)
<1> DEFINE S == KeysOf(res)
           R == {p \in S \X S : WalkBefore(p[1], p[2])}
<1>0. \A x \in 0..MaxRV : x \in TenDigits
  BY BoundsAssumption, VersionAssumption, SMT DEF TenDigits
<1>1. /\ IsFiniteSet(S)
      /\ \A k \in S : k \in Keys /\ k.res = res /\ k.rv \in 0..MaxRV
  BY KeysFacts
<1>2. ASSUME NEW k \in S, NEW l \in S, k.rv = l.rv, k.sec = l.sec,
             k.deleted <=> l.deleted
      PROVE  k = l
  <2>1. /\ k = [res |-> k.res, rv |-> k.rv, sec |-> k.sec, deleted |-> k.deleted]
        /\ l = [res |-> l.res, rv |-> l.rv, sec |-> l.sec, deleted |-> l.deleted]
    BY <1>1 DEF Keys
  <2>2. k.deleted \in BOOLEAN /\ l.deleted \in BOOLEAN
    BY <1>1, Zenon DEF Keys
  <2>3. k.deleted = l.deleted
    BY <1>2, <2>2, Zenon
  <2> QED BY <1>1, <1>2, <2>1, <2>3, Zenon
<1>3. Connected(R, S)
  <2>1. ASSUME NEW x \in S, NEW y \in S, x # y
        PROVE  WalkBefore(x, y) \/ WalkBefore(y, x)
    <3>1. x.sec \in Int /\ y.sec \in Int
      BY <1>1 DEF Keys
    <3>2. CASE x.rv # y.rv
      BY <1>0, <1>1, <3>2, DecimalOrder DEF WalkBefore
    <3>3. CASE x.rv = y.rv /\ x.sec # y.sec
      BY <3>1, <3>3 DEF WalkBefore
    <3>4. CASE x.rv = y.rv /\ x.sec = y.sec
      <4>1. x.deleted <=> ~y.deleted
        BY <1>2, <2>1, <3>4, Zenon
      <4> QED BY <3>4, <4>1 DEF WalkBefore
    <3> QED BY <3>2, <3>3, <3>4
  <2>2. SUFFICES ASSUME NEW x \in S, NEW y \in S, NEW z \in S,
                        WalkBefore(x, y), WalkBefore(y, z)
                 PROVE  WalkBefore(x, z)
    BY <2>1 DEF Connected
  <2> QED BY <1>0, <1>1, <2>2, DecimalOrder DEF WalkBefore, Keys
<1>4. \A x, y : <<x, y>> \in R => WalkBefore(x, y)
  OBVIOUS
<1> HIDE DEF R
<1>5. \E s \in SetToSeqs(S) :
          \A i, j \in DOMAIN s : i < j => WalkBefore(s[i], s[j])
  <2>1. PICK s \in SetToSeqs(S) :
                \A i, j \in DOMAIN s : i < j => <<s[i], s[j]>> \in R
    BY <1>1, <1>3, SortedExists
  <2> QED BY <1>4, <2>1
<1>6. Walk(res) \in SetToSeqs(S)
  BY <1>5 DEF Walk
<1> QED BY <1>1, <1>6, SeqsAreOnto

(* latestRevision is the newest live revision, if there is a live one.     *)
LEMMA LatestFacts ==
    ASSUME TypeOK, Archived, NEW res
    PROVE  /\ LiveKeys(res) = {} => latestRevision(res) = None
           /\ LiveKeys(res) # {} =>
                 /\ latestRevision(res) \in LiveKeys(res)
                 /\ \A k \in LiveKeys(res) : k.rv <= latestRevision(res).rv
<1> DEFINE s == List(res)
<1>1. /\ s \in Seq(LiveKeys(res)) /\ ToSet(s) = LiveKeys(res)
      /\ \A i, j \in DOMAIN s : i < j => s[i].rv <= s[j].rv
  BY ListFacts
<1>2. latestRevision(res) = IF s = <<>> THEN None ELSE s[Len(s)]
  BY DEF latestRevision, Last
<1> HIDE DEF s
<1>3. \A k \in LiveKeys(res) : k.rv \in Int
  BY KeysFacts, BoundsAssumption
<1>4. s = <<>> <=> LiveKeys(res) = {}
  BY <1>1 DEF ToSet
<1>5. s # <<>> => s[Len(s)] \in LiveKeys(res) /\ Len(s) \in DOMAIN s
  BY <1>1
<1>6. ASSUME s # <<>>, NEW k \in LiveKeys(res)
      PROVE  k.rv <= s[Len(s)].rv
  <2>1. PICK i \in DOMAIN s : s[i] = k
    BY <1>1 DEF ToSet
  <2>2. i = Len(s) \/ i < Len(s)
    BY <1>1, <2>1
  <2> QED BY <1>1, <1>3, <1>5, <1>6, <2>1, <2>2
<1> QED BY <1>2, <1>4, <1>5, <1>6

(* The content under a key that is there is the one that was saved.        *)
LEMMA ContentFacts ==
    ASSUME TypeOK, NEW b \in blobs
    PROVE  ContentAt(b.key) = b.content /\ b.content \in Contents
BY DEF ContentAt, TypeOK, Blobs

(* What is loaded is a stored content, and that of the newest revision if  *)
(* it is asked for.                                                        *)
LEMMA LoadedFacts ==
    ASSUME TypeOK, Archived, NEW res, NEW k \in LiveKeys(res)
    PROVE  /\ Content(k) \in Contents
           /\ (\A l \in LiveKeys(res) : l.rv <= k.rv)
              => Content(k) = ContentAt(k)
<1>1. k.res = res /\ LiveKeys(res) \subseteq KeysOf(res)
  BY KeysFacts
<1>2. /\ latestRevision(res) \in LiveKeys(res)
      /\ \A l \in LiveKeys(res) : l.rv <= latestRevision(res).rv
  BY LatestFacts
<1>3. Content(k) = ContentAt(latestRevision(res))
  BY <1>1 DEF Content
<1>4. Content(k) \in Contents
  <2>1. latestRevision(res) \in KeysOf(res)
    BY <1>1, <1>2
  <2>2. PICK b \in blobs : b.key = latestRevision(res)
    BY <2>1 DEF KeysOf, Stored
  <2> QED BY <1>3, <2>2, ContentFacts
<1>5. ASSUME \A l \in LiveKeys(res) : l.rv <= k.rv
      PROVE  ContentAt(latestRevision(res)) = ContentAt(k)
  <2>1. k.rv \in Int /\ latestRevision(res).rv \in Int
    BY <1>1, <1>2, KeysFacts, BoundsAssumption
  <2>2. k.rv = latestRevision(res).rv
    BY <1>2, <1>5, <2>1
  <2>3. PICK x \in blobs : x.key = k /\ ~x.key.deleted
    BY <1>1 DEF LiveKeys, KeysOf, Stored
  <2>4. PICK y \in blobs : /\ y.key = latestRevision(res) /\ ~y.key.deleted
                           /\ y.key.res = res
    BY <1>2 DEF LiveKeys, KeysOf, Stored
  <2>5. x.content = y.content
    BY <1>1, <2>2, <2>3, <2>4 DEF TypeOK
  <2> QED BY <2>3, <2>4, <2>5, ContentFacts
<1> QED BY <1>3, <1>4, <1>5

(* A verb is applied to the live revision of the version that is asked     *)
(* for, or to all live ones if it is not there.                            *)
LEMMA ChooseFacts ==
    ASSUME TypeOK, Archived, NEW res, NEW revision
    PROVE  /\ Choose(res, revision) \in Seq(LiveKeys(res))
           /\ \/ \A k \in ToSet(Choose(res, revision)) : k.rv = revision
              \/ \A k \in LiveKeys(res) : k.rv # revision
<1> DEFINE s     == List(res)
           asked == {i \in DOMAIN s : s[i].rv = revision}
<1>1. s \in Seq(LiveKeys(res)) /\ ToSet(s) = LiveKeys(res)
  BY ListFacts
<1>2. Choose(res, revision) = IF asked = {} THEN s ELSE <<s[Max(asked)]>>
  BY DEF Choose
<1> HIDE DEF s
<1>3. CASE asked = {}
  <2>1. \A k \in LiveKeys(res) : k.rv # revision
    BY <1>1, <1>3 DEF ToSet
  <2> QED BY <1>1, <1>2, <1>3, <2>1
<1>4. CASE asked # {}
  <2>1. Max(asked) \in asked
    <3>1. asked \in SUBSET Nat /\ Len(s) \in Nat /\ \A k \in asked : k <= Len(s)
      BY <1>1
    <3> HIDE DEF asked
    <3>2. \E n \in asked : \A k \in asked : n >= k
      BY <1>4, <3>1, GreatestExists
    <3> QED BY <3>2 DEF Max
  <2>2. s[Max(asked)].rv = revision /\ s[Max(asked)] \in LiveKeys(res)
    BY <1>1, <2>1 DEF ToSet
  <2> HIDE DEF asked
  <2>3. Choose(res, revision) = <<s[Max(asked)]>>
    BY <1>2, <1>4
  <2> QED BY <2>2, <2>3 DEF ToSet
<1> QED BY <1>3, <1>4

-----------------------------------------------------------------------------
(* The running command.                                                    *)

Size(bulk) == IF bulk THEN ChunkSize ELSE 1

(* The keys before position i * Size(bulk) + 1, which have been asked for  *)
(* when i requests are done.                                               *)
Requested(keys, bulk, i) == {keys[x] : x \in 1..i * Size(bulk)}

DeleteJobs == [cmd : {"delete"}, revision : Nat,
               keys : Seq(Keys), listed : SUBSET Keys, bulk : BOOLEAN,
               chunk : Nat, printed : SUBSET Keys, faulty : BOOLEAN,
               again : SUBSET Keys]

ApplyJobs == [cmd : {"apply"}, at : {"content", "create", "get", "patch"},
              key : Keys, overwrite : BOOLEAN, sub : BOOLEAN,
              content : Contents \cup {None}, current : Contents \cup {None},
              newest : BOOLEAN]

(* A deletion works on live revisions that were listed; what it has        *)
(* reported is gone or was written again, and is all it asked for unless   *)
(* it is faulty.                                                           *)
Deleting(j) ==
    /\ j \in DeleteJobs
    /\ j.chunk < Chunks(j.keys, j.bulk)
    /\ ToSet(j.keys) \subseteq j.listed
    /\ \A k \in j.listed : ~k.deleted
    /\ \/ \A k \in ToSet(j.keys) : k.rv = j.revision
       \/ \A k \in j.listed : k.rv # j.revision
    /\ j.printed \subseteq ToSet(j.keys)
    /\ Stored \cap j.printed \subseteq j.again
    /\ ~j.faulty => j.printed = Requested(j.keys, j.bulk, j.chunk)

(* An application works on a live revision that is still there, with the   *)
(* content of the newest one.                                              *)
Restoring(j) ==
    /\ j \in ApplyJobs
    /\ j.key \in LiveKeys(j.key.res)
    /\ j.at # "content" =>
          /\ j.content \in Contents
          /\ j.newest => j.content = ContentAt(j.key)
    /\ j.at = "patch" => j.current \in Contents

Working ==
    job # None =>
        /\ out = Nothing
        /\ config # None
        /\ job.cmd = "delete" => Deleting(job)
        /\ job.cmd = "apply" => Restoring(job)

CommandInv == TypeOK /\ Archived /\ Working

-----------------------------------------------------------------------------
(* Chunks.                                                                 *)

LEMMA MinFacts ==
    ASSUME NEW a \in Int, NEW b \in Int
    PROVE  Min({a, b}) = IF a <= b THEN a ELSE b
BY DEF Min

(* n keys in requests of d: every request begins among them or right after *)
(* them, and the last one takes in the rest.                               *)
LEMMA Division ==
    ASSUME NEW n \in Nat, NEW d \in Nat \ {0}, NEW i \in Nat
    PROVE  /\ i < n \div d + 1 => i * d <= n
           /\ ~(i + 1 < n \div d + 1) => n < (i + 1) * d
<1> DEFINE q == n \div d
<1>1. q \in Nat /\ q * d <= n /\ n < (q + 1) * d
  OBVIOUS
<1> HIDE DEF q
<1>2. \A x, y \in Nat : x <= y => x * d <= y * d
  OBVIOUS
<1>3. ASSUME i < q + 1 PROVE i * d <= n
  <2>1. i * d <= q * d /\ i * d \in Nat /\ q * d \in Nat
    BY <1>1, <1>2, <1>3
  <2> QED BY <1>1, <2>1
<1>4. ASSUME ~(i + 1 < q + 1) PROVE n < (i + 1) * d
  <2>1. (q + 1) * d <= (i + 1) * d /\ (q + 1) * d \in Nat /\ (i + 1) * d \in Nat
    BY <1>1, <1>2, <1>4
  <2> QED BY <1>1, <2>1
<1> QED BY <1>3, <1>4 DEF q

(* A request asks for the next keys, and the last one for all that are     *)
(* left.                                                                   *)
LEMMA ChunkFacts ==
    ASSUME NEW keys \in Seq(Keys), NEW bulk \in BOOLEAN, NEW i \in Nat,
           i < Chunks(keys, bulk)
    PROVE  /\ Chunk(keys, bulk, i) \subseteq ToSet(keys)
           /\ Requested(keys, bulk, i) \cup Chunk(keys, bulk, i) =
                 IF i + 1 < Chunks(keys, bulk)
                 THEN Requested(keys, bulk, i + 1) ELSE ToSet(keys)
<1> DEFINE n == Len(keys)
           d == Size(bulk)
           a == i * d
           b == (i + 1) * d
           e == IF b <= n THEN b ELSE n
<1>1. n \in Nat /\ d \in Nat \ {0} /\ DOMAIN keys = 1..n
  BY ChunkAssumption DEF Size
<1>2. a \in Nat /\ b \in Nat /\ b = a + d
  BY <1>1
<1>3. Chunks(keys, bulk) = IF bulk THEN n \div ChunkSize + 1 ELSE n
  BY DEF Chunks
<1>4. /\ a <= n
      /\ i + 1 < Chunks(keys, bulk) => b <= n
      /\ ~(i + 1 < Chunks(keys, bulk)) => n <= b
  <2>1. CASE bulk
    <3>1. d = ChunkSize /\ Chunks(keys, bulk) = n \div d + 1
      BY <1>3, <2>1 DEF Size
    <3> HIDE DEF n, d
    <3>2. a <= n
      BY <1>1, <3>1, Division
    <3>3. i + 1 \in Nat
      OBVIOUS
    <3>4. i + 1 < n \div d + 1 => b <= n
      BY <1>1, <3>3, Division
    <3>5. ~(i + 1 < n \div d + 1) => n < b
      BY <1>1, Division
    <3> HIDE DEF a, b
    <3> QED BY <1>1, <1>2, <3>1, <3>2, <3>4, <3>5
  <2>2. CASE ~bulk
    <3>1. d = 1 /\ Chunks(keys, bulk) = n
      BY <1>3, <2>2 DEF Size
    <3>2. a = i /\ b = i + 1
      BY <3>1
    <3> HIDE DEF a, b, d, n
    <3> QED BY <1>1, <3>1, <3>2
  <2> QED BY <2>1, <2>2
<1>5. /\ e \in Nat /\ e <= n /\ a <= e
      /\ i + 1 < Chunks(keys, bulk) => e = b
      /\ ~(i + 1 < Chunks(keys, bulk)) => e = n
  <2> HIDE DEF a, b, d, n
  <2> QED BY <1>1, <1>2, <1>4
<1>6. Chunk(keys, bulk, i) = {keys[x] : x \in a + 1..e}
  <2>1. Min({b, n}) = e
    <3> HIDE DEF b, n
    <3> QED BY <1>1, <1>2, MinFacts
  <2>2. Chunk(keys, bulk, i) = ToSet(SubSeq(keys, a + 1, e))
    BY <2>1 DEF Chunk, Size
  <2> HIDE DEF a, b, d, e
  <2>3. /\ DOMAIN SubSeq(keys, a + 1, e) = 1..e - a
        /\ \A x \in 1..e - a : SubSeq(keys, a + 1, e)[x] = keys[a + x]
    <3> DEFINE t == SubSeq(keys, a + 1, e)
    <3>1. \A x \in a + 1..e : keys[x] \in Keys
      <4>1. \A x \in 1..n : keys[x] \in Keys
        BY ElementOfSeq
      <4> HIDE DEF n
      <4>2. \A x \in a + 1..e : x \in 1..n
        BY <1>1, <1>2, <1>5
      <4> QED BY <4>1, <4>2
    <3>2. /\ t \in Seq(Keys)
          /\ Len(t) = IF a + 1 <= e THEN e - (a + 1) + 1 ELSE 0
          /\ \A x \in 1..e - (a + 1) + 1 : t[x] = keys[a + 1 + x - 1]
      BY <1>2, <1>5, <3>1, SubSeqProperties
    <3> HIDE DEF t
    <3>3. Len(t) = e - a /\ e - (a + 1) + 1 = e - a
      BY <1>2, <1>5, <3>2
    <3>4. \A x \in 1..e - a : a + 1 + x - 1 = a + x
      BY <1>2, <1>5
    <3>5. DOMAIN t = 1..e - a
      BY <3>2, <3>3
    <3> QED BY <3>2, <3>3, <3>4, <3>5 DEF t
  <2>4. ToSet(SubSeq(keys, a + 1, e)) = {keys[a + x] : x \in 1..e - a}
    BY <2>3 DEF ToSet
  <2>5. \A x \in a + 1..e : x - a \in 1..e - a /\ x = a + (x - a)
    BY <1>2, <1>5
  <2>6. \A x \in 1..e - a : a + x \in a + 1..e
    BY <1>2, <1>5
  <2> QED BY <2>2, <2>4, <2>5, <2>6
<1>7. Requested(keys, bulk, i) = {keys[x] : x \in 1..a}
      /\ Requested(keys, bulk, i + 1) = {keys[x] : x \in 1..b}
  BY DEF Requested
<1>8. ToSet(keys) = {keys[x] : x \in 1..n}
  BY <1>1 DEF ToSet
<1> HIDE DEF a, b, d, e, n
<1>9. a + 1..e \subseteq 1..n /\ (1..a) \cup (a + 1..e) = 1..e
  BY <1>1, <1>2, <1>5
<1> QED BY <1>5, <1>6, <1>7, <1>8, <1>9

-----------------------------------------------------------------------------
(* Steps of the cluster and of saiki watch.                                *)

(* What is known after a step was known before, or is of the next version. *)
LEMMA AgreedStays ==
    ASSUME Agreed, TypeOK, NEW n \in Reports, lastRV <= lastRV', lastRV' \in Int,
           \A u \in Reports : Known(u)' => Known(u) \/ u = n,
           Known(n) \/ (n.rv = lastRV + 1 /\ n.rv <= lastRV')
    PROVE  Agreed'
<1>1. lastRV \in Int /\ \A u \in Reports : u.rv \in Int
  BY BoundsAssumption DEF TypeOK, Reports
<1>2. \A u \in Reports : Known(u)' => u.rv <= lastRV'
  BY <1>1 DEF Agreed
<1>3. \A u, v \in Reports :
          Known(u)' /\ Known(v)' /\ u.res = v.res /\ u.rv = v.rv => u = v
  <2>1. CASE Known(n)
    BY <2>1 DEF Agreed
  <2>2. CASE n.rv = lastRV + 1
    <3>1. \A u \in Reports : Known(u) => u.rv # n.rv
      BY <1>1, <2>2 DEF Agreed
    <3> QED BY <3>1 DEF Agreed
  <2> QED BY <2>1, <2>2
<1> QED BY <1>2, <1>3 DEF Agreed

LEMMA NothingNew ==
    ASSUME Agreed, TypeOK, lastRV' = lastRV,
           \A u \in Reports : Known(u)' => Known(u)
    PROVE  Agreed'
<1>1. \A u \in Reports : Known(u)' => u.rv <= lastRV'
  BY DEF Agreed
<1> QED BY <1>1 DEF Agreed

(* A blob of a live revision stays, so it is of one content with any other *)
(* that is known of the version.                                           *)
LEMMA LiveFacts ==
    ASSUME TypeOK, Agreed, NEW x \in blobs \cup unsaved, ~x.key.deleted
    PROVE  LET u == [res |-> x.key.res, rv |-> x.key.rv, content |-> x.content]
           IN  u \in Reports /\ Known(u)
<1>1. x \in Blobs /\ x.key \in Keys
  BY DEF TypeOK, Blobs
<1>2. [res |-> x.key.res, rv |-> x.key.rv, content |-> x.content] \in Reports
  BY <1>1 DEF Blobs, Keys, Reports
<1> QED BY <1>2 DEF Known

LEMMA LiveAgree ==
    ASSUME TypeOK, Agreed, NEW x \in blobs \cup unsaved, ~x.key.deleted,
           NEW y \in blobs \cup unsaved, ~y.key.deleted,
           x.key.res = y.key.res, x.key.rv = y.key.rv
    PROVE  x.content = y.content
<1> DEFINE u == [res |-> x.key.res, rv |-> x.key.rv, content |-> x.content]
           v == [res |-> y.key.res, rv |-> y.key.rv, content |-> y.content]
<1>1. u \in Reports /\ Known(u) /\ v \in Reports /\ Known(v)
  BY LiveFacts
<1>2. u.res = v.res /\ u.rv = v.rv /\ u.content = x.content /\ v.content = y.content
  OBVIOUS
<1> HIDE DEF u, v
<1>3. u = v
  BY <1>1, <1>2 DEF Agreed
<1> QED BY <1>2, <1>3

(* A revision that stays is found again, with its content.                 *)
LEMMA StaysFacts ==
    ASSUME TypeOK, TypeOK', \A b \in blobs : ~b.key.deleted => b \in blobs'
    PROVE  \A k \in Keys : k \in LiveKeys(k.res) =>
               /\ k \in LiveKeys(k.res)'
               /\ ContentAt(k)' = ContentAt(k)
<1>1. SUFFICES ASSUME NEW k \in Keys, k \in LiveKeys(k.res)
               PROVE  /\ k \in LiveKeys(k.res)'
                      /\ ContentAt(k)' = ContentAt(k)
  OBVIOUS
<1>2. PICK b \in blobs : b.key = k
  BY <1>1 DEF LiveKeys, KeysOf, Stored
<1>3. b \in blobs' /\ ~k.deleted
  BY <1>1, <1>2 DEF LiveKeys
<1>4. k \in LiveKeys(k.res)'
  BY <1>2, <1>3 DEF LiveKeys, KeysOf, Stored
<1>5. ContentAt(k) = b.content
  BY <1>2 DEF ContentAt, TypeOK
<1>6. ContentAt(k)' = b.content
  BY <1>2, <1>3 DEF ContentAt, TypeOK
<1> QED BY <1>4, <1>5, <1>6

(* A step that leaves the live revisions alone does not disturb apply.     *)
LEMMA RestoringStays ==
    ASSUME TypeOK, TypeOK', \A b \in blobs : ~b.key.deleted => b \in blobs',
           job' = job, Restoring(job)
    PROVE  Restoring(job)'
<1>1. /\ job.key \in LiveKeys(job.key.res)'
      /\ ContentAt(job.key)' = ContentAt(job.key)
  BY StaysFacts DEF Restoring, ApplyJobs
<1>2. job.key' = job.key
  OBVIOUS
<1>3. /\ job.key' \in LiveKeys(job.key.res)'
      /\ ContentAt(job.key)' = ContentAt(job.key)
  BY <1>1, <1>2 DEF LiveKeys, KeysOf, Stored, ContentAt
<1> QED BY <1>3 DEF Restoring

(* A step that leaves the archive and the command alone.                   *)
LEMMA WorkingStays ==
    ASSUME TypeOK, TypeOK', Working, UNCHANGED <<blobs, job, out>>,
           config # None => config' # None
    PROVE  Working'
<1>1. SUFFICES ASSUME job # None
               PROVE  /\ job.cmd = "delete" => Deleting(job)'
                      /\ job.cmd = "apply" => Restoring(job)'
  BY DEF Working
<1>2. ASSUME job.cmd = "delete" PROVE Deleting(job)'
  <2>1. Deleting(job)
    BY <1>1, <1>2 DEF Working
  <2> QED BY <2>1 DEF Deleting, Stored
<1>3. ASSUME job.cmd = "apply" PROVE Restoring(job)'
  BY <1>1, <1>3, RestoringStays DEF Working
<1> QED BY <1>2, <1>3

-----------------------------------------------------------------------------
(* The kind an argument means.                                             *)

(* Entry i of the list is the one: the first with the full name, or the    *)
(* last with another name if none has the full one.                        *)
IsMeant(list, arg, i) ==
    \/ /\ arg = list[i].full
       /\ \A j \in 1..i - 1 : arg # list[j].full
    \/ /\ arg \in list[i].aliases
       /\ \A j \in DOMAIN list : j > i => arg \notin list[j].aliases
       /\ \A j \in DOMAIN list : arg # list[j].full

(* What the search holds after k entries.                                  *)
Holds(acc, list, arg, k) ==
    \/ /\ acc.exact
       /\ \E i \in 1..k : /\ acc.mapping = {list[i]} /\ arg = list[i].full
                          /\ \A j \in 1..i - 1 : arg # list[j].full
    \/ /\ ~acc.exact
       /\ \A j \in 1..k : arg # list[j].full
       /\ \/ acc.mapping = {} /\ \A j \in 1..k : arg \notin list[j].aliases
          \/ \E i \in 1..k : /\ acc.mapping = {list[i]} /\ arg \in list[i].aliases
                             /\ \A j \in i + 1..k : arg \notin list[j].aliases

LEMMA HoldsStep ==
    ASSUME NEW list, NEW arg, NEW k \in Nat, NEW acc, Holds(acc, list, arg, k)
    PROVE  Holds(Matching(acc, list[k + 1], arg), list, arg, k + 1)
<1> DEFINE new == Matching(acc, list[k + 1], arg)
<1>1. \A j \in 1..k + 1 : j \in 1..k \/ j = k + 1
  OBVIOUS
<1>2. k + 1 \in 1..k + 1 /\ \A j \in 1..k : j \in 1..k + 1
  OBVIOUS
<1>3. CASE acc.exact
  <2>1. new = acc
    BY <1>3 DEF Matching
  <2> QED BY <1>2, <1>3, <2>1 DEF Holds
<1>4. CASE ~acc.exact /\ arg = list[k + 1].full
  <2>1. new = [exact |-> TRUE, mapping |-> {list[k + 1]}]
    BY <1>4 DEF Matching
  <2>2. \A j \in 1..(k + 1) - 1 : arg # list[j].full
    BY <1>4 DEF Holds
  <2> HIDE DEF new
  <2>3. new.exact /\ new.mapping = {list[k + 1]}
    BY <2>1
  <2> QED BY <1>2, <1>4, <2>2, <2>3 DEF Holds, new
<1>5. CASE ~acc.exact /\ arg # list[k + 1].full
  <2>1. \A j \in 1..k + 1 : arg # list[j].full
    BY <1>1, <1>5 DEF Holds
  <2>2. CASE arg \in list[k + 1].aliases
    <3>1. new = [exact |-> FALSE, mapping |-> {list[k + 1]}]
      BY <1>5, <2>2 DEF Matching
    <3>2. ~new.exact /\ new.mapping = {list[k + 1]}
      BY <3>1
    <3>3. \A j \in (k + 1) + 1..k + 1 : FALSE
      OBVIOUS
    <3> HIDE DEF new
    <3> QED BY <1>2, <2>1, <2>2, <3>2, <3>3 DEF Holds, new
  <2>3. CASE arg \notin list[k + 1].aliases
    <3>1. new = acc
      BY <1>5, <2>3 DEF Matching
    <3>2. \/ acc.mapping = {} /\ \A j \in 1..k : arg \notin list[j].aliases
          \/ \E i \in 1..k : /\ acc.mapping = {list[i]} /\ arg \in list[i].aliases
                             /\ \A j \in i + 1..k : arg \notin list[j].aliases
      BY <1>5 DEF Holds
    <3>3. CASE acc.mapping = {} /\ \A j \in 1..k : arg \notin list[j].aliases
      <4>1. \A j \in 1..k + 1 : arg \notin list[j].aliases
        BY <1>1, <2>3, <3>3
      <4> QED BY <1>5, <2>1, <3>1, <3>3, <4>1 DEF Holds
    <3>4. ASSUME NEW i \in 1..k, acc.mapping = {list[i]}, arg \in list[i].aliases,
                 \A j \in i + 1..k : arg \notin list[j].aliases
          PROVE  Holds(acc, list, arg, k + 1)
      <4>1. \A j \in i + 1..k + 1 : j \in i + 1..k \/ j = k + 1
        OBVIOUS
      <4>2. \A j \in i + 1..k + 1 : arg \notin list[j].aliases
        BY <2>3, <3>4, <4>1
      <4> QED BY <1>2, <1>5, <2>1, <3>4, <4>2 DEF Holds
    <3> QED BY <3>1, <3>2, <3>3, <3>4
  <2> QED BY <2>2, <2>3
<1> QED BY <1>3, <1>4, <1>5

(* The search is a loop.                                                   *)
LEMMA MatchedIs ==
    ASSUME NEW S, NEW list \in Seq(S), NEW arg
    PROVE  /\ Matched(list, arg)[0] = [exact |-> FALSE, mapping |-> {}]
           /\ \A k \in 1..Len(list) :
                 Matched(list, arg)[k]
                    = Matching(Matched(list, arg)[k - 1], list[k], arg)
<1> DEFINE start == [exact |-> FALSE, mapping |-> {}]
           A     == [exact : BOOLEAN, mapping : SUBSET S]
           n     == Len(list)
           step  == [k \in 1..n |-> [acc \in A |-> Matching(acc, list[k], arg)]]
<1>1. n \in Nat /\ \A k \in 1..n : list[k] \in S
  BY LenProperties, ElementOfSeq
<1>2. \A acc \in A : \A k \in 1..n : Matching(acc, list[k], arg) \in A
  BY <1>1 DEF Matching
<1>3. start \in A /\ step \in [1..n -> [A -> A]]
  BY <1>2
<1> HIDE DEF A, n, start
<1>4. PICK f \in [0..n -> A] : /\ f[0] = start
                               /\ \A k \in 1..n : f[k] = step[k][f[k - 1]]
  <2> HIDE DEF step
  <2>1. start \in A
    BY <1>3
  <2>2. step \in [1..n -> [A -> A]]
    BY <1>3
  <2>3. n \in Nat
    BY <1>1
  <2> QED BY ONLY <2>1, <2>2, <2>3, LoopExists
<1>5. \A k \in 1..n : k # 0 /\ k - 1 \in 0..n /\ k \in 0..n
  BY <1>1
<1>6. \A k \in 1..n : f[k] = Matching(f[k - 1], list[k], arg)
  BY <1>4, <1>5
<1>7. \A k \in 0..n : k \in 1..n \/ k = 0
  BY <1>1
<1>8. f = [k \in 0..n |-> IF k = 0 THEN start
                          ELSE Matching(f[k - 1], list[k], arg)]
  BY <1>4, <1>5, <1>6, <1>7
<1>9. Matched(list, arg) = [k \in 0..n |-> IF k = 0 THEN start
                    ELSE Matching(Matched(list, arg)[k - 1], list[k], arg)]
  BY <1>8 DEF Matched, n, start
<1>10. 0 \in 0..n
  BY <1>1
<1> DEFINE g == Matched(list, arg)
<1> HIDE DEF g
<1>11. g = [k \in 0..n |-> IF k = 0 THEN start
                           ELSE Matching(g[k - 1], list[k], arg)]
  BY <1>9 DEF g
<1>12. g[0] = start /\ \A k \in 1..n : g[k] = Matching(g[k - 1], list[k], arg)
  BY <1>5, <1>10, <1>11
<1> QED BY <1>12 DEF n, start, g

(* BestResourceMappingFor finds the entry that is meant, if there is one.  *)
LEMMA MappingFacts ==
    ASSUME NEW S, NEW list \in Seq(S), NEW arg
    PROVE  /\ \A a \in BestResourceMappingFor(list, arg) :
                 \E i \in DOMAIN list : a = list[i] /\ IsMeant(list, arg, i)
           /\ \A i \in DOMAIN list : IsMeant(list, arg, i) =>
                 BestResourceMappingFor(list, arg) = {list[i]}
<1> DEFINE n    == Len(list)
           f    == Matched(list, arg)
           Good == {k \in Nat : Holds(f[k], list, arg, k)}
<1>1. n \in Nat /\ DOMAIN list = 1..n
  BY LenProperties
<1>2. /\ f[0] = [exact |-> FALSE, mapping |-> {}]
      /\ \A k \in 1..n : f[k] = Matching(f[k - 1], list[k], arg)
  BY MatchedIs
<1>3. BestResourceMappingFor(list, arg) = f[n].mapping
  BY DEF BestResourceMappingFor
<1> HIDE DEF f, n
<1>4. 0 \in Good
  BY <1>2 DEF Holds
<1>5. ASSUME NEW k \in 0..n, k \in Good, k < n PROVE k + 1 \in Good
  <2>1. k + 1 \in 1..n /\ (k + 1) - 1 = k /\ k \in Nat
    BY <1>1, <1>5
  <2>2. Holds(Matching(f[k], list[k + 1], arg), list, arg, k + 1)
    BY <1>5, <2>1, HoldsStep
  <2> QED BY <1>2, <2>1, <2>2
<1>6. n \in Good
  <2> HIDE DEF Good
  <2>1. n \in 0..n
    BY <1>1
  <2> QED BY <1>1, <1>4, <1>5, <2>1, InductionUpTo
<1>7. Holds(f[n], list, arg, n)
  BY <1>6
<1>8. \A i \in 1..n : i \in Nat
  OBVIOUS
<1>9. CASE f[n].exact
  <2>1. PICK i \in 1..n : /\ f[n].mapping = {list[i]} /\ arg = list[i].full
                          /\ \A j \in 1..i - 1 : arg # list[j].full
    BY <1>7, <1>9 DEF Holds
  <2>2. ASSUME NEW j \in 1..n, IsMeant(list, arg, j) PROVE j = i
    <3>1. arg = list[j].full /\ \A k \in 1..j - 1 : arg # list[k].full
      BY <1>1, <2>1, <2>2 DEF IsMeant
    <3>2. (i < j => i \in 1..j - 1) /\ (j < i => j \in 1..i - 1)
      OBVIOUS
    <3>3. ~(i < j) /\ ~(j < i)
      BY <2>1, <3>1, <3>2
    <3> QED BY <3>3
  <2> QED BY <1>1, <1>3, <2>1, <2>2 DEF IsMeant
<1>10. CASE ~f[n].exact
  <2>1. \A j \in 1..n : arg # list[j].full
    BY <1>7, <1>10 DEF Holds
  <2>2. CASE f[n].mapping = {} /\ \A j \in 1..n : arg \notin list[j].aliases
    BY <1>1, <1>3, <2>1, <2>2 DEF IsMeant
  <2>3. ASSUME NEW i \in 1..n, f[n].mapping = {list[i]}, arg \in list[i].aliases,
               \A j \in i + 1..n : arg \notin list[j].aliases
        PROVE  /\ IsMeant(list, arg, i)
               /\ \A j \in 1..n : IsMeant(list, arg, j) => j = i
    <3>1. \A j \in 1..n : j > i => j \in i + 1..n
      BY <1>1
    <3>2. IsMeant(list, arg, i)
      <4>1. \A j \in DOMAIN list : j > i => arg \notin list[j].aliases
        BY <1>1, <2>3, <3>1
      <4>2. \A j \in DOMAIN list : arg # list[j].full
        BY <1>1, <2>1
      <4> QED BY <2>3, <4>1, <4>2 DEF IsMeant
    <3>3. ASSUME NEW j \in 1..n, IsMeant(list, arg, j) PROVE j = i
      <4>1. /\ arg \in list[j].aliases
            /\ \A k \in 1..n : k > j => arg \notin list[k].aliases
        BY <1>1, <2>1, <3>3 DEF IsMeant
      <4>2. ~(i < j) /\ ~(j < i)
        BY <2>3, <3>1, <4>1
      <4> QED BY <4>2
    <3> QED BY <3>2, <3>3
  <2>4. CASE \E i \in 1..n : /\ f[n].mapping = {list[i]} /\ arg \in list[i].aliases
                             /\ \A j \in i + 1..n : arg \notin list[j].aliases
    BY <1>1, <1>3, <2>3, <2>4
  <2> QED BY <1>7, <1>10, <2>2, <2>4 DEF Holds
<1> QED BY <1>9, <1>10

-----------------------------------------------------------------------------
(* Steps preserve the invariant.                                           *)

LEMMA ConfigFacts ==
    ASSUME TypeOK, NEW arg, NEW a \in Mappings(arg)
    PROVE  /\ config # None /\ config \in Seq(APIResources)
           /\ a \in APIResources
           /\ \E i \in DOMAIN config : a = config[i] /\ IsMeant(config, arg, i)
<1>1. config # None
  BY DEF Mappings
<1>2. config \in Seq(APIResources)
  BY <1>1, OfferAssumption DEF TypeOK
<1>3. a \in BestResourceMappingFor(config, arg)
  BY <1>1 DEF Mappings
<1>4. \E i \in DOMAIN config : a = config[i] /\ IsMeant(config, arg, i)
  BY <1>2, <1>3, MappingFacts
<1> QED BY <1>1, <1>2, <1>4

(* The revisions a verb is applied to are live ones of the object that is  *)
(* named.                                                                  *)
LEMMA ChosenFacts ==
    ASSUME TypeOK, Archived, NEW a, NEW q, NEW revision,
           Chosen(a, q, revision) # <<>>
    PROVE  \E res \in Resources :
               /\ ObjectsNamed(a, q) = {res}
               /\ Chosen(a, q, revision) = Choose(res, revision)
<1>1. ObjectsNamed(a, q) # {}
  BY DEF Chosen
<1>2. /\ \A x, y \in ObjectsNamed(a, q) : Meta[x] = Meta[y]
      /\ ObjectsNamed(a, q) \subseteq Resources
  BY Zenon DEF ObjectsNamed
<1>3. PICK res \in Resources : ObjectsNamed(a, q) = {res}
  BY <1>1, <1>2, MetaAssumption
<1> QED BY <1>3 DEF Chosen

LEMMA InitInv == Init => CommandInv
<1> SUFFICES ASSUME Init PROVE CommandInv
  OBVIOUS
<1>1. TypeOK
  <2>1. cluster \in [Resources -> Contents \cup {None}]
    BY StandingAssumption DEF Init
  <2>2. version \in [Resources -> FirstRV..MaxRV]
    BY BoundsAssumption DEF Init
  <2> QED BY <2>1, <2>2, BoundsAssumption DEF Init, TypeOK, Nothing
<1>2. Agreed
  <2>1. \A u \in Reports : u = [res |-> u.res, rv |-> u.rv, content |-> u.content]
                            /\ u.res \in Resources
    BY DEF Reports
  <2>2. \A u \in Reports : Known(u) => /\ cluster[u.res] = u.content
                                       /\ u.rv = FirstRV /\ u.rv = lastRV
    BY <2>1 DEF Init, Known
  <2>3. FirstRV <= FirstRV
    BY BoundsAssumption
  <2>4. \A u \in Reports : Known(u) => u.rv <= lastRV
    BY <2>2, <2>3 DEF Init
  <2>5. ASSUME NEW u \in Reports, NEW v \in Reports, Known(u), Known(v),
               u.res = v.res, u.rv = v.rv
        PROVE  u = v
    <3>1. u.content = v.content
      BY <2>2, <2>5
    <3> QED BY <2>1, <2>5, <3>1
  <2> QED BY <2>4, <2>5 DEF Agreed
<1>3. \A res \in Resources : KeysOf(res) = {}
  BY DEF Init, KeysOf, Stored
<1>4. Archived
  <2>1. \A res \in DOMAIN Standing : cluster[res] = Standing[res] /\ version[res] = FirstRV
    BY StandingAssumption DEF Init
  <2> QED BY <1>2, <1>3, <2>1, FS_EmptySet DEF Init, Archived
<1> QED BY <1>1, <1>4 DEF Init, CommandInv, Working

(* A step that leaves the archive and the command alone.                   *)
LEMMA AloneInv ==
    ASSUME CommandInv, TypeOK', UNCHANGED <<blobs, job, out>>, config' = config,
           config = None => UNCHANGED <<cluster, version, reports, unsaved>>,
           \A b \in unsaved' \ unsaved : b.key.rv <= MaxRV,
           \A u \in reports' \ reports : u.rv <= MaxRV,
           Agreed'
    PROVE  CommandInv'
<1>1. TypeOK /\ Archived /\ Working
  BY DEF CommandInv
<1>2. Working'
  BY <1>1, WorkingStays
<1>3. \A res \in Resources : KeysOf(res)' = KeysOf(res)
  BY DEF KeysOf, Stored
<1>4. Archived'
  BY <1>1, <1>3 DEF Archived
<1> QED BY <1>2, <1>4 DEF CommandInv

LEMMA TickInv == CommandInv /\ Tick => CommandInv'
<1> SUFFICES ASSUME CommandInv, Tick PROVE CommandInv'
  OBVIOUS
<1>1. /\ TypeOK /\ Archived /\ now \in Nat /\ now' = now + 1 /\ now < MaxNow
      /\ UNCHANGED <<lastRV, cluster, version, reports, unsaved, blobs, config,
                     job, out>>
  BY BoundsAssumption DEF CommandInv, Tick, TypeOK
<1>2. TypeOK'
  BY <1>1, BoundsAssumption DEF TypeOK
<1>3. Agreed'
  BY <1>1 DEF Archived, Agreed, Known
<1> QED BY <1>1, <1>2, <1>3, AloneInv

(* The blob of a revision.                                                 *)
LEMMA RevisionFacts ==
    ASSUME TypeOK, NEW u \in Reports, NEW deleted \in BOOLEAN, NEW b,
           b = RevisionFrom(u, deleted)
    PROVE  /\ b \in Blobs /\ b.key.res = u.res /\ b.key.rv = u.rv
           /\ b.key.deleted = deleted /\ b.content = u.content
<1>1. now \in Nat /\ Unix(now) \in Int
  BY BoundsAssumption, UnixFacts DEF TypeOK
<1> DEFINE k == [res |-> u.res, rv |-> u.rv, sec |-> Unix(now),
                 deleted |-> deleted]
<1>2. b = [key |-> k, content |-> u.content]
  BY DEF RevisionFrom, Key, ResourceKey
<1>3. u.res \in Resources /\ u.rv \in Nat /\ u.content \in Contents
  BY DEF Reports
<1>4. k \in Keys /\ k.res = u.res /\ k.rv = u.rv /\ k.deleted = deleted
  BY <1>1, <1>3 DEF Keys
<1> HIDE DEF k
<1> QED BY <1>2, <1>3, <1>4 DEF Blobs

LEMMA StartWatchInv ==
    ASSUME CommandInv, NEW d \in Discoveries, StartWatch(d)
    PROVE  CommandInv'
<1>1. /\ TypeOK /\ Archived /\ Working
      /\ UNCHANGED <<now, lastRV, cluster, version, reports, unsaved, job, out>>
      /\ config' = d
  BY DEF CommandInv, StartWatch, clusterVars
<1>2. config' # None
  BY <1>1, NoneAssumption
<1>4. CASE config # None
  <2>1. blobs' = blobs
    BY <1>4 DEF StartWatch
  <2>2. TypeOK'
    BY <1>1, <2>1 DEF TypeOK
  <2>3. Archived'
    BY <1>1, <1>2, <2>1 DEF Archived, Agreed, Known, KeysOf, Stored
  <2>4. Working'
    BY <1>1, <1>2, <2>1, <2>2, WorkingStays
  <2> QED BY <2>2, <2>3, <2>4 DEF CommandInv
<1>5. CASE config = None
  <2> DEFINE Object(res) == [res |-> res, rv |-> FirstRV,
                             content |-> Standing[res]]
  <2>1. blobs' = {RevisionFrom(Object(res), FALSE) : res \in DOMAIN Standing}
        /\ blobs = {} /\ job = None
    BY <1>1, <1>5 DEF StartWatch, Archived, Working
  <2>2. \A res \in DOMAIN Standing :
           /\ Object(res) \in Reports
           /\ Object(res).res = res /\ Object(res).rv = FirstRV
           /\ Object(res).content = Standing[res]
    BY StandingAssumption, BoundsAssumption DEF Reports
  <2> HIDE DEF Object
  <2>3. \A b \in blobs' :
           /\ b \in Blobs /\ b.key.rv = FirstRV
           /\ b.key.res \in DOMAIN Standing
           /\ b.content = Standing[b.key.res]
           /\ b = RevisionFrom(Object(b.key.res), FALSE)
    <3>1. TAKE b \in blobs'
    <3>2. PICK res \in DOMAIN Standing : b = RevisionFrom(Object(res), FALSE)
      BY <2>1
    <3>3. /\ b \in Blobs /\ b.key.res = Object(res).res
          /\ b.key.rv = Object(res).rv /\ b.content = Object(res).content
      BY <1>1, <2>2, <3>2, RevisionFacts
    <3> QED BY <2>2, <3>2, <3>3
  <2>4. \A x, y \in blobs' : x.key.res = y.key.res => x = y
    BY <2>3
  <2>5. TypeOK'
    BY <1>1, <2>3, <2>4 DEF TypeOK
  <2>6. Agreed'
    <3>1. SUFFICES ASSUME NEW u \in Reports, Known(u)', ~Known(u) PROVE FALSE
      BY <1>1, NothingNew DEF Archived
    <3>2. PICK b \in blobs' :
              u = [res |-> b.key.res, rv |-> b.key.rv, content |-> b.content]
      BY <1>1, <3>1 DEF Known
    <3>3. u.res = b.key.res /\ u.rv = b.key.rv /\ u.content = b.content
      BY <3>2
    <3>4. cluster[u.res] = u.content /\ version[u.res] = u.rv
      BY <1>1, <1>5, <2>3, <3>3 DEF Archived
    <3> QED BY <3>1, <3>4 DEF Known
  <2>7. Archived'
    <3>1. \A res \in Resources : IsFiniteSet(KeysOf(res)')
      <4>1. TAKE res \in Resources
      <4>2. \A k, l \in KeysOf(res)' : k = l
        BY <2>4 DEF KeysOf, Stored
      <4>3. CASE KeysOf(res)' = {}
        BY <4>3, FS_EmptySet
      <4>4. CASE KeysOf(res)' # {}
        <5>1. PICK k : KeysOf(res)' = {k}
          BY <4>2, <4>4
        <5> QED BY <5>1, FS_Singleton
      <4> QED BY <4>3, <4>4
    <3>2. \A b \in (blobs \cup unsaved)' : b.key.rv <= MaxRV
      BY <1>1, <2>3, BoundsAssumption DEF Archived
    <3> QED BY <1>1, <1>2, <2>6, <3>1, <3>2 DEF Archived
  <2>8. Working'
    BY <1>1, <2>1 DEF Working
  <2> QED BY <2>5, <2>7, <2>8 DEF CommandInv
<1> QED BY <1>4, <1>5

(* The API server has given out the next version and reported u; what it   *)
(* reports of an object that is gone may be of the version it had.         *)
Reported(u) ==
    /\ u \in Reports
    /\ lastRV < MaxRV /\ lastRV' = lastRV + 1
    /\ reports' = reports \cup {u}
    /\ UNCHANGED <<now, unsaved, blobs, config>>
    /\ \/ /\ u.rv = lastRV + 1
          /\ cluster' = [cluster EXCEPT ![u.res] = u.content]
          /\ version' = [version EXCEPT ![u.res] = u.rv]
       \/ /\ \/ u.rv = lastRV + 1
             \/ u.rv = version[u.res] /\ u.content = cluster[u.res]
          /\ cluster' = [cluster EXCEPT ![u.res] = None]
          /\ version' = version

LEMMA ReportedFacts ==
    ASSUME TypeOK, Archived, NEW u, Reported(u)
    PROVE  /\ Agreed' /\ u.rv <= MaxRV /\ lastRV' \in FirstRV..MaxRV
           /\ cluster' \in [Resources -> Contents \cup {None}]
           /\ version' \in [Resources -> FirstRV..MaxRV]
<1>1. /\ lastRV \in FirstRV..MaxRV /\ lastRV \in Int /\ u \in Reports
      /\ u.res \in Resources /\ u.content \in Contents /\ u.rv \in Nat
      /\ lastRV' \in FirstRV..MaxRV /\ lastRV' \in Int /\ lastRV <= lastRV'
      /\ lastRV + 1 \in FirstRV..MaxRV
  BY BoundsAssumption DEF TypeOK, Reported, Reports
<1>2. /\ cluster' \in [Resources -> Contents \cup {None}]
      /\ version' \in [Resources -> FirstRV..MaxRV]
  BY <1>1 DEF TypeOK, Reported
<1>3. u.rv <= MaxRV
  <2>1. version[u.res] \in FirstRV..MaxRV
    BY <1>1 DEF TypeOK
  <2> QED BY <1>1, <2>1, BoundsAssumption DEF Reported
<1>4. Known(u) \/ (u.rv = lastRV + 1 /\ u.rv <= lastRV')
  BY <1>1 DEF Reported, Known
<1>5. ASSUME NEW v \in Reports, Known(v)' PROVE Known(v) \/ v = u
  <2>1. /\ v = [res |-> v.res, rv |-> v.rv, content |-> v.content]
        /\ u = [res |-> u.res, rv |-> u.rv, content |-> u.content]
        /\ v.content # None /\ v.res \in Resources
    BY <1>1, NoneAssumption DEF Reports
  <2>2. CASE v \in reports'
    BY <2>2 DEF Reported, Known
  <2>3. CASE \E b \in blobs' \cup unsaved' :
               /\ ~b.key.deleted
               /\ v = [res |-> b.key.res, rv |-> b.key.rv, content |-> b.content]
    BY <2>3 DEF Reported, Known
  <2>4. CASE cluster'[v.res] = v.content /\ version'[v.res] = v.rv
    <3>1. CASE v.res = u.res
      BY <1>1, <2>1, <2>4, <3>1 DEF Reported, TypeOK
    <3>2. CASE v.res # u.res
      <4>1. cluster'[v.res] = cluster[v.res] /\ version'[v.res] = version[v.res]
        BY <2>1, <3>2 DEF Reported, TypeOK
      <4> QED BY <2>4, <4>1 DEF Known
    <3> QED BY <3>1, <3>2
  <2> QED BY <1>5, <2>2, <2>3, <2>4 DEF Known
<1>6. Agreed'
  BY <1>1, <1>4, <1>5, AgreedStays DEF Archived
<1> QED BY <1>1, <1>2, <1>3, <1>6

LEMMA ReportedInv ==
    ASSUME CommandInv, NEW u, Reported(u), config # None,
           \/ UNCHANGED <<job, out>>
           \/ job' = None /\ out'.cmd = "apply"
    PROVE  CommandInv'
<1>1. TypeOK /\ Archived /\ Working /\ u \in Reports
  BY DEF CommandInv, Reported
<1>2. /\ Agreed' /\ u.rv <= MaxRV /\ lastRV' \in FirstRV..MaxRV
      /\ cluster' \in [Resources -> Contents \cup {None}]
      /\ version' \in [Resources -> FirstRV..MaxRV]
  BY <1>1, ReportedFacts
<1>3. /\ reports' = reports \cup {u}
      /\ UNCHANGED <<now, unsaved, blobs, config>>
  BY DEF Reported
<1>4. TypeOK'
  BY <1>1, <1>2, <1>3 DEF TypeOK
<1>5. CASE UNCHANGED <<job, out>>
  BY <1>2, <1>3, <1>4, <1>5, AloneInv
<1>6. CASE job' = None
  <2>1. Working'
    BY <1>6 DEF Working
  <2>2. \A res \in Resources : KeysOf(res)' = KeysOf(res)
    BY <1>3 DEF KeysOf, Stored
  <2>3. Archived'
    BY <1>1, <1>2, <1>3, <2>2 DEF Archived
  <2> QED BY <1>4, <2>1, <2>3 DEF CommandInv
<1> QED BY <1>5, <1>6

LEMMA StoreInv ==
    ASSUME CommandInv, NEW res \in Resources, NEW x \in Contents, Store(res, x)
    PROVE  CommandInv'
<1> DEFINE u == [res |-> res, rv |-> lastRV + 1, content |-> x]
<1>1. /\ lastRV < MaxRV
      /\ lastRV' = lastRV + 1 /\ cluster' = [cluster EXCEPT ![res] = x]
      /\ version' = [version EXCEPT ![res] = lastRV + 1]
      /\ reports' = reports \cup {u} /\ config # None
      /\ UNCHANGED <<now, unsaved, blobs, config, job, out>>
  BY DEF Store, Accept
<1>2. u \in Reports /\ u.res = res /\ u.rv = lastRV + 1 /\ u.content = x
  BY BoundsAssumption DEF Reports, CommandInv, TypeOK
<1> HIDE DEF u
<1>3. Reported(u)
  BY <1>1, <1>2 DEF Reported
<1> QED BY <1>1, <1>3, ReportedInv

LEMMA VanishInv ==
    ASSUME CommandInv, NEW res \in Resources,
           NEW rv \in {version[res], lastRV + 1}, Vanish(res, rv)
    PROVE  CommandInv'
<1> DEFINE u == [res |-> res, rv |-> rv, content |-> cluster[res]]
<1>1. cluster[res] \in Contents /\ rv \in Nat
  BY BoundsAssumption DEF Vanish, CommandInv, TypeOK
<1>2. /\ lastRV < MaxRV /\ config # None
      /\ lastRV' = lastRV + 1 /\ cluster' = [cluster EXCEPT ![res] = None]
      /\ reports' = reports \cup {u}
      /\ UNCHANGED <<now, version, unsaved, blobs, config, job, out>>
  BY DEF Vanish
<1>3. u \in Reports /\ u.res = res /\ u.rv = rv /\ u.content = cluster[res]
  BY <1>1 DEF Reports
<1> HIDE DEF u
<1>4. Reported(u)
  BY <1>2, <1>3 DEF Reported
<1> QED BY <1>2, <1>4, ReportedInv

LEMMA ProcessInv ==
    ASSUME CommandInv, NEW u \in reports, Process(u)
    PROVE  CommandInv'
<1>1. TypeOK /\ Archived /\ u \in Reports
  BY DEF CommandInv, TypeOK
<1>2. PICK deleted \in BOOLEAN : deleted = (cluster[u.res] = None)
  OBVIOUS
<1>3. PICK b : b = RevisionFrom(u, deleted)
  OBVIOUS
<1>4. /\ reports' = reports \ {u} /\ unsaved' = unsaved \cup {b}
      /\ UNCHANGED <<now, lastRV, cluster, version, blobs, config, job, out>>
  BY <1>2, <1>3 DEF Process
<1>5. /\ b \in Blobs /\ b.key.res = u.res /\ b.key.rv = u.rv
      /\ b.content = u.content
  BY <1>1, <1>3, RevisionFacts
<1>6. u = [res |-> b.key.res, rv |-> b.key.rv, content |-> b.content]
  BY <1>1, <1>5 DEF Reports
<1>7. TypeOK'
  BY <1>1, <1>4, <1>5 DEF TypeOK
<1>8. Agreed'
  <2>1. \A v \in Reports : Known(v)' => Known(v)
    BY <1>4, <1>6 DEF Known
  <2> QED BY <1>1, <1>4, <2>1, NothingNew DEF Archived
<1>9. u.rv <= MaxRV /\ config # None
  BY <1>1 DEF Archived
<1> QED BY <1>4, <1>5, <1>7, <1>8, <1>9, AloneInv

LEMMA SyncStoreInv ==
    ASSUME CommandInv, NEW key \in Stored, SyncStore(key)
    PROVE  CommandInv'
<1>1. TypeOK /\ Archived
  BY DEF CommandInv
<1>2. PICK x \in blobs : x.key = key
  BY DEF Stored
<1>3. key \in Keys /\ key.rv <= MaxRV /\ config # None
  BY <1>1, <1>2 DEF TypeOK, Blobs, Archived
<1> DEFINE k == [key EXCEPT !.deleted = TRUE]
           b == [key |-> k, content |-> Content(key)]
<1>4. k \in Keys /\ k.rv = key.rv /\ k.deleted
  BY <1>3 DEF Keys
<1>5. Content(key) \in Contents
  <2>1. latestRevision(key.res) # None
    BY DEF SyncStore
  <2>2. latestRevision(key.res) \in LiveKeys(key.res)
    BY <1>1, <2>1, LatestFacts
  <2>3. PICK y \in blobs : y.key = latestRevision(key.res)
    BY <1>1, <2>2, KeysFacts
  <2> QED BY <1>1, <2>3, ContentFacts DEF Content
<1>6. /\ unsaved' = unsaved \cup {b}
      /\ UNCHANGED <<now, lastRV, cluster, version, reports, blobs, config, job, out>>
  BY DEF SyncStore, clusterVars
<1> HIDE DEF k
<1>7. b \in Blobs /\ b.key = k
  BY <1>4, <1>5 DEF Blobs
<1> HIDE DEF b
<1>8. TypeOK'
  BY <1>1, <1>6, <1>7 DEF TypeOK
<1>9. Agreed'
  <2>1. \A v \in Reports : Known(v)' => Known(v)
    BY <1>4, <1>6, <1>7 DEF Known
  <2> QED BY <1>1, <1>6, <2>1, NothingNew DEF Archived
<1> QED BY <1>3, <1>4, <1>6, <1>7, <1>8, <1>9, AloneInv

(* A live revision that is written again is written as it was.             *)
LEMMA FlushFacts ==
    ASSUME TypeOK, Archived, NEW b \in unsaved, Flush(b)
    PROVE  /\ TypeOK' /\ Archived'
           /\ \A x \in blobs : ~x.key.deleted => x \in blobs'
<1>1. /\ unsaved' = unsaved \ {b}
      /\ blobs' = {x \in blobs : x.key # b.key} \cup {b}
      /\ UNCHANGED <<now, lastRV, cluster, version, reports, config, out>>
      /\ b \in Blobs /\ blobs \subseteq Blobs
  BY DEF Flush, clusterVars, TypeOK
<1>2. blobs' \cup unsaved' \subseteq blobs \cup unsaved
  BY <1>1
<1>3. Agreed'
  <2>1. \A v \in Reports : Known(v)' => Known(v)
    BY <1>1, <1>2 DEF Known
  <2> QED BY <1>1, <2>1, NothingNew DEF Archived
<1>4. \A x, y \in blobs' :
          /\ x.key.res = y.key.res /\ x.key.rv = y.key.rv
          /\ ~x.key.deleted /\ ~y.key.deleted
          => x.content = y.content
  BY <1>2, LiveAgree DEF Archived
<1>5. TypeOK'
  <2>1. \A x, y \in blobs' : x.key = y.key => x = y
    BY <1>1 DEF TypeOK
  <2>2. job' # None => job'.cmd \in {"delete", "apply"}
    <3>1. CASE ~Removing
      BY <3>1 DEF Flush, TypeOK
    <3>2. CASE Removing
      <4>1. job.cmd = "delete" /\ job' = [job EXCEPT !.again = @ \cup {b.key}]
        BY <3>2 DEF Flush, Removing
      <4>2. job'.cmd = job.cmd
        BY <4>1
      <4> QED BY <4>1, <4>2
    <3> QED BY <3>1, <3>2
  <2> QED BY <1>1, <1>4, <2>1, <2>2 DEF TypeOK
<1>6. ASSUME NEW x \in blobs, ~x.key.deleted PROVE x \in blobs'
  <2>1. CASE x.key # b.key
    BY <1>1, <2>1
  <2>2. CASE x.key = b.key
    <3>1. x.content = b.content
      BY <1>6, <2>2, LiveAgree DEF Archived
    <3>2. x = b
      BY <1>1, <2>2, <3>1 DEF Blobs
    <3> QED BY <1>1, <3>2
  <2> QED BY <2>1, <2>2
<1>7. Archived'
  <2>1. \A res \in Resources : IsFiniteSet(KeysOf(res)')
    <3>1. TAKE res \in Resources
    <3>2. KeysOf(res)' \subseteq KeysOf(res) \cup {b.key}
      BY <1>1 DEF KeysOf, Stored
    <3>3. IsFiniteSet(KeysOf(res) \cup {b.key})
      BY FS_AddElement DEF Archived
    <3> QED BY <3>2, <3>3, FS_Subset
  <2>2. config' # None
    BY <1>1 DEF Archived
  <2> QED BY <1>1, <1>2, <1>3, <2>1, <2>2 DEF Archived
<1> QED BY <1>5, <1>6, <1>7

LEMMA FlushInv ==
    ASSUME CommandInv, NEW b \in unsaved, Flush(b)
    PROVE  CommandInv'
<1>1. TypeOK /\ Archived /\ Working
  BY DEF CommandInv
<1>2. /\ TypeOK' /\ Archived'
      /\ \A x \in blobs : ~x.key.deleted => x \in blobs'
  BY <1>1, FlushFacts
<1>3. /\ out' = out /\ config' = config /\ b.key \in Keys
      /\ Stored' \subseteq Stored \cup {b.key}
  BY <1>1 DEF Flush, TypeOK, Blobs, Stored
<1>4. CASE Removing
  <2>1. /\ job # None /\ Deleting(job) /\ job \in DeleteJobs /\ out = Nothing
        /\ config # None
        /\ job' = [job EXCEPT !.again = @ \cup {b.key}]
    BY <1>1, <1>4 DEF Removing, Working, Deleting, Flush
  <2>2. /\ job' \in DeleteJobs /\ job'.again = job.again \cup {b.key}
        /\ job'.keys = job.keys /\ job'.bulk = job.bulk /\ job'.chunk = job.chunk
        /\ job'.listed = job.listed /\ job'.revision = job.revision
        /\ job'.printed = job.printed
        /\ job'.cmd = "delete"
    BY <1>3, <2>1 DEF DeleteJobs
  <2>3. job'.faulty = job.faulty
    BY <2>1, Zenon DEF DeleteJobs
  <2>4. Deleting(job)'
    <3>1. Stored' \cap job.printed \subseteq job.again \cup {b.key}
      BY <1>3, <2>1 DEF Deleting
    <3> QED BY <2>1, <2>2, <2>3, <3>1 DEF Deleting
  <2> QED BY <1>2, <1>3, <2>1, <2>2, <2>4 DEF CommandInv, Working
<1>5. CASE ~Removing
  <2>1. job' = job
    BY <1>5 DEF Flush
  <2>2. job # None => job.cmd = "apply"
    BY <1>1, <1>5 DEF Removing, TypeOK
  <2>3. job # None => Restoring(job)'
    BY <1>1, <1>2, <2>1, <2>2, RestoringStays DEF Working
  <2> QED BY <1>1, <1>2, <1>3, <2>1, <2>2, <2>3 DEF CommandInv, Working
<1> QED BY <1>4, <1>5

(* A command ends, and the archive is as it was.                           *)
Answers == {"none", "state", "get", "delete", "apply", "error", "fatal"}

LEMMA ArchiveStays ==
    ASSUME Archived, UNCHANGED <<clusterVars, unsaved, blobs, config>>
    PROVE  Archived'
<1>1. \A res \in Resources : KeysOf(res)' = KeysOf(res)
  BY DEF KeysOf, Stored
<1>2. Agreed'
  BY DEF Archived, Agreed, Known, clusterVars
<1> QED BY <1>1, <1>2 DEF Archived, clusterVars

LEMMA AnswerInv ==
    ASSUME CommandInv, UNCHANGED <<clusterVars, unsaved, blobs, config>>,
           job' = None, out'.cmd \in Answers
    PROVE  CommandInv'
<1>1. TypeOK'
  BY DEF CommandInv, TypeOK, Answers, clusterVars
<1>2. Archived'
  BY ArchiveStays DEF CommandInv
<1> QED BY <1>1, <1>2 DEF CommandInv, Working

LEMMA IdleInv ==
    ASSUME CommandInv,
           \/ \E q \in Queries :
                 Misdirected(q) \/ \E time \in 0..now : State(q, time)
           \/ \E q \in Named, revision \in Nat, timed \in BOOLEAN : Get(q, revision, timed)
           \/ Done
    PROVE  CommandInv'
<1>1. CASE \E q \in Queries : Misdirected(q)
  <2>1. PICK q \in Queries : Misdirected(q)
    BY <1>1
  <2>2. out'.cmd \in Answers /\ job' = None
    BY <2>1 DEF Misdirected, Answer, Answers
  <2> QED BY <2>1, <2>2, AnswerInv DEF Misdirected, clusterVars
<1>2. CASE \E q \in Queries, time \in 0..now : State(q, time)
  <2>1. PICK q \in Queries, time \in 0..now : State(q, time)
    BY <1>2
  <2>2. out'.cmd \in Answers /\ job' = None
    BY <2>1 DEF State, Answer, Answers
  <2> QED BY <2>1, <2>2, AnswerInv DEF State, clusterVars
<1>3. CASE \E q \in Named, revision \in Nat, timed \in BOOLEAN : Get(q, revision, timed)
  <2>1. PICK q \in Named, revision \in Nat, timed \in BOOLEAN : Get(q, revision, timed)
    BY <1>3
  <2>2. out'.cmd \in Answers /\ job' = None
    BY <2>1 DEF Get, Answer, Answers
  <2> QED BY <2>1, <2>2, AnswerInv DEF Get, clusterVars
<1>4. CASE Done
  <2>1. out'.cmd \in Answers /\ job' = job /\ job = None
        /\ UNCHANGED <<clusterVars, unsaved, blobs, config>>
    BY <1>4 DEF Done, Answers, Nothing, clusterVars, CommandInv, Working
  <2> QED BY <2>1, AnswerInv
<1> QED BY <1>1, <1>2, <1>3, <1>4

-----------------------------------------------------------------------------
(* The steps of delete.                                                    *)

LEMMA DeleteInv ==
    ASSUME CommandInv, NEW q, NEW revision \in Nat, NEW all \in BOOLEAN,
           NEW timed, NEW bulk \in BOOLEAN, Delete(q, revision, all, timed, bulk)
    PROVE  CommandInv'
<1>1. /\ TypeOK /\ Archived /\ config # None /\ job = None /\ out = Nothing
      /\ UNCHANGED <<clusterVars, unsaved, blobs, config, out>>
  BY DEF CommandInv, Delete, Idle, clusterVars
<1>2. PICK a \in Mappings(q.arg) :
          /\ Chosen(a, q, revision) # <<>>
          /\ job' = [cmd |-> "delete", revision |-> revision,
                     keys |-> Chosen(a, q, revision),
                     listed |-> UNION {LiveKeys(res) :
                                          res \in ObjectsNamed(a, q)},
                     bulk |-> bulk, chunk |-> 0, printed |-> {},
                     faulty |-> FALSE, again |-> {}]
  BY DEF Delete
<1>3. PICK res \in Resources : /\ ObjectsNamed(a, q) = {res}
                               /\ Chosen(a, q, revision) = Choose(res, revision)
  BY <1>1, <1>2, ChosenFacts
<1> DEFINE keys == Choose(res, revision)
<1>4. /\ keys \in Seq(LiveKeys(res)) /\ keys # <<>>
      /\ \/ \A k \in ToSet(keys) : k.rv = revision
         \/ \A k \in LiveKeys(res) : k.rv # revision
  BY <1>1, <1>2, <1>3, ChooseFacts
<1>5. UNION {LiveKeys(x) : x \in ObjectsNamed(a, q)} = LiveKeys(res)
  BY <1>3
<1>6. job' = [cmd |-> "delete", revision |-> revision,
              keys |-> keys, listed |-> LiveKeys(res), bulk |-> bulk,
              chunk |-> 0, printed |-> {}, faulty |-> FALSE, again |-> {}]
  BY <1>2, <1>3, <1>5
<1> HIDE DEF keys
<1>7. LiveKeys(res) \subseteq Keys /\ keys \in Seq(Keys) /\ Len(keys) \in Nat
  BY <1>1, <1>4, KeysFacts
<1>8. job' \in DeleteJobs
  BY <1>6, <1>7 DEF DeleteJobs
<1>9. TypeOK' /\ Archived' /\ job'.cmd = "delete"
  BY <1>1, <1>6, ArchiveStays DEF TypeOK, clusterVars
<1>10. Deleting(job)'
  <2>1. 0 < Chunks(keys, bulk)
    <3>1. Len(keys) # 0
      BY <1>4, <1>7
    <3>2. Len(keys) \div ChunkSize \in Nat
      BY <1>7, ChunkAssumption
    <3> QED BY <1>7, <3>1, <3>2 DEF Chunks
  <2>2. ToSet(keys) \subseteq LiveKeys(res)
    BY <1>4 DEF ToSet
  <2>3. \A k \in LiveKeys(res) : ~k.deleted
    BY DEF LiveKeys
  <2>4. Requested(keys, bulk, 0) = {}
    <3>1. 0 * Size(bulk) = 0
      BY ChunkAssumption DEF Size
    <3> QED BY <3>1 DEF Requested
  <2>5. /\ job'.keys = keys /\ job'.listed = LiveKeys(res) /\ job'.bulk = bulk
        /\ job'.chunk = 0 /\ job'.printed = {} /\ job'.revision = revision
    BY <1>6
  <2> QED BY <1>1, <1>4, <1>8, <2>1, <2>2, <2>3, <2>4, <2>5 DEF Deleting
<1> QED BY <1>1, <1>9, <1>10 DEF CommandInv, Working

(* Revisions are removed.                                                  *)
LEMMA RemovalFacts ==
    ASSUME TypeOK, Archived, UNCHANGED <<clusterVars, unsaved, config>>,
           blobs' \subseteq blobs, job' # None => job'.cmd = "delete",
           out'.cmd \in Answers
    PROVE  TypeOK' /\ Archived'
<1>1. TypeOK'
  BY DEF TypeOK, Answers, clusterVars
<1>2. Agreed'
  <2>1. \A u \in Reports : Known(u)' => Known(u)
    BY DEF Known, clusterVars
  <2> QED BY <2>1, NothingNew DEF Archived, clusterVars
<1>3. \A res \in Resources : IsFiniteSet(KeysOf(res)')
  <2>1. \A res \in Resources : KeysOf(res)' \subseteq KeysOf(res)
    BY DEF KeysOf, Stored
  <2> QED BY <2>1, FS_Subset DEF Archived
<1>4. Archived'
  BY <1>2, <1>3 DEF Archived, clusterVars
<1> QED BY <1>1, <1>4

LEMMA RemoveChunkInv ==
    ASSUME CommandInv, RemoveChunk
    PROVE  CommandInv' /\ DeleteIsComplete'
<1>1. /\ TypeOK /\ Archived /\ job # None /\ Deleting(job) /\ out = Nothing
      /\ config # None
      /\ UNCHANGED <<clusterVars, unsaved, config>>
  BY DEF CommandInv, Working, RemoveChunk, Removing, clusterVars
<1> DEFINE chunk == Chunk(job.keys, job.bulk, job.chunk)
<1>2. PICK gone \in SUBSET chunk : \E told \in SUBSET gone :
          /\ blobs' = {b \in blobs : b.key \notin gone}
          /\ IF job.chunk + 1 < Chunks(job.keys, job.bulk)
             THEN /\ job' = [job EXCEPT !.chunk = @ + 1,
                                        !.printed = job.printed \cup told,
                                        !.faulty = job.faulty \/ told # chunk]
                  /\ UNCHANGED out
             ELSE Removed(job.printed \cup told, job.faulty \/ told # chunk)
  BY DEF RemoveChunk
<1>3. PICK told \in SUBSET gone :
          /\ blobs' = {b \in blobs : b.key \notin gone}
          /\ IF job.chunk + 1 < Chunks(job.keys, job.bulk)
             THEN /\ job' = [job EXCEPT !.chunk = @ + 1,
                                        !.printed = job.printed \cup told,
                                        !.faulty = job.faulty \/ told # chunk]
                  /\ UNCHANGED out
             ELSE Removed(job.printed \cup told, job.faulty \/ told # chunk)
  BY <1>2
<1> DEFINE printed == job.printed \cup told
<1>4. PICK faulty \in BOOLEAN : faulty = (job.faulty \/ told # chunk)
  OBVIOUS
<1>5. /\ job.keys \in Seq(Keys) /\ job.bulk \in BOOLEAN /\ job.chunk \in Nat
      /\ job.chunk < Chunks(job.keys, job.bulk) /\ job \in DeleteJobs
  BY <1>1 DEF Deleting, DeleteJobs
<1>6. /\ chunk \subseteq ToSet(job.keys)
      /\ Requested(job.keys, job.bulk, job.chunk) \cup chunk =
            IF job.chunk + 1 < Chunks(job.keys, job.bulk)
            THEN Requested(job.keys, job.bulk, job.chunk + 1)
            ELSE ToSet(job.keys)
  BY <1>5, ChunkFacts
<1> HIDE DEF chunk
<1>7. /\ blobs' \subseteq blobs
      /\ Stored' \cap printed \subseteq job.again
      /\ printed \subseteq ToSet(job.keys)
      /\ ToSet(job.keys) \subseteq job.listed
  BY <1>1, <1>3, <1>6 DEF Deleting, Stored
<1>8. ~faulty => printed = Requested(job.keys, job.bulk, job.chunk) \cup chunk
  BY <1>1, <1>3, <1>4 DEF Deleting
<1> HIDE DEF printed
<1>9. CASE job.chunk + 1 < Chunks(job.keys, job.bulk)
  <2>1. /\ job' = [job EXCEPT !.chunk = @ + 1, !.printed = printed,
                              !.faulty = faulty]
        /\ out' = out
    BY <1>3, <1>4, <1>9 DEF printed
  <2>2. printed \in SUBSET Keys
    BY <1>1, <1>5, <1>7 DEF Deleting, DeleteJobs
  <2>3. /\ job' \in DeleteJobs /\ job'.chunk = job.chunk + 1
        /\ job'.printed = printed /\ job'.faulty = faulty
        /\ job'.keys = job.keys /\ job'.bulk = job.bulk
        /\ job'.listed = job.listed /\ job'.revision = job.revision
        /\ job'.cmd = "delete" /\ job'.again = job.again
    <3>1. /\ job = [cmd |-> job.cmd, revision |-> job.revision,
                    keys |-> job.keys,
                    listed |-> job.listed, bulk |-> job.bulk,
                    chunk |-> job.chunk, printed |-> job.printed,
                    faulty |-> job.faulty, again |-> job.again]
          /\ job.cmd = "delete" /\ job.chunk + 1 \in Nat
      BY <1>5 DEF DeleteJobs
    <3>2. job' = [cmd |-> "delete", revision |-> job.revision,
                  keys |-> job.keys,
                  listed |-> job.listed, bulk |-> job.bulk,
                  chunk |-> job.chunk + 1, printed |-> printed,
                  faulty |-> faulty, again |-> job.again]
      BY <2>1, <3>1
    <3> QED BY <1>5, <2>2, <3>1, <3>2 DEF DeleteJobs
  <2>4. out'.cmd \in Answers
    BY <1>1, <2>1 DEF Nothing, Answers
  <2>5. TypeOK' /\ Archived'
    BY <1>1, <1>7, <2>3, <2>4, RemovalFacts
  <2>6. Deleting(job)'
    <3>1. /\ \A k \in job.listed : ~k.deleted
          /\ \/ \A k \in ToSet(job.keys) : k.rv = job.revision
             \/ \A k \in job.listed : k.rv # job.revision
      BY <1>1 DEF Deleting
    <3>2. faulty \/ printed = Requested(job.keys, job.bulk, job.chunk + 1)
      BY <1>6, <1>8, <1>9
    <3> QED BY <1>1, <1>7, <1>9, <2>3, <3>1, <3>2 DEF Deleting
  <2>7. DeleteIsComplete'
    BY <1>1, <2>1 DEF DeleteIsComplete, Nothing
  <2> QED BY <1>1, <2>1, <2>3, <2>5, <2>6, <2>7 DEF CommandInv, Working
<1>10. CASE ~(job.chunk + 1 < Chunks(job.keys, job.bulk))
  <2>1. Removed(printed, faulty)
    BY <1>3, <1>4, <1>10 DEF printed
  <2>2. /\ job' = None /\ out'.cmd = "delete" /\ out'.printed = printed
        /\ out'.faulty = faulty /\ out'.chosen = ToSet(job.keys)
        /\ out'.again = job.again
    BY <2>1 DEF Removed, Answer
  <2>3. TypeOK' /\ Archived'
    BY <1>1, <1>7, <2>2, RemovalFacts DEF Answers
  <2>4. DeleteIsComplete'
    BY <1>6, <1>7, <1>8, <1>10, <2>2 DEF DeleteIsComplete
  <2> QED BY <2>2, <2>3, <2>4 DEF CommandInv, Working
<1> QED BY <1>9, <1>10

LEMMA RemoveUnansweredInv ==
    ASSUME CommandInv, RemoveUnanswered
    PROVE  CommandInv' /\ DeleteIsComplete'
<1>1. /\ TypeOK /\ Archived /\ UNCHANGED <<clusterVars, unsaved, config>>
  BY DEF CommandInv, RemoveUnanswered, clusterVars
<1>2. blobs' \subseteq blobs
  BY DEF RemoveUnanswered
<1>3. /\ job' = None /\ out'.cmd = "delete" /\ out'.printed = {}
      /\ out'.faulty = TRUE
  BY DEF RemoveUnanswered, Removed, Answer
<1>4. TypeOK' /\ Archived'
  BY <1>1, <1>2, <1>3, RemovalFacts DEF Answers
<1>5. DeleteIsComplete'
  BY <1>3 DEF DeleteIsComplete
<1> QED BY <1>3, <1>4, <1>5 DEF CommandInv, Working

-----------------------------------------------------------------------------
(* The steps of apply.                                                     *)

LEMMA ApplyInv ==
    ASSUME CommandInv, NEW q, NEW revision, NEW overwrite \in BOOLEAN, NEW timed,
           Apply(q, revision, overwrite, timed)
    PROVE  CommandInv'
<1>1. /\ TypeOK /\ Archived /\ config # None /\ job = None /\ out = Nothing
      /\ UNCHANGED <<clusterVars, unsaved, blobs, config>>
  BY DEF CommandInv, Apply, Idle, clusterVars
<1>2. PICK a \in Mappings(q.arg) :
          IF Chosen(a, q, revision) = <<>> THEN Answer([cmd |-> "error"])
          ELSE /\ job' = [cmd |-> "apply", at |-> "content",
                          key |-> Head(Chosen(a, q, revision)),
                          overwrite |-> overwrite, sub |-> a.sub,
                          content |-> None, current |-> None,
                          newest |-> FALSE]
               /\ UNCHANGED out
  BY DEF Apply
<1>3. CASE Chosen(a, q, revision) = <<>>
  <2>1. job' = None /\ out'.cmd \in Answers
    BY <1>2, <1>3 DEF Answer, Answers
  <2> QED BY <1>1, <2>1, AnswerInv
<1>4. CASE Chosen(a, q, revision) # <<>>
  <2>1. PICK res \in Resources : Chosen(a, q, revision) = Choose(res, revision)
    BY <1>1, <1>4, ChosenFacts
  <2>2. Chosen(a, q, revision) \in Seq(LiveKeys(res))
    BY <1>1, <2>1, ChooseFacts
  <2>3. PICK k \in LiveKeys(res) : k = Head(Chosen(a, q, revision))
    BY <1>4, <2>2
  <2>4. k \in Keys /\ k.res = res
    BY <1>1, <2>3, KeysFacts
  <2>5. a.sub \in BOOLEAN
    <3>1. a \in APIResources
      BY <1>1, ConfigFacts
    <3> QED BY <3>1 DEF APIResources
  <2>6. job' = [cmd |-> "apply", at |-> "content", key |-> k,
                overwrite |-> overwrite, sub |-> a.sub, content |-> None,
                current |-> None, newest |-> FALSE] /\ out' = out
    BY <1>2, <1>4, <2>3
  <2>7. /\ job' \in ApplyJobs /\ job'.at = "content" /\ job'.key = k
        /\ job'.cmd = "apply"
    <3>1. PICK sub \in BOOLEAN : sub = a.sub
      BY <2>5
    <3>2. job' = [cmd |-> "apply", at |-> "content", key |-> k,
                  overwrite |-> overwrite, sub |-> sub, content |-> None,
                  current |-> None, newest |-> FALSE]
      BY <2>6, <3>1
    <3> QED BY <2>4, <3>2 DEF ApplyJobs
  <2>8. k \in LiveKeys(k.res)'
    BY <1>1, <2>3, <2>4 DEF LiveKeys, KeysOf, Stored
  <2>9. Restoring(job)'
    <3>1. job'.key \in LiveKeys(job.key.res)'
      BY <2>7, <2>8 DEF LiveKeys, KeysOf, Stored
    <3> QED BY <2>7, <3>1 DEF Restoring
  <2>10. TypeOK' /\ Archived'
    BY <1>1, <2>6, <2>7, ArchiveStays DEF TypeOK, clusterVars
  <2> QED BY <1>1, <2>6, <2>7, <2>9, <2>10 DEF CommandInv, Working
<1> QED BY <1>3, <1>4

(* The command has found something out and goes on.                        *)
LEMMA GoesOnInv ==
    ASSUME CommandInv, job # None, job.cmd = "apply",
           UNCHANGED <<clusterVars, unsaved, blobs, config, out>>,
           job' \in ApplyJobs, job'.key = job.key,
           job'.at # "content" =>
               /\ job'.content \in Contents
               /\ job'.newest => job'.content = ContentAt(job.key),
           job'.at = "patch" => job'.current \in Contents
    PROVE  CommandInv'
<1>1. TypeOK /\ Archived /\ Working /\ Restoring(job) /\ job'.cmd = "apply"
  BY DEF CommandInv, Working, ApplyJobs
<1>2. TypeOK' /\ Archived'
  BY <1>1, ArchiveStays DEF TypeOK, clusterVars
<1>3. /\ job'.key \in LiveKeys(job.key.res)'
      /\ ContentAt(job.key)' = ContentAt(job.key)
  BY <1>1 DEF Restoring, LiveKeys, KeysOf, Stored, ContentAt
<1>4. Restoring(job)'
  BY <1>3 DEF Restoring
<1> QED BY <1>1, <1>2, <1>4 DEF CommandInv, Working

(* The command ends without changing anything.                             *)
LEMMA AppliedInv ==
    ASSUME CommandInv, UNCHANGED <<clusterVars, unsaved, blobs, config>>,
           NEW printed, Applied(printed)
    PROVE  CommandInv'
<1>1. job' = None /\ out'.cmd \in Answers
  BY DEF Applied, Answer, Answers
<1> QED BY <1>1, AnswerInv

LEMMA ApplyingFacts ==
    ASSUME CommandInv, NEW at, Applying(at)
    PROVE  /\ TypeOK /\ Archived /\ job # None /\ job.cmd = "apply" /\ job.at = at
           /\ Restoring(job) /\ job \in ApplyJobs /\ job.key \in Keys
           /\ job.key.res \in Resources /\ config # None /\ out = Nothing
           /\ job = [cmd |-> "apply", at |-> at, key |-> job.key,
                     overwrite |-> job.overwrite, sub |-> job.sub,
                     content |-> job.content, current |-> job.current,
                     newest |-> job.newest]
<1>1. /\ TypeOK /\ Archived /\ job # None /\ job.cmd = "apply" /\ job.at = at
      /\ Restoring(job) /\ config # None /\ out = Nothing
  BY DEF CommandInv, Working, Applying
<1>2. job \in ApplyJobs
  BY <1>1 DEF Restoring
<1> QED BY <1>1, <1>2 DEF ApplyJobs, Keys

LEMMA LoadContentInv == CommandInv /\ LoadContent => CommandInv'
<1> SUFFICES ASSUME CommandInv, LoadContent PROVE CommandInv'
  OBVIOUS
<1>1. /\ Applying("content")
      /\ UNCHANGED <<clusterVars, unsaved, blobs, config>>
  BY DEF LoadContent, clusterVars
<1>2. /\ TypeOK /\ Archived /\ job # None /\ job.cmd = "apply"
      /\ Restoring(job) /\ job \in ApplyJobs /\ job.key \in Keys
      /\ job = [cmd |-> "apply", at |-> "content", key |-> job.key,
                overwrite |-> job.overwrite, sub |-> job.sub,
                content |-> job.content, current |-> job.current,
                newest |-> job.newest]
  BY <1>1, ApplyingFacts
<1>3. CASE Applied({"error"})
  BY <1>1, <1>3, AppliedInv
<1>4. CASE ~Applied({"error"})
  <2> DEFINE at      == IF job.overwrite THEN "get" ELSE "create"
             content == Content(job.key)
  <2>1. PICK newest \in BOOLEAN :
                newest = \A k \in LiveKeys(job.key.res) : k.rv <= job.key.rv
    OBVIOUS
  <2>2. /\ job' = [job EXCEPT !.at = at, !.content = content, !.newest = newest]
        /\ out' = out
    BY <1>4, <2>1 DEF LoadContent
  <2>3. at \in {"get", "create"}
    OBVIOUS
  <2>4. content \in Contents /\ (newest => content = ContentAt(job.key))
    <3>1. job.key \in LiveKeys(job.key.res)
      BY <1>2 DEF Restoring
    <3> QED BY <1>2, <2>1, <3>1, LoadedFacts
  <2> HIDE DEF at, content
  <2>5. job' = [cmd |-> "apply", at |-> at, key |-> job.key,
                overwrite |-> job.overwrite, sub |-> job.sub,
                content |-> content, current |-> job.current,
                newest |-> newest]
    BY <1>2, <2>2
  <2>6. /\ job' \in ApplyJobs /\ job'.key = job.key /\ job'.at = at
        /\ job'.content = content /\ job'.newest = newest
    BY <1>2, <2>3, <2>4, <2>5 DEF ApplyJobs
  <2> QED BY <1>1, <1>2, <2>2, <2>3, <2>4, <2>6, GoesOnInv
<1> QED BY <1>3, <1>4

LEMMA GetCurrentInv == CommandInv /\ GetCurrent => CommandInv'
<1> SUFFICES ASSUME CommandInv, GetCurrent PROVE CommandInv'
  OBVIOUS
<1>1. /\ Applying("get")
      /\ UNCHANGED <<clusterVars, unsaved, blobs, config>>
  BY DEF GetCurrent, clusterVars
<1>2. /\ TypeOK /\ job # None /\ job.cmd = "apply" /\ job.at = "get"
      /\ Restoring(job) /\ job \in ApplyJobs /\ job.key.res \in Resources
      /\ job = [cmd |-> "apply", at |-> "get", key |-> job.key,
                overwrite |-> job.overwrite, sub |-> job.sub,
                content |-> job.content, current |-> job.current,
                newest |-> job.newest]
  BY <1>1, ApplyingFacts
<1>3. job.content \in Contents /\ (job.newest => job.content = ContentAt(job.key))
  BY <1>2 DEF Restoring
<1>4. CASE Applied({"error"})
  BY <1>1, <1>4, AppliedInv
<1>5. CASE job' = [job EXCEPT !.at = "create"] /\ out' = out
  <2>1. job' = [cmd |-> "apply", at |-> "create", key |-> job.key,
                overwrite |-> job.overwrite, sub |-> job.sub,
                content |-> job.content, current |-> job.current,
                newest |-> job.newest]
    BY <1>2, <1>5
  <2>2. /\ job' \in ApplyJobs /\ job'.key = job.key /\ job'.at = "create"
        /\ job'.content = job.content /\ job'.newest = job.newest
    BY <1>2, <2>1 DEF ApplyJobs
  <2> QED BY <1>1, <1>2, <1>3, <1>5, <2>2, GoesOnInv
<1>6. CASE /\ cluster[job.key.res] # None
           /\ job' = [job EXCEPT !.at = "patch", !.current = cluster[job.key.res]]
           /\ out' = out
  <2>1. cluster[job.key.res] \in Contents
    BY <1>2, <1>6 DEF TypeOK
  <2>2. job' = [cmd |-> "apply", at |-> "patch", key |-> job.key,
                overwrite |-> job.overwrite, sub |-> job.sub,
                content |-> job.content, current |-> cluster[job.key.res],
                newest |-> job.newest]
    BY <1>2, <1>6
  <2>3. /\ job' \in ApplyJobs /\ job'.key = job.key /\ job'.at = "patch"
        /\ job'.content = job.content /\ job'.newest = job.newest
        /\ job'.current = cluster[job.key.res]
    BY <1>2, <2>1, <2>2 DEF ApplyJobs
  <2> QED BY <1>1, <1>2, <1>3, <1>6, <2>1, <2>3, GoesOnInv
<1> QED BY <1>4, <1>5, <1>6 DEF GetCurrent

(* The API server takes content x for the object, and the command says so: *)
(* the revision's fields are there, or were there when they were compared. *)
LEMMA AcceptedInv ==
    ASSUME CommandInv, NEW at, at # "content", Applying(at),
           NEW x \in Contents, Accept(job.key.res, x),
           UNCHANGED <<now, unsaved, blobs, config>>, Applied({"applied"}),
           \A f \in Fields : \/ x[f] = job.content[f]
                             \/ /\ job.current \in Contents
                                /\ job.current[f] = job.content[f]
    PROVE  CommandInv' /\ ApplyNewestRestores'
<1>1. /\ TypeOK /\ job.at = at /\ Restoring(job) /\ job.key \in Keys
      /\ job.key.res \in Resources /\ config # None
  BY ApplyingFacts
<1>2. /\ job' = None /\ out'.cmd = "apply" /\ out'.key = job.key
      /\ out'.current = job.current /\ out'.newest = job.newest
  BY DEF Applied, Answer
<1>3. CommandInv' /\ cluster'[job.key.res] = x
  <2>1. CASE x = cluster[job.key.res]
    <3>1. UNCHANGED <<clusterVars, unsaved, blobs, config>>
      BY <2>1 DEF Accept, clusterVars
    <3> QED BY <2>1, <3>1, AppliedInv DEF clusterVars
  <2>2. CASE x # cluster[job.key.res]
    <3> DEFINE u == [res |-> job.key.res, rv |-> lastRV + 1, content |-> x]
    <3>1. /\ lastRV < MaxRV /\ lastRV' = lastRV + 1
          /\ cluster' = [cluster EXCEPT ![job.key.res] = x]
          /\ version' = [version EXCEPT ![job.key.res] = lastRV + 1]
          /\ reports' = reports \cup {u}
      BY <2>2 DEF Accept
    <3>2. /\ u \in Reports /\ u.res = job.key.res /\ u.rv = lastRV + 1
          /\ u.content = x
      BY <1>1, BoundsAssumption DEF Reports, TypeOK
    <3> HIDE DEF u
    <3>3. Reported(u)
      BY <3>1, <3>2 DEF Reported
    <3>4. CommandInv'
      BY <1>1, <1>2, <3>3, ReportedInv
    <3>5. cluster'[job.key.res] = x
      BY <1>1, <3>1 DEF TypeOK
    <3> QED BY <3>4, <3>5
  <2> QED BY <2>1, <2>2
<1>4. ASSUME job.newest
      PROVE  Restored'
  <2>1. PICK k \in Keys : k = job.key
    BY <1>1
  <2>2. k \in LiveKeys(k.res) /\ job.content = ContentAt(k)
    BY <1>1, <1>4, <2>1 DEF Restoring
  <2>3. TypeOK'
    BY <1>3 DEF CommandInv
  <2>4. ContentAt(k)' = ContentAt(k)
    BY <1>1, <1>3, <2>2, <2>3, StaysFacts
  <2>5. out'.key = k /\ ContentAt(out.key)' = job.content
    BY <1>2, <2>1, <2>2, <2>4 DEF ContentAt
  <2>6. x # None /\ (job.current \in Contents => job.current # None)
    BY NoneAssumption
  <2>7. \A f \in Fields : \/ cluster'[out'.key.res][f] = job.content[f]
                          \/ /\ out'.current # None
                             /\ out'.current[f] = job.content[f]
    BY <1>2, <1>3, <2>1, <2>5, <2>6
  <2>8. cluster'[out'.key.res] # None
    BY <1>3, <2>1, <2>5, <2>6
  <2> QED BY <2>5, <2>7, <2>8 DEF Restored
<1> QED BY <1>2, <1>3, <1>4 DEF ApplyNewestRestores

LEMMA CreateInv ==
    ASSUME CommandInv, Create
    PROVE  CommandInv' /\ ApplyNewestRestores'
<1>1. Applying("create") /\ UNCHANGED <<now, unsaved, blobs, config>>
  BY DEF Create
<1>2. Restoring(job) /\ job.at = "create"
  BY <1>1, ApplyingFacts
<1>3. CASE Accept(job.key.res, job.content) /\ Applied({"applied"})
  <2>1. job.content \in Contents
    BY <1>2 DEF Restoring
  <2>2. \A f \in Fields : job.content[f] = job.content[f]
    OBVIOUS
  <2> QED BY <1>1, <1>3, <2>1, <2>2, AcceptedInv
<1>4. CASE Applied({"error"}) /\ UNCHANGED <<lastRV, cluster, version, reports>>
  <2>1. CommandInv'
    BY <1>1, <1>4, AppliedInv DEF clusterVars
  <2>2. out'.printed = {"error"}
    BY <1>4 DEF Applied, Answer
  <2> QED BY <2>1, <2>2 DEF ApplyNewestRestores
<1> QED BY <1>3, <1>4 DEF Create

LEMMA PatchInv ==
    ASSUME CommandInv, Patch
    PROVE  CommandInv' /\ ApplyNewestRestores'
<1>1. Applying("patch") /\ UNCHANGED <<now, unsaved, blobs, config>>
  BY DEF Patch
<1>2. Restoring(job) /\ job.at = "patch" /\ TypeOK /\ job.key.res \in Resources
  BY <1>1, ApplyingFacts
<1>3. CASE /\ cluster[job.key.res] # None
           /\ Accept(job.key.res, Merged(job.current, job.content,
                                         cluster[job.key.res]))
           /\ Applied({"applied"})
  <2> DEFINE live == cluster[job.key.res]
             x == Merged(job.current, job.content, live)
  <2>1. job.content \in Contents /\ job.current \in Contents /\ live \in Contents
    BY <1>2, <1>3 DEF Restoring, TypeOK
  <2>2. x \in Contents
    BY <2>1 DEF Merged, Contents
  <2>3. \A f \in Fields : \/ x[f] = job.content[f]
                          \/ job.current[f] = job.content[f]
    BY DEF Merged
  <2>4. Accept(job.key.res, x) /\ Applied({"applied"})
    BY <1>3
  <2> HIDE DEF x
  <2> QED BY <1>1, <2>1, <2>2, <2>3, <2>4, AcceptedInv
<1>4. CASE /\ Applied({"error", "applied"})
           /\ UNCHANGED <<lastRV, cluster, version, reports>>
  <2>1. CommandInv'
    BY <1>1, <1>4, AppliedInv DEF clusterVars
  <2>2. out'.printed # {"applied"}
    BY <1>4 DEF Applied, Answer
  <2> QED BY <2>1, <2>2 DEF ApplyNewestRestores
<1> QED BY <1>3, <1>4 DEF Patch

-----------------------------------------------------------------------------
(* The walk of saiki state.                                                *)

TimeOf(k) == ParseLazyLoadingRevision(k).ts

LEMMA TimeFacts ==
    ASSUME NEW k \in Keys, NEW l \in Keys
    PROVE  TimeOf(k) \in Int /\ (TimeOf(k) <= TimeOf(l) => k.sec <= l.sec)
<1>1. \A T \in Nat \ {0}, x, y \in Int : x * T <= y * T => x <= y
  OBVIOUS
<1>2. /\ k.sec \in Int /\ l.sec \in Int /\ TicksPerSecond \in Nat \ {0}
      /\ TimeOf(k) = k.sec * TicksPerSecond /\ TimeOf(l) = l.sec * TicksPerSecond
  BY TicksAssumption DEF TimeOf, ParseLazyLoadingRevision, Keys
<1> QED BY <1>1, <1>2

(* The walk is a loop.                                                     *)
LEMMA VisitedIs ==
    ASSUME TypeOK, Archived, NEW res, NEW time, NEW selector
    PROVE  LET f == Visited(res, time, selector)
           IN  /\ f[0] = None
               /\ \A k \in 1..Len(Walk(res)) :
                     f[k] = Visit(f[k - 1], Walk(res)[k], time, selector)
<1> DEFINE A    == KeysOf(res) \cup {None}
           walk == Walk(res)
           n    == Len(walk)
           step == [k \in 1..n |->
                       [found \in A |-> Visit(found, walk[k], time, selector)]]
<1>1. n \in Nat /\ \A k \in 1..n : walk[k] \in KeysOf(res)
  BY WalkFacts, LenProperties, ElementOfSeq
<1>2. \A found \in A : \A k \in 1..n : Visit(found, walk[k], time, selector) \in A
  BY <1>1 DEF Visit
<1>3. None \in A /\ step \in [1..n -> [A -> A]]
  BY <1>2
<1> HIDE DEF A, n, walk
<1>4. PICK f \in [0..n -> A] : /\ f[0] = None
                               /\ \A k \in 1..n : f[k] = step[k][f[k - 1]]
  <2> HIDE DEF step
  <2>1. n \in Nat /\ None \in A /\ step \in [1..n -> [A -> A]]
    BY <1>1, <1>3
  <2> QED BY ONLY <2>1, LoopExists
<1>5. \A k \in 1..n : k # 0 /\ k - 1 \in 0..n /\ k \in 0..n
  BY <1>1
<1>6. \A k \in 1..n : f[k] = Visit(f[k - 1], walk[k], time, selector)
  BY <1>4, <1>5
<1>7. \A k \in 0..n : k \in 1..n \/ k = 0
  BY <1>1
<1>8. f = [k \in 0..n |-> IF k = 0 THEN None
                          ELSE Visit(f[k - 1], walk[k], time, selector)]
  BY <1>4, <1>5, <1>6, <1>7
<1> DEFINE g == Visited(res, time, selector)
<1>9. g = [k \in 0..n |-> IF k = 0 THEN None
                          ELSE Visit(g[k - 1], walk[k], time, selector)]
  BY <1>8 DEF Visited, n, walk
<1>10. 0 \in 0..n
  BY <1>1
<1> HIDE DEF g
<1>11. /\ g[0] = None
       /\ \A k \in 1..n : g[k] = Visit(g[k - 1], walk[k], time, selector)
  BY <1>5, <1>9, <1>10
<1> QED BY <1>11 DEF n, walk, g

(* What is found among the first k revisions of the walk.                  *)
Finds(found, walk, time, selector, k) ==
    /\ found # None => /\ found \in ToSet(walk) /\ TimeOf(found) < time
    /\ selector = None =>
          \A i \in 1..k : TimeOf(walk[i]) < time =>
              found # None /\ TimeOf(walk[i]) <= TimeOf(found)

(* State finds a revision before the time if there is one, and the last    *)
(* one by the clock of the keys.                                           *)
LEMMA VisitedFacts ==
    ASSUME TypeOK, Archived, NEW res, NEW time \in Int, NEW selector, NEW found,
           found = Visited(res, time, selector)[Len(Walk(res))]
    PROVE  /\ found # None => found \in KeysOf(res) /\ TimeOf(found) < time
           /\ selector = None =>
                 \A k \in KeysOf(res) : TimeOf(k) < time =>
                     found # None /\ TimeOf(k) <= TimeOf(found)
<1> DEFINE walk == Walk(res)
           n    == Len(walk)
           f    == Visited(res, time, selector)
           Good == {k \in Nat : Finds(f[k], walk, time, selector, k)}
<1>1. /\ walk \in Seq(KeysOf(res)) /\ ToSet(walk) = KeysOf(res)
      /\ n \in Nat /\ DOMAIN walk = 1..n
  BY WalkFacts, LenProperties
<1>2. /\ f[0] = None
      /\ \A k \in 1..n : f[k] = Visit(f[k - 1], walk[k], time, selector)
  BY VisitedIs
<1>3. \A k \in KeysOf(res) : k \in Keys /\ TimeOf(k) \in Int /\ k # None
  BY KeysFacts, TimeFacts, NoneAssumption
<1>4. found = f[n]
  OBVIOUS
<1> HIDE DEF f, n, walk
<1>5. 0 \in Good
  BY <1>2 DEF Finds
<1>6. ASSUME NEW k \in 0..n, k \in Good, k < n PROVE k + 1 \in Good
  <2>1. k + 1 \in 1..n /\ (k + 1) - 1 = k /\ k \in Nat /\ k + 1 \in Nat
    BY <1>1, <1>6
  <2> DEFINE x == walk[k + 1]
             old == f[k]
             new == f[k + 1]
  <2>2. /\ new = Visit(old, x, time, selector) /\ Finds(old, walk, time, selector, k)
        /\ x \in KeysOf(res) /\ x \in ToSet(walk)
    BY <1>1, <1>2, <1>6, <2>1 DEF ToSet
  <2>3. /\ TimeOf(x) \in Int /\ x # None
        /\ old # None => old \in ToSet(walk) /\ TimeOf(old) \in Int
        /\ \A i \in 1..k : TimeOf(walk[i]) \in Int
    BY <1>1, <1>3, <2>1, <2>2 DEF Finds, ToSet
  <2>4. new = IF /\ time > TimeOf(x)
                 /\ old = None \/ TimeOf(x) > TimeOf(old)
                 /\ selector # None => Content(x) \in selector
              THEN x ELSE old
    BY <2>2 DEF Visit, TimeOf
  <2>5. \A i \in 1..k + 1 : i \in 1..k \/ walk[i] = x
    BY <2>1
  <2> HIDE DEF x, old, new
  <2>6. new # None => new \in ToSet(walk) /\ TimeOf(new) < time
    BY <2>2, <2>3, <2>4 DEF Finds
  <2>7. ASSUME selector = None, NEW i \in 1..k + 1, TimeOf(walk[i]) < time
        PROVE  new # None /\ TimeOf(walk[i]) <= TimeOf(new)
    <3>1. CASE i \in 1..k
      <4>1. old # None /\ TimeOf(walk[i]) <= TimeOf(old)
        BY <2>2, <2>7, <3>1 DEF Finds
      <4> QED BY <2>3, <2>4, <3>1, <4>1
    <3>2. CASE walk[i] = x
      BY <2>3, <2>4, <2>7, <3>2
    <3> QED BY <2>5, <3>1, <3>2
  <2>8. Finds(new, walk, time, selector, k + 1)
    BY <2>6, <2>7 DEF Finds
  <2> QED BY <2>1, <2>8 DEF new
<1>7. n \in Good
  <2> HIDE DEF Good
  <2>1. n \in 0..n
    BY <1>1
  <2> QED BY <1>1, <1>5, <1>6, <2>1, InductionUpTo
<1>8. Finds(found, walk, time, selector, n)
  BY <1>4, <1>7
<1>9. \A k \in KeysOf(res) : \E i \in 1..n : walk[i] = k
  BY <1>1 DEF ToSet
<1> QED BY <1>1, <1>8, <1>9 DEF Finds

-----------------------------------------------------------------------------
(* The invariant of the specification.                                     *)

LEMMA StepInv == CommandInv /\ [Next]_vars => CommandInv'
<1> SUFFICES ASSUME CommandInv, [Next]_vars PROVE CommandInv'
  OBVIOUS
<1>1. CASE Tick
  BY <1>1, TickInv
<1>2. CASE \E d \in Discoveries : StartWatch(d)
  BY <1>2, StartWatchInv
<1>3. CASE \E res \in Resources : \E rv \in {version[res], lastRV + 1} :
               Vanish(res, rv)
  BY <1>3, VanishInv
<1>4. CASE \E res \in Resources, x \in Contents : Store(res, x)
  BY <1>4, StoreInv
<1>11. CASE \/ \E u \in reports : Process(u)
            \/ \E key \in Stored : SyncStore(key)
            \/ \E b \in unsaved : Flush(b)
  BY <1>11, ProcessInv, SyncStoreInv, FlushInv
<1>5. \A revision \in {0} \cup FirstRV + 1..MaxRV : revision \in Nat
  BY BoundsAssumption
<1>6. CASE \/ \E q \in Queries :
                 Misdirected(q) \/ \E time \in 0..now : State(q, time)
           \/ Done
  BY <1>6, IdleInv
<1>7. ASSUME NEW q \in Named, NEW revision \in Nat, NEW timed \in BOOLEAN,
             \/ Get(q, revision, timed)
             \/ \E all, bulk \in BOOLEAN : Delete(q, revision, all, timed, bulk)
             \/ \E overwrite \in BOOLEAN : Apply(q, revision, overwrite, timed)
      PROVE  CommandInv'
  BY <1>7, IdleInv, DeleteInv, ApplyInv
<1>8. CASE RemoveChunk \/ RemoveUnanswered
  BY <1>8, RemoveChunkInv, RemoveUnansweredInv
<1>9. CASE LoadContent \/ Create \/ GetCurrent \/ Patch
  BY <1>9, LoadContentInv, CreateInv, GetCurrentInv, PatchInv
<1>10. CASE UNCHANGED vars
  <2>1. UNCHANGED <<clusterVars, unsaved, blobs, config, job, out>>
    BY <1>10 DEF vars
  <2>2. TypeOK'
    BY <2>1 DEF CommandInv, TypeOK, clusterVars
  <2>3. Archived'
    BY <2>1, ArchiveStays DEF CommandInv
  <2>4. Working'
    BY <2>1, <2>2, WorkingStays DEF CommandInv
  <2> QED BY <2>2, <2>3, <2>4 DEF CommandInv
<1> QED
  BY <1>1, <1>2, <1>3, <1>4, <1>5, <1>6, <1>7, <1>8, <1>9, <1>10, <1>11
     DEF Next, Environment, Command

LEMMA Invariance == Spec => []CommandInv
BY InitInv, StepInv, PTL DEF Spec

(* What a step prints.                                                     *)
LEMMA PrintedFacts ==
    ASSUME CommandInv, Next
    PROVE  \/ out'.cmd \in {"none", "error", "fatal"}
           \/ \E q \in Queries, time \in 0..now : State(q, time)
           \/ \E q \in Named, revision \in Nat, timed \in BOOLEAN :
                 Get(q, revision, timed)
           \/ RemoveChunk \/ RemoveUnanswered \/ Create \/ Patch
           \/ out'.cmd = "apply" /\ out'.printed = {"error"}
<1>1. Nothing.cmd = "none"
  BY DEF Nothing
<1>2. CASE Environment
  BY <1>1, <1>2 DEF Environment, Tick, StartWatch, Vanish, Store, Process,
                       SyncStore, Flush
<1>3. ASSUME NEW q \in Queries, Misdirected(q)
      PROVE  out'.cmd \in {"error", "fatal"}
  BY <1>3 DEF Misdirected, Answer
<1>4. ASSUME NEW q, NEW revision, NEW all, NEW timed, NEW bulk,
             Delete(q, revision, all, timed, bulk)
      PROVE  out'.cmd = "none"
  BY <1>1, <1>4 DEF Delete, Idle
<1>5. ASSUME NEW q, NEW revision, NEW overwrite, NEW timed,
             Apply(q, revision, overwrite, timed)
      PROVE  out'.cmd \in {"none", "error"}
  BY <1>1, <1>5 DEF Apply, Idle, Answer
<1>6. CASE LoadContent \/ GetCurrent
  <2>1. out = Nothing
    BY <1>6, ApplyingFacts DEF LoadContent, GetCurrent
  <2>2. CASE UNCHANGED out
    BY <1>1, <2>1, <2>2
  <2>3. CASE Applied({"error"})
    BY <2>3 DEF Applied, Answer
  <2> QED BY <1>6, <2>2, <2>3 DEF LoadContent, GetCurrent
<1>7. CASE Done
  BY <1>1, <1>7 DEF Done
<1>8. \A revision \in {0} \cup FirstRV + 1..MaxRV : revision \in Nat
  BY BoundsAssumption
<1> QED BY <1>2, <1>3, <1>4, <1>5, <1>6, <1>7, <1>8 DEF Next, Command

-----------------------------------------------------------------------------
(* The theorems.                                                           *)

(* The archive, the configuration, the cluster and the running command     *)
(* have their types, a key names one blob, and live revisions of one       *)
(* version have one content, whatever the commands and saiki watch do to   *)
(* the archive (storage.go, blob.go).                                      *)
THEOREM TypeCorrect == Spec => []TypeOK
<1>1. CommandInv => TypeOK
  BY DEF CommandInv
<1> QED BY <1>1, Invariance, PTL

(* What saiki revisions delete prints is gone from the archive, and if     *)
(* every request of RemoveAll was answered in full it is all that was      *)
(* chosen, for any number of keys and any size of the chunks               *)
(* (blob.go:171-231).                                                      *)
THEOREM DeleteAlwaysComplete == Spec => []DeleteIsComplete
<1>1. Init => DeleteIsComplete
  BY DEF Init, Nothing, DeleteIsComplete
<1>2. ASSUME CommandInv, Next
      PROVE  DeleteIsComplete'
  <2>1. CASE RemoveChunk \/ RemoveUnanswered
    BY <1>2, <2>1, RemoveChunkInv, RemoveUnansweredInv
  <2>2. CASE Create \/ Patch
    <3>1. out'.cmd = "apply"
      BY <2>2 DEF Create, Patch, Applied, Answer
    <3> QED BY <3>1 DEF DeleteIsComplete
  <2>3. ASSUME NEW q \in Queries, NEW time \in 0..now, State(q, time)
        PROVE  out'.cmd # "delete"
    BY <2>3 DEF State, Answer
  <2>4. ASSUME NEW q, NEW revision, NEW timed, Get(q, revision, timed)
        PROVE  out'.cmd # "delete"
    BY <2>4 DEF Get, Answer
  <2> QED BY <1>2, <2>1, <2>2, <2>3, <2>4, PrintedFacts DEF DeleteIsComplete
<1>3. DeleteIsComplete /\ UNCHANGED vars => DeleteIsComplete'
  BY DEF DeleteIsComplete, Stored, vars, clusterVars
<1>4. CommandInv /\ DeleteIsComplete /\ [Next]_vars => DeleteIsComplete'
  BY <1>2, <1>3
<1> QED BY <1>1, <1>4, Invariance, PTL DEF Spec

(* If saiki revisions apply prints nothing but that the newest live        *)
(* revision was applied, every field of the object is what it is in that   *)
(* revision, or was so when the patch was computed, whatever the cluster   *)
(* and saiki watch did meanwhile (revisions.go:174-249).                   *)
THEOREM NewestAlwaysRestored == Spec => []ApplyNewestRestores
<1>1. Init => ApplyNewestRestores
  BY DEF Init, Nothing, ApplyNewestRestores
<1>2. ASSUME CommandInv, Next
      PROVE  ApplyNewestRestores'
  <2>1. CASE Create \/ Patch
    BY <1>2, <2>1, CreateInv, PatchInv
  <2>2. CASE RemoveChunk \/ RemoveUnanswered
    <3>1. out = Nothing /\ Nothing.cmd = "none"
      BY <1>2, <2>2
         DEF CommandInv, Working, RemoveChunk, RemoveUnanswered, Removing, Nothing
    <3>2. UNCHANGED out \/ \E printed, faulty : Removed(printed, faulty)
      BY <2>2 DEF RemoveChunk, RemoveUnanswered
    <3>3. \A printed, faulty : Removed(printed, faulty) => out'.cmd = "delete"
      BY DEF Removed, Answer
    <3>4. out'.cmd # "apply"
      BY <3>1, <3>2, <3>3
    <3> QED BY <3>4 DEF ApplyNewestRestores
  <2>3. ASSUME NEW q \in Queries, NEW time \in 0..now, State(q, time)
        PROVE  out'.cmd # "apply"
    BY <2>3 DEF State, Answer
  <2>4. ASSUME NEW q, NEW revision, NEW timed, Get(q, revision, timed)
        PROVE  out'.cmd # "apply"
    BY <2>4 DEF Get, Answer
  <2> QED BY <1>2, <2>1, <2>2, <2>3, <2>4, PrintedFacts DEF ApplyNewestRestores
<1>3. ApplyNewestRestores /\ UNCHANGED vars => ApplyNewestRestores'
  BY DEF ApplyNewestRestores, Restored, ContentAt, vars, clusterVars
<1>4. CommandInv /\ ApplyNewestRestores /\ [Next]_vars => ApplyNewestRestores'
  BY <1>2, <1>3
<1> QED BY <1>1, <1>4, Invariance, PTL DEF Spec

(* A step that takes a key away is a request of a removal.                 *)
LEMMA RemovedByRequest ==
    ASSUME CommandInv, Next, NEW k \in Stored, k \notin Stored'
    PROVE  Removing /\ k \in Chunk(job.keys, job.bulk, job.chunk)
<1>0. ASSUME UNCHANGED blobs PROVE FALSE
  BY <1>0 DEF Stored
<1>1. CASE RemoveChunk \/ RemoveUnanswered
  <2>1. Removing
    BY <1>1 DEF RemoveChunk, RemoveUnanswered
  <2>2. \E gone \in SUBSET Chunk(job.keys, job.bulk, job.chunk) :
            blobs' = {x \in blobs : x.key \notin gone}
    BY <1>1 DEF RemoveChunk, RemoveUnanswered
  <2> QED BY <2>1, <2>2 DEF Stored
<1>3. CASE Environment
  <2>1. ASSUME NEW d, StartWatch(d) PROVE FALSE
    BY <1>0, <2>1 DEF StartWatch, CommandInv, Archived, Stored
  <2>2. CASE Tick
    BY <1>0, <2>2 DEF Tick
  <2>3. ASSUME NEW res, NEW rv, Vanish(res, rv) PROVE FALSE
    BY <1>0, <2>3 DEF Vanish
  <2>4. ASSUME NEW res, NEW x, Store(res, x) PROVE FALSE
    BY <1>0, <2>4 DEF Store
  <2>5. ASSUME NEW x, Process(x) \/ SyncStore(x) PROVE FALSE
    BY <1>0, <2>5 DEF Process, SyncStore
  <2>6. ASSUME NEW b, Flush(b) PROVE FALSE
    BY <2>6 DEF Flush, Stored
  <2> QED BY <1>3, <2>1, <2>2, <2>3, <2>4, <2>5, <2>6 DEF Environment
<1>4. CASE Create \/ Patch
  BY <1>0, <1>4 DEF Create, Patch
<1>5. CASE LoadContent \/ GetCurrent \/ Done
  BY <1>0, <1>5 DEF LoadContent, GetCurrent, Done
<1>6. ASSUME NEW q, NEW time, Misdirected(q) \/ State(q, time)
      PROVE  UNCHANGED blobs
  BY <1>6 DEF Misdirected, State
<1>7. ASSUME NEW q, NEW revision, NEW timed, NEW all, NEW bulk, NEW overwrite,
             \/ Get(q, revision, timed)
             \/ Delete(q, revision, all, timed, bulk)
             \/ Apply(q, revision, overwrite, timed)
      PROVE  UNCHANGED blobs
  BY <1>7 DEF Get, Delete, Apply
<1> QED BY <1>0, <1>1, <1>3, <1>4, <1>5, <1>6, <1>7 DEF Next, Command

(* saiki revisions delete removes live revisions that it had listed, only  *)
(* the version that is asked for if that was listed, and nothing else      *)
(* removes a revision (revisions.go:105-112, 166-173, blob.go:171-231).    *)
THEOREM DeleteAlwaysExact == Spec => DeleteIsExact
<1> DEFINE Exact == \A k \in Stored \ Stored' :
                       /\ Removing
                       /\ k \in job.listed /\ ~k.deleted
                       /\ (\E l \in job.listed : l.rv = job.revision)
                          => k.rv = job.revision
<1>1. ASSUME CommandInv, Next PROVE Exact
  <2>1. SUFFICES ASSUME NEW k \in Stored, k \notin Stored'
                 PROVE  /\ Removing
                        /\ k \in job.listed /\ ~k.deleted
                        /\ (\E l \in job.listed : l.rv = job.revision)
                           => k.rv = job.revision
    OBVIOUS
  <2>2. Removing /\ k \in Chunk(job.keys, job.bulk, job.chunk)
    BY <1>1, <2>1, RemovedByRequest
  <2>3. Deleting(job)
    BY <1>1, <2>2 DEF CommandInv, Working, Removing
  <2>4. /\ job.keys \in Seq(Keys) /\ job.bulk \in BOOLEAN /\ job.chunk \in Nat
        /\ job.chunk < Chunks(job.keys, job.bulk)
    BY <2>3 DEF Deleting, DeleteJobs
  <2>5. k \in ToSet(job.keys)
    BY <2>2, <2>4, ChunkFacts
  <2> QED BY <2>2, <2>3, <2>5 DEF Deleting
<1>2. CommandInv /\ [Next]_vars => [Exact]_vars
  BY <1>1
<1> QED BY <1>2, Invariance, PTL DEF Spec, DeleteIsExact

-----------------------------------------------------------------------------
(* What saiki state prints.                                                *)

LEMMA StateFacts ==
    ASSUME CommandInv, NEW q \in Queries, NEW time \in 0..now, State(q, time),
           out'.cmd = "state"
    PROVE  /\ out'.q = q /\ out'.time = time /\ UNCHANGED <<blobs, config>>
           /\ \E o \in StateOptions(q) :
                 \A res \in Resources :
                    /\ out'.found[res] = StateOf(o, res, time, q.selector)
                    /\ q.load /\ out'.found[res] # None =>
                          /\ out'.content[res] = Content(out'.found[res])
                          /\ ~Fails(o, q, time)
<1>1. PICK o \in StateOptions(q) :
          out' = IF Fails(o, q, time) THEN [cmd |-> "fatal"]
                 ELSE [cmd |-> "state", q |-> q, time |-> time,
                       found |-> [res \in Resources |->
                                     StateOf(o, res, time, q.selector)],
                       content |->
                          [res \in Resources |->
                              IF q.load /\ StateOf(o, res, time, q.selector) # None
                              THEN Content(StateOf(o, res, time, q.selector))
                              ELSE None]]
  BY DEF State, Answer
<1>2. ~Fails(o, q, time)
  BY <1>1
<1>3. /\ out'.q = q /\ out'.time = time
      /\ out'.found = [res \in Resources |-> StateOf(o, res, time, q.selector)]
      /\ out'.content = [res \in Resources |->
                            IF q.load /\ StateOf(o, res, time, q.selector) # None
                            THEN Content(StateOf(o, res, time, q.selector))
                            ELSE None]
  BY <1>1, <1>2
<1>4. UNCHANGED <<blobs, config>>
  BY DEF State
<1> QED BY <1>2, <1>3, <1>4

(* The commands that read print what they print by themselves.             *)
LEMMA OtherPrints ==
    ASSUME CommandInv, Next, out'.cmd \in {"state", "get"}
    PROVE  \/ \E q \in Queries, time \in 0..now : State(q, time)
           \/ \E q \in Named, revision \in Nat, timed \in BOOLEAN :
                 Get(q, revision, timed)
<1>1. Nothing.cmd = "none"
  BY DEF Nothing
<1>2. CASE RemoveChunk \/ RemoveUnanswered
  <2>1. out = Nothing
    BY <1>2 DEF CommandInv, Working, RemoveChunk, RemoveUnanswered, Removing
  <2>2. UNCHANGED out \/ \E printed, faulty : Removed(printed, faulty)
    BY <1>2 DEF RemoveChunk, RemoveUnanswered
  <2>3. \A printed, faulty : Removed(printed, faulty) => out'.cmd = "delete"
    BY DEF Removed, Answer
  <2> QED BY <1>1, <2>1, <2>2, <2>3
<1>3. CASE Create \/ Patch
  BY <1>3 DEF Create, Patch, Applied, Answer
<1> QED BY <1>2, <1>3, PrintedFacts

LEMMA OnlyStatePrintsState ==
    ASSUME CommandInv, Next, out'.cmd = "state"
    PROVE  \E q \in Queries, time \in 0..now : State(q, time)
<1>1. ASSUME NEW q, NEW revision, NEW timed, Get(q, revision, timed)
      PROVE  FALSE
  BY <1>1 DEF Get, Answer
<1> QED BY <1>1, OtherPrints

LEMMA OnlyGetPrintsGet ==
    ASSUME CommandInv, Next, out'.cmd = "get"
    PROVE  \E q \in Named, revision \in Nat, timed \in BOOLEAN :
               Get(q, revision, timed)
<1>1. ASSUME NEW q, NEW time, State(q, time)
      PROVE  FALSE
  BY <1>1 DEF State, Answer
<1> QED BY <1>1, OtherPrints

(* What is found of an object is one of its revisions.                     *)
LEMMA FoundFacts ==
    ASSUME TypeOK, Archived, NEW o, NEW res, NEW time \in 0..now, NEW selector,
           NEW f, f = StateOf(o, res, time, selector), f # None
    PROVE  /\ f \in KeysOf(res) /\ Before(f, time)
           /\ selector = None =>
                 \A k \in KeysOf(res) : Before(k, time) => k.sec <= f.sec
<1>1. time \in Int
  BY BoundsAssumption DEF TypeOK
<1>2. f = Visited(res, time, selector)[Len(Walk(res))]
  BY DEF StateOf
<1>3. /\ f \in KeysOf(res) /\ TimeOf(f) < time
      /\ selector = None => \A k \in KeysOf(res) :
                               TimeOf(k) < time => TimeOf(k) <= TimeOf(f)
  BY <1>1, <1>2, VisitedFacts
<1>4. ASSUME selector = None, NEW k \in KeysOf(res), TimeOf(k) < time
      PROVE  k.sec <= f.sec
  <2>1. k \in Keys /\ f \in Keys
    BY <1>3, KeysFacts
  <2> QED BY <1>3, <1>4, <2>1, TimeFacts
<1> QED BY <1>3, <1>4 DEF Before, TimeOf

(* saiki state names a revision of an object from before the time, and     *)
(* none of its others from before the time was made later, in whatever     *)
(* order the versions were made, written and walked (storage.go:218-249).  *)
THEOREM StateAlwaysLatest == Spec => []StateIsLatest
<1>1. Init => StateIsLatest
  BY DEF Init, Nothing, StateIsLatest
<1>2. ASSUME CommandInv, Next, out'.cmd = "state", out'.q.selector = None,
             NEW res \in Resources, NEW f, f = out'.found[res], f # None
      PROVE  /\ f \in KeysOf(res)' /\ Before(f, out'.time)
             /\ \A k \in KeysOf(res)' :
                   Before(k, out'.time) => k.sec <= f.sec
  <2>1. PICK q \in Queries, time \in 0..now : State(q, time)
    BY <1>2, OnlyStatePrintsState
  <2>2. /\ out'.time = time /\ q.selector = None /\ blobs' = blobs
        /\ \E o \in StateOptions(q) : f = StateOf(o, res, time, None)
    BY <1>2, <2>1, StateFacts
  <2>3. /\ f \in KeysOf(res) /\ Before(f, time)
        /\ \A k \in KeysOf(res) : Before(k, time) => k.sec <= f.sec
    BY <1>2, <2>2, FoundFacts DEF CommandInv
  <2>4. KeysOf(res)' = KeysOf(res)
    BY <2>2 DEF KeysOf, Stored
  <2> QED BY <2>2, <2>3, <2>4
<1>3. CommandInv /\ Next => StateIsLatest'
  BY <1>2 DEF StateIsLatest
<1>4. StateIsLatest /\ UNCHANGED vars => StateIsLatest'
  BY DEF StateIsLatest, KeysOf, Stored, vars, clusterVars
<1>5. CommandInv /\ StateIsLatest /\ [Next]_vars => StateIsLatest'
  BY <1>3, <1>4
<1> QED BY <1>1, <1>5, Invariance, PTL DEF Spec

(* The content that saiki state writes for a revision is the revision's,   *)
(* if it is the newest live one of its object: the lazy loading, which     *)
(* always gets the newest, then gets the right one (state.go:103-128,      *)
(* revision.go:155-174).                                                   *)
THEOREM NewestAlwaysExported == Spec => []NewestIsExported
<1>1. Init => NewestIsExported
  BY DEF Init, Nothing, NewestIsExported
<1>2. ASSUME CommandInv, Next, out'.cmd = "state", out'.q.load,
             NEW res \in Resources, NEW f, f = out'.found[res], f # None,
             ~f.deleted, \A k \in LiveKeys(res)' : k.rv <= f.rv
      PROVE  out'.content[res] = ContentAt(f)'
  <2>1. PICK q \in Queries, time \in 0..now : State(q, time)
    BY <1>2, OnlyStatePrintsState
  <2>2. /\ q.load /\ blobs' = blobs /\ out'.content[res] = Content(f)
        /\ \E o \in StateOptions(q) : f = StateOf(o, res, time, q.selector)
    BY <1>2, <2>1, StateFacts
  <2>3. f \in KeysOf(res)
    BY <1>2, <2>2, FoundFacts DEF CommandInv
  <2>4. /\ LiveKeys(res)' = LiveKeys(res) /\ ContentAt(f)' = ContentAt(f)
        /\ f \in LiveKeys(res)
    BY <1>2, <2>2, <2>3 DEF LiveKeys, KeysOf, Stored, ContentAt
  <2>5. \A k \in LiveKeys(res) : k.rv <= f.rv
    BY <1>2, <2>4
  <2>6. Content(f) = ContentAt(f)
    BY <1>2, <2>4, <2>5, LoadedFacts DEF CommandInv
  <2> QED BY <2>2, <2>4, <2>6
<1>3. CommandInv /\ Next => NewestIsExported'
  <2>1. SUFFICES ASSUME CommandInv, Next, out'.cmd = "state", out'.q.load,
                        NEW res \in Resources, out'.found[res] # None,
                        ~out'.found[res].deleted,
                        \A k \in LiveKeys(res)' : k.rv <= out'.found[res].rv
                 PROVE  out'.content[res] = ContentAt(out.found[res])'
    BY DEF NewestIsExported
  <2>2. PICK f : f = out'.found[res]
    OBVIOUS
  <2>3. ContentAt(out.found[res])' = ContentAt(f)'
    BY <2>2 DEF ContentAt
  <2> QED BY <1>2, <2>1, <2>2, <2>3
<1>4. NewestIsExported /\ UNCHANGED vars => NewestIsExported'
  BY DEF NewestIsExported, LiveKeys, KeysOf, Stored, ContentAt, vars, clusterVars
<1>5. CommandInv /\ NewestIsExported /\ [Next]_vars => NewestIsExported'
  BY <1>3, <1>4
<1> QED BY <1>1, <1>5, Invariance, PTL DEF Spec

-----------------------------------------------------------------------------
(* The objects a query is about.  The empty string, which stands for any   *)
(* name, is kept out of the steps about sequences.                         *)

LEMMA PathFacts ==
    ASSUME NEW root, NEW path, NEW gv, NEW kind, NEW ns, NEW name, NEW x,
           \/ path = <<gv, kind, x>> /\ root = <<gv, kind>>
           \/ /\ path = <<gv, kind, ns, name>>
              /\ \/ root = <<gv, kind>>
                 \/ root = <<gv, kind, ns>>
                 \/ root = <<gv, kind, ns, name>>
    PROVE  Len(root) <= Len(path) /\ \A i \in DOMAIN root : path[i] = root[i]
OBVIOUS

(* The directory of an object that is not skipped is below the root.       *)
LEMMA RootFacts ==
    ASSUME NEW res \in Resources, NEW o
    PROVE  o.kind # "" /\ o.gv # "" /\ ~Skipped(o, res)
           => UnderRoot(WalkRoot(o), res)
<1>1. SUFFICES ASSUME o.kind # "", o.gv # "", ~Skipped(o, res)
               PROVE  UnderRoot(WalkRoot(o), res)
  OBVIOUS
<1> DEFINE m    == Meta[res]
           path == Path(res)
           root == WalkRoot(o)
           apart == o.ns # "" /\ ~o.all
<1>2. m.gv = o.gv /\ m.kind = o.kind
  BY <1>1, Zenon DEF Skipped
<1>3. o.name # "" => m.name = o.name
  BY <1>1, Zenon DEF Skipped
<1>4. apart => m.ns = o.ns
  BY <1>1, Zenon DEF Skipped
<1>5. \/ path = <<m.gv, m.kind, m.name>>
      \/ path = <<m.gv, m.kind, m.ns, m.name>>
  BY Zenon DEF Path
<1>6. m.ns # "" => path = <<m.gv, m.kind, m.ns, m.name>>
  BY Zenon DEF Path
<1>7. \/ root = <<o.gv, o.kind>>
      \/ root = <<o.gv, o.kind, o.ns>> /\ apart
      \/ root = <<o.gv, o.kind, o.ns, o.name>> /\ apart /\ o.name # ""
  BY <1>1, Zenon DEF WalkRoot
<1>8. apart => path = <<o.gv, o.kind, o.ns, m.name>>
  BY <1>2, <1>4, <1>6, Zenon
<1>9. \/ path = <<o.gv, o.kind, m.name>> /\ root = <<o.gv, o.kind>>
      \/ /\ path = <<o.gv, o.kind, m.ns, m.name>>
         /\ \/ root = <<o.gv, o.kind>>
            \/ root = <<o.gv, o.kind, m.ns>>
            \/ root = <<o.gv, o.kind, m.ns, m.name>>
  BY <1>2, <1>3, <1>4, <1>5, <1>7, <1>8, Zenon
<1> HIDE DEF m, path, root
<1>10. Len(root) <= Len(path) /\ \A i \in DOMAIN root : path[i] = root[i]
  BY <1>9, PathFacts
<1> QED BY <1>10, Zenon DEF UnderRoot, path, root

(* An argument means the kind that is found for it.                        *)
LEMMA FoundIsMeant ==
    ASSUME TypeOK, NEW arg, NEW a \in Mappings(arg), NEW res,
           a.gv = Meta[res].gv, a.kind = Meta[res].kind
    PROVE  Means(arg, res)
<1>1. PICK i \in DOMAIN config : a = config[i] /\ IsMeant(config, arg, i)
  BY ConfigFacts
<1> QED BY <1>1, Zenon DEF Means, IsMeant

(* An argument that is not for every kind means no other.                  *)
LEMMA MeansFacts ==
    ASSUME TypeOK, NEW q, ~EveryKind(q), NEW a \in Mappings(q.arg), NEW res,
           Means(q.arg, res)
    PROVE  a.gv = Meta[res].gv /\ a.kind = Meta[res].kind
<1>1. config # None /\ config \in Seq(APIResources)
  BY ConfigFacts
<1>2. PICK i \in DOMAIN config :
          /\ config[i].gv = Meta[res].gv /\ config[i].kind = Meta[res].kind
          /\ IsMeant(config, q.arg, i)
  BY Zenon DEF EveryKind, Means, IsMeant
<1>3. BestResourceMappingFor(config, q.arg) = {config[i]}
  BY <1>1, <1>2, MappingFacts
<1>4. a \in BestResourceMappingFor(config, q.arg)
  BY <1>1 DEF Mappings
<1> QED BY <1>2, <1>3, <1>4

(* The walk goes to the objects that are asked for, and to no other unless *)
(* a namespace is given and no kind is.                                    *)
LEMMA ScopeFacts ==
    ASSUME TypeOK, NEW q, NEW o \in StateOptions(q), NEW res \in Resources
    PROVE  /\ Asked(q, res) => UnderRoot(WalkRoot(o), res) /\ ~Skipped(o, res)
           /\ /\ UnderRoot(WalkRoot(o), res) /\ ~Skipped(o, res)
              /\ ~EveryKind(q) \/ q.all \/ q.ns = ""
              => Asked(q, res)
<1>1. CASE EveryKind(q)
  <2> DEFINE options == [gv |-> "", kind |-> "", ns |-> "", name |-> q.name,
                         all |-> q.all]
  <2>1. o = options
    BY <1>1, Zenon DEF StateOptions
  <2>2. o.gv = "" /\ o.kind = "" /\ o.ns = "" /\ o.name = q.name
    BY <2>1, Zenon
  <2>3. WalkRoot(o) = <<>>
    BY <2>2, Zenon DEF WalkRoot
  <2>4. \E m : Path(res) = <<m.gv, m.kind, m.name>>
               \/ Path(res) = <<m.gv, m.kind, m.ns, m.name>>
    BY Zenon DEF Path
  <2>5. Len(WalkRoot(o)) <= Len(Path(res)) /\ DOMAIN WalkRoot(o) = {}
    BY <2>3, <2>4
  <2>6. UnderRoot(WalkRoot(o), res)
    BY <2>5, Zenon DEF UnderRoot
  <2>7. Skipped(o, res) <=> q.name # "" /\ Meta[res].name # q.name
    BY <2>2, Zenon DEF Skipped
  <2>8. /\ Asked(q, res) => q.name \in {"", Meta[res].name}
        /\ (q.all \/ q.ns = "") /\ q.name \in {"", Meta[res].name}
           => Asked(q, res)
    BY <1>1, Zenon DEF EveryKind, Asked, Means
  <2> QED BY <1>1, <2>6, <2>7, <2>8, Zenon
<1>2. CASE ~EveryKind(q)
  <2>1. PICK a \in Mappings(q.arg) :
            o = [[gv |-> "", kind |-> "", ns |-> "", name |-> q.name,
                  all |-> q.all]
                 EXCEPT !.gv = a.gv, !.kind = a.kind,
                        !.ns = IF a.namespaced THEN q.ns ELSE ""]
    BY <1>2, Zenon DEF StateOptions
  <2>2. /\ o.gv = a.gv /\ o.kind = a.kind /\ o.name = q.name /\ o.all = q.all
        /\ a.namespaced => o.ns = q.ns
        /\ ~a.namespaced => o.ns = ""
    BY <2>1, Zenon
  <2>3. config \in Discoveries /\ \E i \in DOMAIN config : a = config[i]
    BY ConfigFacts DEF TypeOK
  <2>4. o.gv # "" /\ o.kind # ""
    BY <2>2, <2>3, NamesAssumption, Zenon
  <2>5. Means(q.arg, res) <=> o.gv = Meta[res].gv /\ o.kind = Meta[res].kind
    <3>1. o.gv = a.gv /\ o.kind = a.kind
      BY <2>2, Zenon
    <3> QED BY <1>2, <3>1, FoundIsMeant, MeansFacts
  <2>6. o.gv = Meta[res].gv /\ o.kind = Meta[res].kind
        => (a.namespaced <=> Meta[res].ns # "")
    BY <2>2, <2>3, ScopeAssumption, Zenon
  <2>7. ASSUME ~Skipped(o, res) PROVE Asked(q, res) /\ UnderRoot(WalkRoot(o), res)
    <3>1. /\ o.gv = Meta[res].gv /\ o.kind = Meta[res].kind
          /\ o.name = "" \/ o.name = Meta[res].name
          /\ o.all \/ o.ns = "" \/ o.ns = Meta[res].ns
      BY <2>4, <2>7, Zenon DEF Skipped
    <3>2. Asked(q, res)
      BY <2>2, <2>5, <2>6, <3>1, Zenon DEF Asked
    <3>3. UnderRoot(WalkRoot(o), res)
      BY <2>4, <2>7, RootFacts, Zenon
    <3> QED BY <3>2, <3>3, Zenon
  <2>8. ASSUME Asked(q, res) PROVE ~Skipped(o, res)
    <3>1. /\ o.gv = Meta[res].gv /\ o.kind = Meta[res].kind
          /\ q.name = "" \/ q.name = Meta[res].name
          /\ q.all \/ q.ns = "" \/ Meta[res].ns = "" \/ Meta[res].ns = q.ns
      BY <1>2, <2>5, <2>8, Zenon DEF Asked, EveryKind
    <3> QED BY <2>2, <2>6, <3>1, Zenon DEF Skipped
  <2> QED BY <2>7, <2>8, Zenon
<1> QED BY <1>1, <1>2, Zenon

(* A revision is found of what the walk goes to, if there is one.          *)
LEMMA FoundIff ==
    ASSUME TypeOK, Archived, NEW o, NEW res, NEW time \in 0..now
    PROVE  StateOf(o, res, time, None) # None
           <=> /\ UnderRoot(WalkRoot(o), res) /\ ~Skipped(o, res)
               /\ Had(res, time)
<1> DEFINE f == Visited(res, time, None)[Len(Walk(res))]
<1>1. time \in Int
  BY BoundsAssumption DEF TypeOK
<1>2. /\ f # None => f \in KeysOf(res) /\ TimeOf(f) < time
      /\ \A k \in KeysOf(res) : TimeOf(k) < time => f # None
  BY <1>1, VisitedFacts
<1>3. f # None <=> \E k \in KeysOf(res) : Before(k, time)
  BY <1>2 DEF Before, TimeOf
<1> QED BY <1>3, Zenon DEF StateOf, Had

(* saiki revisions get prints revisions of the object that is named.       *)
LEMMA GetFacts ==
    ASSUME TypeOK, Archived, NEW q, NEW revision, NEW a \in Mappings(q.arg),
           NEW k \in ToSet(Chosen(a, q, revision))
    PROVE  /\ Means(q.arg, k.res) /\ Meta[k.res].name = q.name
           /\ Meta[k.res].ns \in {"", q.ns}
           /\ k \in LiveKeys(k.res)
<1>1. Chosen(a, q, revision) # <<>>
  BY DEF ToSet
<1>2. PICK res \in Resources : /\ ObjectsNamed(a, q) = {res}
                               /\ Chosen(a, q, revision) = Choose(res, revision)
  BY <1>1, ChosenFacts
<1>3. k \in LiveKeys(res) /\ k.res = res
  <2>1. Choose(res, revision) \in Seq(LiveKeys(res))
    BY ChooseFacts
  <2>2. k \in LiveKeys(res)
    BY <1>2, <2>1 DEF ToSet
  <2> QED BY <2>2, KeysFacts
<1>4. PICK ns : ns = IF a.namespaced THEN q.ns ELSE ""
  BY Zenon
<1>5. Meta[res] = [gv |-> a.gv, kind |-> a.kind, name |-> q.name, ns |-> ns]
  BY <1>2, <1>4, Zenon DEF ObjectsNamed
<1>6. /\ Meta[res].gv = a.gv /\ Meta[res].kind = a.kind
      /\ Meta[res].name = q.name /\ Meta[res].ns = ns
  BY <1>5
<1>7. ns \in {"", q.ns}
  BY <1>4, Zenon
<1>8. Means(q.arg, res)
  BY <1>6, FoundIsMeant
<1> QED BY <1>3, <1>6, <1>7, <1>8, Zenon

(* saiki state names a revision of every object that is asked for and had  *)
(* one before the time, and, if the query names a kind or no namespace, of *)
(* no other, although a bucket lists by prefixes and an argument may be a  *)
(* name of several kinds (state.go:67-99, storage.go:171-216,              *)
(* config.go:53-75).                                                       *)
THEOREM AlwaysAnswersWhatWasAsked == Spec => []AnswersWhatWasAsked
<1>1. Init => AnswersWhatWasAsked
  <2>1. Init => out.cmd = "none"
    BY DEF Init, Nothing
  <2>2. out.cmd = "none" => out.cmd # "state"
    OBVIOUS
  <2> QED BY <2>1, <2>2, Zenon DEF AnswersWhatWasAsked
<1>2. ASSUME CommandInv, Next, out'.cmd = "state", out'.q.selector = None,
             NEW res \in Resources
      PROVE  /\ Asked(out.q, res)' /\ Had(res, out.time)'
                => out'.found[res] # None
             /\ out'.found[res] # None => Had(res, out.time)'
             /\ /\ out'.found[res] # None
                /\ ~EveryKind(out.q)' \/ out'.q.all \/ out'.q.ns = ""
                => Asked(out.q, res)'
  <2>1. PICK q \in Queries, time \in 0..now : State(q, time)
    BY <1>2, OnlyStatePrintsState
  <2>2. /\ out'.q = q /\ out'.time = time /\ q.selector = None
        /\ UNCHANGED <<blobs, config>>
        /\ \E o \in StateOptions(q) :
              out'.found[res] = StateOf(o, res, time, None)
    BY <1>2, <2>1, StateFacts
  <2>3. PICK o \in StateOptions(q) : out'.found[res] = StateOf(o, res, time, None)
    BY <2>2
  <2>4. out'.found[res] # None <=> /\ UnderRoot(WalkRoot(o), res) /\ ~Skipped(o, res)
                                   /\ Had(res, time)
    BY <1>2, <2>3, FoundIff DEF CommandInv
  <2>5. /\ Asked(q, res) => UnderRoot(WalkRoot(o), res) /\ ~Skipped(o, res)
        /\ /\ UnderRoot(WalkRoot(o), res) /\ ~Skipped(o, res)
           /\ ~EveryKind(q) \/ q.all \/ q.ns = ""
           => Asked(q, res)
    BY <1>2, ScopeFacts, Zenon DEF CommandInv
  <2>6. /\ Asked(out.q, res)' <=> Asked(q, res)
        /\ EveryKind(out.q)' <=> EveryKind(q)
    BY <2>2, Zenon DEF Asked, Means, EveryKind
  <2>7. KeysOf(res)' = KeysOf(res)
    BY <2>2 DEF KeysOf, Stored
  <2>8. Had(res, out.time)' <=> Had(res, time)
    BY <2>2, <2>7, Zenon DEF Had, Before
  <2> QED BY <2>2, <2>4, <2>5, <2>6, <2>8, Zenon
<1>3. CommandInv /\ Next => AnswersWhatWasAsked'
  BY <1>2, Zenon DEF AnswersWhatWasAsked
<1>4. AnswersWhatWasAsked /\ UNCHANGED vars => AnswersWhatWasAsked'
  <2>1. SUFFICES ASSUME AnswersWhatWasAsked, UNCHANGED vars
                 PROVE  AnswersWhatWasAsked'
    OBVIOUS
  <2>2. blobs' = blobs /\ config' = config /\ out' = out
    BY <2>1 DEF vars
  <2>3. \A res : KeysOf(res)' = KeysOf(res)
    BY <2>2 DEF KeysOf, Stored
  <2>4. /\ \A res : Had(res, out.time)' <=> Had(res, out.time)
        /\ EveryKind(out.q)' <=> EveryKind(out.q)
    BY <2>2, <2>3, Zenon DEF Had, Before, EveryKind
  <2>5. \A res : Asked(out.q, res)' <=> Asked(out.q, res)
    BY <2>2, Zenon DEF Asked, Means
  <2> QED BY <2>1, <2>2, <2>4, <2>5, Zenon DEF AnswersWhatWasAsked
<1>5. CommandInv /\ AnswersWhatWasAsked /\ [Next]_vars => AnswersWhatWasAsked'
  BY <1>3, <1>4
<1> QED BY <1>1, <1>5, Invariance, PTL DEF Spec

(* saiki revisions get prints live revisions of the object that is asked   *)
(* for, and of no other (revisions.go:81-112, config.go:53-75).            *)
THEOREM AlwaysPrintsWhatWasAsked == Spec => []PrintsWhatWasAsked
<1>1. Init => PrintsWhatWasAsked
  <2>1. Init => out.cmd = "none"
    BY DEF Init, Nothing
  <2>2. out.cmd = "none" => out.cmd # "get"
    OBVIOUS
  <2> QED BY <2>1, <2>2, Zenon DEF PrintsWhatWasAsked
<1>2. ASSUME CommandInv, Next, out'.cmd = "get", NEW k \in ToSet(out'.printed)
      PROVE  /\ Means(out.q.arg, k.res)' /\ Meta[k.res].name = out'.q.name
             /\ Meta[k.res].ns \in {"", out'.q.ns}
             /\ k \in LiveKeys(k.res)'
  <2>1. PICK q \in Named, revision \in Nat, timed \in BOOLEAN :
                Get(q, revision, timed)
    BY <1>2, OnlyGetPrintsGet
  <2>2. PICK a \in Mappings(q.arg) :
            out' = [cmd |-> "get", q |-> q, printed |-> Chosen(a, q, revision)]
    BY <2>1 DEF Get, Answer
  <2>3. /\ out'.q = q /\ k \in ToSet(Chosen(a, q, revision))
        /\ UNCHANGED <<blobs, config>>
    BY <1>2, <2>1, <2>2 DEF Get
  <2>4. /\ Means(q.arg, k.res) /\ Meta[k.res].name = q.name
        /\ Meta[k.res].ns \in {"", q.ns}
        /\ k \in LiveKeys(k.res)
    BY <1>2, <2>2, <2>3, GetFacts, Zenon DEF CommandInv
  <2>5. Means(out.q.arg, k.res)' <=> Means(q.arg, k.res)
    BY <2>3, Zenon DEF Means
  <2>6. LiveKeys(k.res)' = LiveKeys(k.res)
    BY <2>3 DEF LiveKeys, KeysOf, Stored
  <2> QED BY <2>3, <2>4, <2>5, <2>6, Zenon
<1>3. CommandInv /\ Next => PrintsWhatWasAsked'
  BY <1>2, Zenon DEF PrintsWhatWasAsked
<1>4. PrintsWhatWasAsked /\ UNCHANGED vars => PrintsWhatWasAsked'
  <2>1. SUFFICES ASSUME PrintsWhatWasAsked, UNCHANGED vars
                 PROVE  PrintsWhatWasAsked'
    OBVIOUS
  <2>2. blobs' = blobs /\ config' = config /\ out' = out
    BY <2>1 DEF vars
  <2>3. \A res : LiveKeys(res)' = LiveKeys(res)
    BY <2>2 DEF KeysOf, LiveKeys, Stored
  <2>4. \A res : Means(out.q.arg, res)' <=> Means(out.q.arg, res)
    BY <2>2, Zenon DEF Means
  <2> QED BY <2>1, <2>2, <2>3, <2>4, Zenon DEF PrintsWhatWasAsked
<1>5. CommandInv /\ PrintsWhatWasAsked /\ [Next]_vars => PrintsWhatWasAsked'
  BY <1>3, <1>4
<1> QED BY <1>1, <1>5, Invariance, PTL DEF Spec
=============================================================================
