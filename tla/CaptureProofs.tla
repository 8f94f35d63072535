---------------------------- MODULE CaptureProofs ----------------------------
(***************************************************************************)
(* The proof that the controller captures the changes of an object, for    *)
(* every number of workers, versions, kills and restarts.                  *)
(*                                                                         *)
(* What is waited for is followed from the queue to the archive: the       *)
(* newest version of an object that is in the queue, at a worker, in the   *)
(* cache or in the archive has the checked fields of the object.           *)
(***************************************************************************)
EXTENDS ControllerProofs

(* A watched object that has not been deleted since its first version.     *)
Steady(res) == res \in handled \ recreated

Busy == {w \in Workers : hand[w] # None}

(* What has been reported and is not decided yet.                          *)
PendingItems == {queue[i] : i \in DOMAIN queue} \cup {hand[w].item : w \in Busy}

Reported == {item.new : item \in PendingItems}

(* Everything that was made of a version of the object.                    *)
Copies == archive \cup c \cup flushing \cup Reported

(* Nothing of a steady object is, or will be, a tombstone.                 *)
Alive ==
    /\ \A r \in archive \cup c \cup flushing :
          Steady(r.res) => ~r.deleted /\ r.content # Lazy
    /\ \A w \in Busy : hand[w].at = "gone" => ~Steady(New(w).res)

(* A version has one content, and none is newer than the object.           *)
OneContent ==
    /\ \A x, y \in Copies :
          Steady(x.res) /\ x.res = y.res /\ x.rv = y.rv => x.content = y.content
    /\ \A x \in Copies : Steady(x.res) =>
          /\ x.rv <= known[x.res].rv
          /\ x.rv = known[x.res].rv => x.content = known[x.res].content

(* An update is to a later version, or comes from a resync.                *)
Ordered ==
    \A item \in PendingItems :
        item.old # None => \/ item.old.rv < item.new.rv
                           \/ item.old = item.new

(* There is at most one addition on its way per object and run, and every- *)
(* thing else that is on its way is not older.                             *)
AdditionsFirst ==
    \A a \in PendingItems : a.old = None /\ Steady(a.new.res) =>
        \A x \in Reported \cup c \cup flushing :
            x.res = a.new.res => x.rv >= a.new.rv

(* A revision that the archive has a version of.                           *)
Named(u) == \E q \in archive : q.res = u.res /\ q.rv = u.rv

(* x is what the archive says an object was before version rv, or the      *)
(* archive has got to that version.                                        *)
Before(res, rv, x) ==
    \/ \E q \in Of(res, archive) : q.rv >= rv
    \/ /\ Of(res, archive) # {}
       /\ \A q \in Newest(Of(res, archive)) : q.content = x

(* What the two caches of the store say of an object, an addition may be   *)
(* compared with.                                                          *)
CachesBefore ==
    /\ phase \in {"down", "list", "walk"} =>
          m = {} /\ latestCache = [res \in Resources |-> None]
    /\ \A res \in Resources : latestCache[res] # None =>
          latestCache[res].res = res /\ Named(latestCache[res])
    /\ \A a \in PendingItems : a.old = None /\ Steady(a.new.res) =>
          /\ latestCache[a.new.res] # None =>
                Before(a.new.res, a.new.rv, latestCache[a.new.res].content)
          /\ \A x \in Of(a.new.res, m) : x.content # Lazy =>
                Before(a.new.res, a.new.rv, x.content)

(* What a worker compares its object with.                                 *)
Compares(t) ==
    LET a == t.item.new
    IN  /\ a.content # Lazy
        /\ t.item.old # None => /\ t.at \in {"taken", "gone", "compare"}
                                /\ t.old = t.item.old
        /\ t.item.old = None =>
              /\ t.at \in {"taken", "fetch"} => t.old = None
              /\ t.old # None => t.old.res = a.res /\ Named(t.old)
        /\ t.at = "memo" => /\ t.item.old = None
                            /\ t.found.res = a.res /\ Named(t.found)
                            /\ Steady(a.res) =>
                                  Before(a.res, a.rv, t.found.content)
        /\ /\ t.at = "compare" /\ t.item.old = None /\ t.old # None
           /\ Steady(a.res)
           => Before(a.res, a.rv, t.old.content)

ComparesBefore == \A w \in Busy : Compares(hand[w])

(* A report that will be stored, or may be.                                *)
Matters(item) == item.old = None \/ item.old.content # item.new.content

(* What is, or may come to be, in the archive of an object.                *)
Coming(res) ==
    Of(res, archive \cup c \cup flushing)
    \cup Of(res, {item.new : item \in {i \in PendingItems : Matters(i)}})

(* The newest of it is what the object is now.                             *)
Captured(res) ==
    \E p \in Coming(res) : /\ p.content = known[res].content
                           /\ \A q \in Coming(res) : q.rv <= p.rv

Capturing ==
    \A res \in listed : /\ Steady(res) /\ res \notin filtered
                        /\ known[res] # None
                        => Captured(res)

CaptureInv ==
    /\ FlushCache!OnePerKey(flushing)
    /\ Alive
    /\ OneContent
    /\ Ordered
    /\ AdditionsFirst
    /\ CachesBefore
    /\ ComparesBefore
    /\ Capturing

-----------------------------------------------------------------------------
(* Facts about the sets above.                                             *)

LEMMA PendingType ==
    ASSUME TypeOK
    PROVE  /\ PendingItems \subseteq Items
           /\ \A item \in PendingItems : /\ item.new \in Objects
                                         /\ item.old \in Objects \cup {None}
<1>1. \A i \in DOMAIN queue : queue[i] \in Items
  BY ItemOfSeq DEF TypeOK
<1>2. \A w \in Busy : hand[w].item \in Items
  BY NewType DEF Busy
<1>3. PendingItems \subseteq Items
  BY <1>1, <1>2 DEF PendingItems
<1> QED BY <1>3 DEF Items

LEMMA CopiesType ==
    ASSUME TypeOK
    PROVE  \A x \in Copies : x.res \in Resources /\ x.rv \in Int
<1>1. \A r \in archive \cup c \cup flushing : r \in Revs
  BY DEF TypeOK
<1>2. \A x \in Reported : x \in Objects
  BY PendingType DEF Reported
<1> QED BY <1>1, <1>2 DEF Copies, Revs, Objects

(* A copy is of a version that was given out, and what is reported is of a *)
(* watched object.                                                         *)
LEMMA CopiesIssued ==
    ASSUME TypeOK, SafeInv
    PROVE  /\ \A x \in Copies : GivenOut(x)
           /\ \A x \in Reported : x.res \in handled
<1>1. \A item \in PendingItems : GivenOut(item.new) /\ item.new.res \in handled
  BY DEF PendingItems, Busy, New, SafeInv, Issued, Watched, TypeOK
<1> QED BY <1>1 DEF Copies, Reported, SafeInv, Issued

(* A steady object with a copy is there.                                   *)
LEMMA SteadyIsKnown ==
    ASSUME TypeOK, SafeInv, NEW x \in Copies, Steady(x.res)
    PROVE  /\ known[x.res] \in Objects /\ known[x.res] # None
           /\ x.res \in Resources
BY CopiesType, CopiesIssued DEF GivenOut, Steady, TypeOK

(* What Coming is made of.                                                 *)
LEMMA ComingIs ==
    ASSUME NEW res, NEW p
    PROVE  p \in Coming(res) <=>
              /\ p.res = res
              /\ \/ p \in archive \cup c \cup flushing
                 \/ \E item \in PendingItems : Matters(item) /\ p = item.new
BY DEF Coming, Of

LEMMA ComingAreCopies ==
    ASSUME TypeOK, NEW res, NEW p \in Coming(res)
    PROVE  p \in Copies /\ p.res = res /\ p.rv \in Int
BY ComingIs, CopiesType DEF Copies, Reported

-----------------------------------------------------------------------------
(* Steps that leave the copies alone.                                      *)

LEMMA CaptureInit == Init => CaptureInv
<1> SUFFICES ASSUME Init PROVE CaptureInv
  OBVIOUS
<1>1. PendingItems = {} /\ Reported = {} /\ Busy = {}
  BY DEF Init, PendingItems, Reported, Busy
<1>2. \A r \in archive : ~Steady(r.res)
  BY SetupsAssumption DEF Init, Steady
<1>3. Copies = archive
  BY <1>1 DEF Init, Copies
<1>4. Alive /\ OneContent
  BY <1>1, <1>2, <1>3 DEF Init, Alive, OneContent
<1>5. Ordered /\ AdditionsFirst /\ ComparesBefore /\ Capturing
  BY <1>1 DEF Init, Ordered, AdditionsFirst, ComparesBefore, Capturing
<1>6. CachesBefore
  BY <1>1 DEF Init, CachesBefore
<1>7. FlushCache!OnePerKey(flushing)
  BY DEF Init, FlushCache!OnePerKey
<1> QED BY <1>4, <1>5, <1>6, <1>7 DEF CaptureInv

LEMMA DieCapture == TypeInv /\ SafeInv /\ CaptureInv /\ Die => CaptureInv'
<1> SUFFICES ASSUME TypeInv, SafeInv, CaptureInv, Die PROVE CaptureInv'
  OBVIOUS
<1> USE DEF CaptureInv
<1>1. Busy' = {}
  BY DEF Die, Busy
<1>2. PendingItems' = {} /\ Reported' = {}
  BY <1>1 DEF Die, PendingItems, Reported
<1>3. UNCHANGED <<handled, known, archive, recreated>> /\ c' = {} /\ flushing' = {}
      /\ listed' = {}
  BY DEF Die, configVars
<1>4. Copies' \subseteq Copies
  BY <1>2, <1>3 DEF Copies
<1>5. Alive' /\ OneContent'
  BY <1>1, <1>3, <1>4 DEF Alive, OneContent, Steady
<1>6. Ordered' /\ AdditionsFirst' /\ ComparesBefore' /\ Capturing'
  BY <1>1, <1>2, <1>3 DEF Ordered, AdditionsFirst, ComparesBefore, Capturing
<1>7. CachesBefore'
  BY <1>2 DEF Die, CachesBefore
<1>8. FlushCache!OnePerKey(flushing)'
  BY <1>3 DEF FlushCache!OnePerKey
<1> QED BY <1>5, <1>6, <1>7, <1>8

(* The parts of the invariant that only the copies decide.                 *)
CopiesInv ==
    /\ FlushCache!OnePerKey(flushing) /\ OneContent /\ Ordered /\ AdditionsFirst
    /\ Capturing

LEMMA SameCopies ==
    ASSUME CopiesInv, PendingItems' = PendingItems,
           UNCHANGED <<handled, known, listed, c, flushing, archive, recreated,
                       filtered>>
    PROVE  CopiesInv'
<1>1. Reported' = Reported /\ Copies' = Copies
  BY DEF Reported, Copies
<1>2. \A res : Coming(res)' = Coming(res)
  BY DEF Coming, Of, Matters
<1>3. Capturing'
  BY <1>2 DEF CopiesInv, Capturing, Captured, Steady
<1>4. OneContent' /\ Ordered' /\ AdditionsFirst' /\ FlushCache!OnePerKey(flushing)'
  BY <1>1
  DEF CopiesInv, OneContent, Ordered, AdditionsFirst, Steady, FlushCache!OnePerKey
<1> QED BY <1>3, <1>4 DEF CopiesInv

(* Before only looks at the archive.                                       *)
LEMMA SameBefore ==
    ASSUME archive' = archive, NEW res, NEW rv, NEW x
    PROVE  /\ Before(res, rv, x)' <=> Before(res, rv, x)
           /\ \A u : Named(u)' <=> Named(u)
BY DEF Before, Named

(* A worker that keeps its item.  It has to say what it compares with now, *)
(* and what it has put into the caches.                                    *)
LEMMA KeepsItemCapture ==
    ASSUME TypeInv, SafeInv, CaptureInv, NEW w \in Workers, hand[w] # None,
           hand \in [Workers -> Tasks \cup {None}],
           \A v \in Workers : v # w => hand'[v] = hand[v],
           hand'[w] # None, hand'[w].item = hand[w].item,
           hand'[w].at = "gone" => ~Steady(New(w).res),
           Compares(hand'[w]),
           UNCHANGED <<handled, known, listed, queue, phase, c, flushing,
                       archive, recreated, filtered>>,
           CachesBefore'
    PROVE  CaptureInv'
<1> USE DEF CaptureInv
<1>1. Busy' = Busy /\ \A v \in Busy : hand'[v].item = hand[v].item
  BY DEF Busy
<1>2. PendingItems' = PendingItems
  BY <1>1 DEF PendingItems
<1>3. CopiesInv'
  BY <1>2, SameCopies DEF CopiesInv
<1>4. Alive'
  <2>1. \A v \in Busy : v # w => hand'[v] = hand[v]
    BY DEF Busy
  <2> QED BY <1>1, <2>1 DEF Alive, Steady, New
<1>5. ComparesBefore'
  <2>1. \A v \in Busy : Compares(hand'[v])
    BY DEF ComparesBefore, Busy
  <2>2. \A t : Compares(t)' <=> Compares(t)
    BY DEF Compares, Before, Named, Of, Newest, Steady
  <2> QED BY <1>1, <2>1, <2>2 DEF ComparesBefore
<1> QED BY <1>3, <1>4, <1>5 DEF CopiesInv

(* The caches, if a worker keeps its item and neither is changed.          *)
LEMMA SameCaches ==
    ASSUME CachesBefore, PendingItems' = PendingItems,
           UNCHANGED <<handled, recreated, phase, archive, m, latestCache>>
    PROVE  CachesBefore'
BY DEF CachesBefore, Before, Named, Of, Newest, Steady

LEMMA SamePending ==
    ASSUME NEW w \in Workers, hand[w] # None,
           \A v \in Workers : v # w => hand'[v] = hand[v],
           hand'[w] # None, hand'[w].item = hand[w].item, queue' = queue
    PROVE  PendingItems' = PendingItems
<1>1. Busy' = Busy /\ \A v \in Busy : hand'[v].item = hand[v].item
  BY DEF Busy
<1> QED BY <1>1 DEF PendingItems

(* A worker that only looks something up.                                  *)
LEMMA StepCapture ==
    ASSUME TypeInv, SafeInv, CaptureInv, NEW w \in Workers, hand[w] # None,
           NEW old \in Objects \cup {None}, NEW at \in Places, at # "memo",
           Step(w, old, at),
           at = "gone" => ~Steady(New(w).res),
           hand[w].item.old # None => at \in {"gone", "compare"}
                                      /\ old = hand[w].item.old,
           hand[w].item.old = None =>
              /\ at \in {"taken", "fetch"} => old = None
              /\ old # None => old.res = New(w).res /\ Named(old)
              /\ at = "compare" /\ old # None /\ Steady(New(w).res)
                 => Before(New(w).res, New(w).rv, old.content),
           UNCHANGED <<configVars, informerVars, syncVars, flushVars,
                       storeVars, historyVars>>
    PROVE  CaptureInv'
<1>1. /\ \A v \in Workers : v # w => hand'[v] = hand[v]
      /\ hand'[w] # None /\ hand'[w].item = hand[w].item
      /\ hand'[w].old = old /\ hand'[w].found = None /\ hand'[w].at = at
  BY StepFacts DEF TypeInv
<1>2. UNCHANGED <<handled, known, listed, queue, phase, c, flushing, archive,
                  recreated, filtered, m, latestCache>>
  BY DEF configVars, informerVars, syncVars, flushVars, storeVars, readerVars,
         historyVars
<1>3. Compares(hand'[w])
  <2>1. hand[w].item.new.content # Lazy
    BY DEF CaptureInv, ComparesBefore, Compares, Busy
  <2> QED BY <1>1, <2>1 DEF Compares, New
<1>4. CachesBefore'
  BY <1>1, <1>2, SamePending, SameCaches DEF CaptureInv
<1>5. hand \in [Workers -> Tasks \cup {None}]
  BY DEF TypeInv, TypeOK
<1> QED BY <1>1, <1>2, <1>3, <1>4, <1>5, KeepsItemCapture

-----------------------------------------------------------------------------
(* Steps that only concern an object that is not steady.                   *)

LEMMA OthersCapture ==
    ASSUME TypeInv, SafeInv, CaptureInv, NEW gone \in Resources,
           ~Steady(gone)', handled' = handled,
           recreated' \in {recreated, recreated \cup {gone}},
           listed' \in {listed, listed \cup {gone}},
           filtered \subseteq filtered',
           \A res \in Resources : res # gone => known'[res] = known[res],
           \A x : x.res # gone =>
              /\ x \in archive' <=> x \in archive
              /\ x \in c' <=> x \in c
              /\ x \in flushing' <=> x \in flushing
              /\ x \in m' <=> x \in m,
           \A item : item.new.res # gone =>
              (item \in PendingItems' <=> item \in PendingItems),
           \A w \in Workers : hand'[w] \in {hand[w], None},
           \A u : Named(u) => Named(u)',
           FlushCache!OnePerKey(flushing'),
           Ordered',
           phase' \in {"down", "list", "walk"} =>
              m' = {} /\ latestCache' = [res \in Resources |-> None],
           \A res \in Resources : latestCache'[res] = latestCache[res] \/
              (/\ res = gone /\ latestCache'[gone].res = gone
               /\ Named(latestCache[gone])')
    PROVE  CaptureInv'
<1> USE DEF CaptureInv
<1>1. \A res : res # gone => (Steady(res)' <=> Steady(res))
  BY DEF Steady
<1>2. Busy' \subseteq Busy /\ \A w \in Busy' : hand'[w] = hand[w]
  BY DEF Busy
<1>3. \A x : x.res # gone =>
         /\ x \in Reported' <=> x \in Reported
         /\ x \in Copies' <=> x \in Copies
  BY DEF Reported, Copies
<1>4. \A res : res # gone => Of(res, archive)' = Of(res, archive)
  BY DEF Of
<1>5. \A res, rv, x : res # gone => (Before(res, rv, x)' <=> Before(res, rv, x))
  BY <1>4 DEF Before
<1>6. \A x \in Copies' : Steady(x.res)' => x.res # gone /\ x \in Copies
                                           /\ Steady(x.res)
  BY <1>1, <1>3
<1>7. Alive'
  <2>1. \A r \in archive' \cup c' \cup flushing' : Steady(r.res)' =>
            r \in archive \cup c \cup flushing /\ Steady(r.res)
    BY <1>1
  <2>2. \A w \in Busy' : Steady(New(w).res)' => Steady(New(w).res)
    BY <1>1, <1>2 DEF New
  <2> QED BY <1>2, <2>1, <2>2 DEF Alive, New
<1>8. OneContent'
  <2>1. \A x \in Copies' : Steady(x.res)' => known'[x.res] = known[x.res]
    BY <1>6, CopiesType DEF TypeInv
  <2> QED BY <1>6, <2>1 DEF OneContent
<1>9. AdditionsFirst'
  <2> SUFFICES ASSUME NEW a \in PendingItems', a.old = None, Steady(a.new.res)',
                      NEW x \in Reported' \cup c' \cup flushing',
                      x.res = a.new.res
               PROVE  x.rv >= a.new.rv
    BY DEF AdditionsFirst
  <2>1. a.new.res # gone /\ Steady(a.new.res)
    BY <1>1
  <2>2. a \in PendingItems
    BY <2>1
  <2>3. x \in Reported \cup c \cup flushing
    BY <1>3, <2>1
  <2> QED BY <2>1, <2>2, <2>3 DEF AdditionsFirst
<1>10. CachesBefore'
  <2>1. ASSUME NEW res \in Resources, latestCache'[res] # None
        PROVE  latestCache'[res].res = res /\ Named(latestCache[res])'
    <3>1. CASE latestCache'[res] = latestCache[res]
      BY <2>1, <3>1 DEF CachesBefore
    <3> QED BY <3>1
  <2>2. ASSUME NEW a \in PendingItems', a.old = None, Steady(a.new.res)'
        PROVE  /\ latestCache'[a.new.res] # None =>
                     Before(a.new.res, a.new.rv, latestCache[a.new.res].content)'
               /\ \A x \in Of(a.new.res, m)' : x.content # Lazy =>
                     Before(a.new.res, a.new.rv, x.content)'
    <3>1. a.new.res # gone /\ Steady(a.new.res)
      BY <1>1, <2>2
    <3>2. a \in PendingItems
      BY <3>1
    <3>3. a.new.res \in Resources
      BY <3>2, PendingType DEF TypeInv, Objects
    <3>4. Of(a.new.res, m)' = Of(a.new.res, m)
      BY <3>1 DEF Of
    <3> QED BY <1>5, <2>2, <3>1, <3>2, <3>3, <3>4 DEF CachesBefore
  <2> QED BY <2>1, <2>2 DEF CachesBefore
<1>11. ComparesBefore'
  <2> SUFFICES ASSUME NEW w \in Busy' PROVE Compares(hand[w])'
    BY <1>2 DEF ComparesBefore
  <2>1. Compares(hand[w])
    BY <1>2 DEF ComparesBefore
  <2>2. \A t : Compares(t) => Compares(t)'
    BY <1>1, <1>5 DEF Compares
  <2> QED BY <1>2, <2>1, <2>2
<1>12. Capturing'
  <2> SUFFICES ASSUME NEW res \in listed', Steady(res)', res \notin filtered',
                      known'[res] # None
               PROVE  Captured(res)'
    BY DEF Capturing
  <2>1. res # gone /\ res \in listed /\ Steady(res)
    BY <1>1
  <2>2. res \in Resources
    BY <2>1 DEF Steady, TypeInv, TypeOK
  <2>3. Captured(res)
    BY <2>1, <2>2 DEF Capturing
  <2>4. \A p : p \in Coming(res)' <=> p \in Coming(res)
    <3>1. \A item : Matters(item)' <=> Matters(item)
      BY DEF Matters
    <3> QED BY <2>1, <3>1 DEF Coming, Of
  <2> QED BY <2>1, <2>2, <2>3, <2>4 DEF Captured
<1> QED BY <1>7, <1>8, <1>9, <1>10, <1>11, <1>12

-----------------------------------------------------------------------------
(* The informers.                                                          *)

LEMMA PendingAppend ==
    ASSUME TypeOK, NEW item \in Items, queue' = Append(queue, item), hand' = hand
    PROVE  PendingItems' = PendingItems \cup {item}
<1>1. queue \in Seq(Items)
  BY DEF TypeOK
<1>2. {queue'[i] : i \in DOMAIN queue'} = {queue[i] : i \in DOMAIN queue} \cup {item}
  BY <1>1, AppendProperties, LenProperties
<1> QED BY <1>2 DEF PendingItems, Busy

(* An object that is steady is reported as it is now.                      *)
LEMMA ReportCapture ==
    ASSUME TypeInv, SafeInv, CaptureInv,
           NEW res \in Resources, Steady(res), NEW item \in Items,
           item.new.res = res,
           PendingItems' = PendingItems \cup {item},
           UNCHANGED <<handled, recreated, filtered, phase, hand, c, flushing,
                       archive, m, latestCache>>,
           listed' \in {listed, listed \cup {res}},
           \A r \in Resources : r # res => known'[r] = known[r],
           known'[res] = item.new, item.new # None,
           item.old # None => \/ item.old.rv < item.new.rv
                              \/ item.old = item.new,
           \A y \in Copies : y.res = res =>
              /\ y.rv <= item.new.rv
              /\ y.rv = item.new.rv => y.content = item.new.content,
           item.old = None =>
              /\ \A y \in Reported \cup c \cup flushing : y.res # res
              /\ latestCache[res] = None
              /\ Of(res, m) = {},
           ~Matters(item) => /\ res \in listed /\ known[res] # None
                             /\ known[res].content = item.new.content
    PROVE  CaptureInv'
<1> USE DEF CaptureInv
<1>1. \A r : Steady(r)' <=> Steady(r)
  BY DEF Steady
<1>2. Reported' = Reported \cup {item.new} /\ Copies' = Copies \cup {item.new}
  BY DEF Reported, Copies
<1>3. Busy' = Busy /\ \A r, rv, x : Before(r, rv, x)' <=> Before(r, rv, x)
  BY DEF Busy, Before
<1>4. \A u : Named(u)' <=> Named(u)
  BY DEF Named
<1>5. item.new.rv \in Int /\ \A y \in Copies : y.rv \in Int /\ y.res \in Resources
  BY CopiesType DEF TypeInv, Items, Objects
<1>6. Alive'
  BY <1>1, <1>3 DEF Alive, New
<1>7. OneContent'
  <2>1. ASSUME NEW x \in Copies', NEW y \in Copies', Steady(x.res),
               x.res = y.res, x.rv = y.rv
        PROVE  x.content = y.content
    BY <1>2, <2>1 DEF OneContent
  <2>2. ASSUME NEW x \in Copies', Steady(x.res)
        PROVE  /\ x.rv <= known'[x.res].rv
               /\ x.rv = known'[x.res].rv => x.content = known'[x.res].content
    <3>1. CASE x.res = res
      BY <1>2, <1>5, <3>1
    <3>2. CASE x.res # res
      BY <1>2, <1>5, <2>2, <3>2 DEF OneContent
    <3> QED BY <3>1, <3>2
  <2> QED BY <1>1, <2>1, <2>2 DEF OneContent
<1>8. Ordered'
  BY DEF Ordered
<1>9. AdditionsFirst'
  <2> SUFFICES ASSUME NEW a \in PendingItems', a.old = None, Steady(a.new.res),
                      NEW x \in Reported' \cup c \cup flushing,
                      x.res = a.new.res
               PROVE  x.rv >= a.new.rv
    BY <1>1 DEF AdditionsFirst
  <2>1. a \in PendingItems => a.new \in Copies
    BY DEF Copies, Reported
  <2>2. CASE x \in Reported \cup c \cup flushing /\ a \in PendingItems
    BY <2>2 DEF AdditionsFirst
  <2>3. CASE x = item.new /\ a \in PendingItems
    BY <1>5, <2>1, <2>3
  <2>4. CASE a = item
    BY <1>2, <1>5, <2>4
  <2> QED BY <1>2, <2>2, <2>3, <2>4
<1>10. CachesBefore'
  <2>1. ASSUME NEW a \in PendingItems', a.old = None, Steady(a.new.res)
        PROVE  /\ latestCache[a.new.res] # None =>
                     Before(a.new.res, a.new.rv, latestCache[a.new.res].content)
               /\ \A x \in Of(a.new.res, m) : x.content # Lazy =>
                     Before(a.new.res, a.new.rv, x.content)
    BY <2>1 DEF CachesBefore
  <2>2. Of(res, m)' = Of(res, m) /\ \A r : Of(r, m)' = Of(r, m)
    BY DEF Of
  <2> QED BY <1>1, <1>3, <1>4, <2>1, <2>2 DEF CachesBefore
<1>11. ComparesBefore'
  <2>1. \A t : Compares(t)' <=> Compares(t)
    BY <1>1, <1>3, <1>4 DEF Compares
  <2> QED BY <1>3, <2>1 DEF ComparesBefore
<1>12. Capturing'
  <2> SUFFICES ASSUME NEW r \in listed', Steady(r), r \notin filtered,
                      known'[r] # None
               PROVE  Captured(r)'
    BY <1>1 DEF Capturing
  <2>1. \A i : Matters(i)' <=> Matters(i)
    BY DEF Matters
  <2>2. Coming(r)' = Coming(r) \cup (IF r = res /\ Matters(item) THEN {item.new}
                                     ELSE {})
    BY <2>1 DEF Coming, Of
  <2>3. r \in Resources
    BY DEF Steady, TypeInv, TypeOK
  <2>4. CASE r # res
    <3>1. Captured(r)
      BY <2>3, <2>4 DEF Capturing
    <3> QED BY <2>2, <2>3, <2>4, <3>1 DEF Captured
  <2>5. CASE r = res /\ Matters(item)
    <3>1. \A q \in Coming(r)' : q.rv <= item.new.rv
      BY <1>5, <2>2, <2>5, ComingAreCopies DEF TypeInv
    <3> QED BY <2>2, <2>5, <3>1 DEF Captured
  <2>6. CASE r = res /\ ~Matters(item)
    <3>1. Captured(r)
      BY <2>6 DEF Capturing
    <3> QED BY <2>2, <2>6, <3>1 DEF Captured
  <2> QED BY <2>4, <2>5, <2>6
<1> QED BY <1>6, <1>7, <1>8, <1>9, <1>10, <1>11, <1>12

(* An object that nobody has listed yet gets a new version.                *)
LEMMA UnlistedCapture ==
    ASSUME TypeInv, SafeInv, CaptureInv, NEW res \in Resources, res \notin listed,
           UNCHANGED <<handled, listed, queue, recreated, filtered, phase, hand,
                       c, flushing, archive, m, latestCache>>,
           \A r \in Resources : r # res => known'[r] = known[r],
           known'[res].rv \in Int,
           \A y \in Copies : y.res = res => y.rv < known'[res].rv
    PROVE  CaptureInv'
<1> USE DEF CaptureInv
<1>1. Busy' = Busy /\ PendingItems' = PendingItems
  BY DEF PendingItems, Busy
<1>2. Reported' = Reported /\ Copies' = Copies
  BY <1>1 DEF Reported, Copies
<1>3. \A y \in Copies : y.rv \in Int /\ y.res \in Resources
  BY CopiesType DEF TypeInv
<1>4. Alive' /\ Ordered' /\ AdditionsFirst'
  BY <1>1, <1>2 DEF Alive, New, Steady, Ordered, AdditionsFirst
<1>5. OneContent'
  <2>1. \A x \in Copies : Steady(x.res) =>
            /\ x.rv <= known'[x.res].rv
            /\ x.rv = known'[x.res].rv => x.content = known'[x.res].content
    BY <1>3 DEF OneContent
  <2> QED BY <1>2, <2>1 DEF OneContent, Steady
<1>6. CachesBefore'
  BY <1>1, SameCaches
<1>7. ComparesBefore'
  <2>1. \A t : Compares(t)' <=> Compares(t)
    BY DEF Compares, Before, Named, Steady
  <2> QED BY <1>1, <2>1 DEF ComparesBefore
<1>8. Capturing'
  <2>1. \A r : Coming(r)' = Coming(r)
    BY <1>1 DEF Coming, Of, Matters
  <2>2. listed \subseteq Resources
    BY DEF TypeInv, TypeOK
  <2> QED BY <2>1, <2>2 DEF Capturing, Captured, Steady
<1> QED BY <1>4, <1>5, <1>6, <1>7, <1>8

LEMMA InformerCapture == TypeInv /\ SafeInv /\ CaptureInv /\ InformerStep => CaptureInv'
<1> SUFFICES ASSUME TypeInv, SafeInv, CaptureInv, NEW res \in handled,
                    \/ \E x \in Contents : Appear(res, x) \/ Change(res, x)
                    \/ \E final \in FinalRV : Vanish(res, final)
                    \/ Resync(res)
             PROVE  CaptureInv'
  BY DEF InformerStep
<1> USE DEF TypeInv
<1>1. /\ res \in Resources /\ known[res] \in Objects \cup {None}
      /\ lastRV \in Nat /\ MaxRV \in Nat
      /\ known \in [Resources -> Objects \cup {None}]
      /\ queue \in Seq(Items)
  BY BoundsAssumption DEF TypeOK
<1>2. ASSUME NEW item \in Items, Report(item), hand' = hand
      PROVE  /\ item.new.res \in listed => PendingItems' = PendingItems \cup {item}
             /\ item.new.res \notin listed =>
                   PendingItems' = PendingItems /\ queue' = queue
  <2>1. CASE item.new.res \in listed
    BY <1>2, <2>1, PendingAppend DEF Report
  <2>2. CASE item.new.res \notin listed
    BY <1>2, <2>2 DEF Report, PendingItems, Busy
  <2> QED BY <2>1, <2>2
<1>3. \A y \in Copies : y.res = res => y.rv \in Int /\ y.rv <= lastRV
  BY CopiesIssued, CopiesType DEF GivenOut
<1>4. ASSUME ~Steady(res)', NEW item \in Items, item.new.res = res, Report(item),
             item.old # None => item.old.rv < item.new.rv \/ item.old = item.new,
             recreated' \in {recreated, recreated \cup {res}},
             \A r \in Resources : r # res => known'[r] = known[r],
             UNCHANGED <<configVars, listed, syncVars, hand, flushVars,
                         storeVars, filtered>>
      PROVE  CaptureInv'
  <2>1. UNCHANGED <<handled, listed, phase, hand, c, flushing, archive, m,
                    latestCache, filtered>>
    BY <1>4 DEF configVars, syncVars, flushVars, storeVars, readerVars
  <2>2. PendingItems' \in {PendingItems, PendingItems \cup {item}}
    BY <1>2, <1>4
  <2>3. Ordered'
    BY <1>4, <2>2 DEF CaptureInv, Ordered
  <2>4. \A i : i.new.res # res => (i \in PendingItems' <=> i \in PendingItems)
    BY <1>4, <2>2
  <2>5. \A u : Named(u) => Named(u)'
    BY <2>1 DEF Named
  <2>6. FlushCache!OnePerKey(flushing')
    BY <2>1 DEF CaptureInv
  <2>7. phase' \in {"down", "list", "walk"} =>
              m' = {} /\ latestCache' = [r \in Resources |-> None]
    BY <2>1 DEF CaptureInv, CachesBefore
  <2> HIDE DEF TypeInv
  <2> QED BY <1>1, <1>4, <2>1, <2>3, <2>4, <2>5, <2>6, <2>7, OthersCapture
<1>5. ASSUME NEW x \in Contents, Appear(res, x) \/ Change(res, x)
      PROVE  CaptureInv'
  <2> DEFINE u == [res |-> res, rv |-> lastRV + 1, content |-> x]
             item == [old |-> known[res], new |-> u]
  <2>1. /\ lastRV < MaxRV /\ known' = [known EXCEPT ![res] = u] /\ Report(item)
        /\ UNCHANGED <<configVars, listed, syncVars, hand, flushVars,
                       storeVars, historyVars>>
    BY <1>5 DEF Appear, Change
  <2>2. u \in Objects
    BY <1>1, <2>1 DEF Objects
  <2>3. item \in Items /\ item.new = u /\ item.old = known[res]
    BY <1>1, <2>2 DEF Items
  <2>4. /\ u.res = res /\ u.rv = lastRV + 1 /\ u # None
        /\ known'[res] = u
        /\ \A r \in Resources : r # res => known'[r] = known[r]
    BY <1>1, <2>1, <2>2, NoneAssumption
  <2>5. known[res] # None => known[res].rv <= lastRV /\ known[res].rv \in Int
    BY <1>1 DEF SafeInv, Watched, Objects
  <2>6. UNCHANGED <<handled, listed, recreated, filtered, phase, hand, c,
                    flushing, archive, m, latestCache>>
    BY <2>1 DEF configVars, syncVars, flushVars, storeVars, readerVars, historyVars
  <2> HIDE DEF u, item
  <2>7. CASE ~Steady(res)
    <3>1. ~Steady(res)'
      BY <2>6, <2>7 DEF Steady
    <3>2. item.old # None => item.old.rv < item.new.rv
      BY <1>1, <2>3, <2>4, <2>5
    <3> QED BY <1>4, <2>1, <2>3, <2>4, <2>6, <3>1, <3>2
  <2>8. CASE Steady(res) /\ res \notin listed
    <3>1. queue' = queue
      BY <1>2, <2>1, <2>3, <2>4, <2>8
    <3>2. \A y \in Copies : y.res = res => y.rv < known'[res].rv
      BY <1>1, <1>3, <2>4
    <3>3. known'[res].rv \in Int
      BY <1>1, <2>4
    <3> HIDE DEF TypeInv
    <3> QED BY <1>1, <2>4, <2>6, <2>8, <3>1, <3>2, <3>3, UnlistedCapture
  <2>9. CASE Steady(res) /\ res \in listed
    <3>1. PendingItems' = PendingItems \cup {item}
      BY <1>2, <2>1, <2>3, <2>4, <2>6, <2>9
    <3>2. item.old # None => item.old.rv < item.new.rv
      BY <1>1, <2>3, <2>4, <2>5
    <3>3. \A y \in Copies : y.res = res =>
              /\ y.rv <= item.new.rv
              /\ y.rv = item.new.rv => y.content = item.new.content
      BY <1>1, <1>3, <2>3, <2>4
    <3>4. item.old = None =>
              /\ \A y \in Reported \cup c \cup flushing : y.res # res
              /\ latestCache[res] = None
              /\ Of(res, m) = {}
      <4> SUFFICES ASSUME item.old = None
                   PROVE  /\ \A y \in Reported \cup c \cup flushing : y.res # res
                          /\ latestCache[res] = None
                          /\ Of(res, m) = {}
        OBVIOUS
      <4>1. \A y \in Copies : y.res # res
        BY <2>3, <2>9, SteadyIsKnown
      <4>2. latestCache[res] = None
        BY <1>1, <4>1 DEF CaptureInv, CachesBefore, Named, Copies
      <4>3. Of(res, m) = {}
        BY <4>1 DEF SafeInv, ReaderNamesBlobs, Of, Copies
      <4> QED BY <4>1, <4>2, <4>3 DEF Copies
    <3>5. ~Matters(item) => /\ res \in listed /\ known[res] # None
                            /\ known[res].content = item.new.content
      BY <2>3, <2>9 DEF Matters
    <3> HIDE DEF TypeInv
    <3> QED BY <1>1, <2>3, <2>4, <2>6, <2>9, <3>1, <3>2, <3>3, <3>4, <3>5,
               ReportCapture
  <2> QED BY <2>7, <2>8, <2>9
<1>6. ASSUME NEW final \in FinalRV, Vanish(res, final) PROVE CaptureInv'
  <2> DEFINE u == IF final = "fresh" THEN [known[res] EXCEPT !.rv = lastRV + 1]
                  ELSE known[res]
             item == [old |-> None, new |-> u]
  <2>1. /\ lastRV < MaxRV /\ known[res] # None
        /\ known' = [known EXCEPT ![res] = None] /\ Report(item)
        /\ recreated' = recreated \cup {res}
        /\ UNCHANGED <<configVars, listed, syncVars, hand, flushVars,
                       storeVars, filtered>>
    BY <1>6 DEF Vanish
  <2>2. u \in Objects /\ u.res = res
    BY <1>1, <2>1 DEF Objects, SafeInv, Watched
  <2>3. item \in Items /\ item.new = u /\ item.old = None
    BY <2>2 DEF Items
  <2>4. ~Steady(res)'
    BY <2>1 DEF Steady
  <2>5. \A r \in Resources : r # res => known'[r] = known[r]
    BY <1>1, <2>1
  <2> HIDE DEF u, item
  <2> QED BY <1>4, <2>1, <2>2, <2>3, <2>4, <2>5
<1>7. CASE Resync(res)
  <2> DEFINE item == [old |-> known[res], new |-> known[res]]
  <2>1. /\ res \in listed /\ known[res] # None /\ Report(item)
        /\ UNCHANGED <<configVars, known, listed, lastRV, syncVars, hand,
                       flushVars, storeVars, historyVars>>
    BY <1>7 DEF Resync, Exists
  <2>2. item \in Items /\ item.new = known[res] /\ item.old = known[res]
        /\ known[res].res = res
    BY <1>1, <2>1 DEF Items, SafeInv, Watched
  <2>3. UNCHANGED <<handled, listed, recreated, filtered, phase, hand, c,
                    flushing, archive, m, latestCache>>
    BY <2>1 DEF configVars, syncVars, flushVars, storeVars, readerVars, historyVars
  <2> HIDE DEF item
  <2>4. CASE ~Steady(res)
    <3>1. ~Steady(res)'
      BY <2>3, <2>4 DEF Steady
    <3> QED BY <1>4, <2>1, <2>2, <2>3, <3>1
  <2>5. CASE Steady(res)
    <3>1. PendingItems' = PendingItems \cup {item}
      BY <1>2, <2>1, <2>2, <2>3
    <3>2. \A y \in Copies : y.res = res =>
              /\ y.rv <= item.new.rv
              /\ y.rv = item.new.rv => y.content = item.new.content
      BY <2>2, <2>5 DEF CaptureInv, OneContent
    <3> HIDE DEF TypeInv
    <3> QED BY <1>1, <2>1, <2>2, <2>3, <2>5, <3>1, <3>2, ReportCapture
  <2> QED BY <2>4, <2>5
<1> QED BY <1>5, <1>6, <1>7

-----------------------------------------------------------------------------
(* The start.                                                              *)

(* Run() goes on, and the reader gets nothing but keys.                    *)
LEMMA PhaseCapture ==
    ASSUME TypeInv, SafeInv, CaptureInv,
           UNCHANGED <<handled, known, queue, hand, c, flushing, archive,
                       recreated, filtered, latestCache>>,
           listed \subseteq listed',
           \A res \in listed' \ listed : known[res] = None,
           phase' \in {"down", "list", "walk"} =>
              m' = {} /\ latestCache' = [res \in Resources |-> None],
           \A x \in m' : x \in m \/ x.content = Lazy
    PROVE  CaptureInv'
<1> USE DEF CaptureInv
<1>1. Busy' = Busy /\ PendingItems' = PendingItems
  BY DEF PendingItems, Busy
<1>2. Reported' = Reported /\ Copies' = Copies
  BY <1>1 DEF Reported, Copies
<1>3. /\ \A res, rv, x : Before(res, rv, x)' <=> Before(res, rv, x)
      /\ \A u : Named(u)' <=> Named(u)
      /\ \A res : Steady(res)' <=> Steady(res)
  BY DEF Before, Named, Steady
<1>4. Alive' /\ Ordered' /\ AdditionsFirst' /\ OneContent'
  BY <1>1, <1>2, <1>3 DEF Alive, New, Ordered, AdditionsFirst, OneContent
<1>5. CachesBefore'
  <2>1. \A res : \A x \in Of(res, m)' : x \in Of(res, m) \/ x.content = Lazy
    BY DEF Of
  <2> QED BY <1>1, <1>3, <2>1 DEF CachesBefore
<1>6. ComparesBefore'
  <2>1. \A t : Compares(t)' <=> Compares(t)
    BY <1>3 DEF Compares
  <2> QED BY <1>1, <2>1 DEF ComparesBefore
<1>7. Capturing'
  <2>1. \A res : Coming(res)' = Coming(res)
    BY <1>1 DEF Coming, Of, Matters
  <2> QED BY <1>3, <2>1 DEF Capturing, Captured
<1> QED BY <1>4, <1>5, <1>6, <1>7

LEMMA StartCapture == TypeInv /\ SafeInv /\ CaptureInv /\ StartStep => CaptureInv'
<1> SUFFICES ASSUME TypeInv, SafeInv, CaptureInv, StartStep PROVE CaptureInv'
  OBVIOUS
<1>1. phase \in {"down", "list", "walk"} =>
         m = {} /\ latestCache = [res \in Resources |-> None]
  BY DEF CaptureInv, CachesBefore
<1>2. CASE Start \/ WaitForCacheSync \/ StartWorkers
           \/ (\E rev \in unsynced : SyncVisit(rev))
  <2>1. /\ UNCHANGED <<handled, known, listed, queue, hand, c, flushing,
                       archive, recreated, filtered, m, latestCache>>
        /\ phase' = "run" \/ phase \in {"down", "list", "walk"}
    BY <1>2 DEF Start, WaitForCacheSync, StartWorkers, SyncVisit, configVars,
                informerVars, flushVars, storeVars, readerVars, historyVars
  <2> QED BY <1>1, <2>1, PhaseCapture
<1>3. ASSUME NEW res \in handled \ listed, ListObject(res) PROVE CaptureInv'
  <2>1. /\ UNCHANGED <<handled, known, hand, c, flushing, archive, recreated,
                       filtered, m, latestCache, phase>>
        /\ phase = "list" /\ listed' = listed \cup {res}
    BY <1>3 DEF ListObject, configVars, syncVars, flushVars, storeVars,
                readerVars, historyVars
  <2>2. res \in Resources /\ known[res] \in Objects \cup {None}
    BY DEF TypeInv, TypeOK
  <2>3. CASE known[res] = None
    <3>1. queue' = queue
      BY <1>3, <2>3 DEF ListObject
    <3> QED BY <1>1, <2>1, <2>3, <3>1, PhaseCapture
  <2>4. CASE known[res] # None
    <3> DEFINE item == [old |-> None, new |-> known[res]]
    <3>1. item \in Items /\ item.old = None /\ item.new = known[res]
          /\ item.new.res = res
      BY <2>2, <2>4 DEF Items, SafeInv, Watched
    <3>2. queue' = Append(queue, item)
      BY <1>3, <2>4 DEF ListObject
    <3> HIDE DEF item
    <3>3. PendingItems' = PendingItems \cup {item}
      BY <2>1, <3>1, <3>2, PendingAppend DEF TypeInv
    <3>4. CASE ~Steady(res)
      <4>1. ~Steady(res)'
        BY <2>1, <3>4 DEF Steady
      <4>2. Ordered'
        BY <3>1, <3>3 DEF CaptureInv, Ordered
      <4>3. \A i : i.new.res # res => (i \in PendingItems' <=> i \in PendingItems)
        BY <3>1, <3>3
      <4>4. \A u : Named(u) => Named(u)'
        BY <2>1 DEF Named
      <4>5. FlushCache!OnePerKey(flushing')
        BY <2>1 DEF CaptureInv
      <4> QED BY <1>1, <2>1, <2>2, <4>1, <4>2, <4>3, <4>4, <4>5, OthersCapture
    <3>5. CASE Steady(res)
      <4>1. \A y \in Copies : y.res = res =>
                /\ y.rv <= item.new.rv
                /\ y.rv = item.new.rv => y.content = item.new.content
        BY <3>1, <3>5 DEF CaptureInv, OneContent
      <4>2. \A y \in Reported \cup c \cup flushing : y.res # res
        <5>1. c = {} /\ flushing = {} /\ Busy = {}
          BY <2>1 DEF SafeInv, Started, Busy
        <5>2. \A item_1 \in PendingItems : item_1.new.res \in listed
          BY <5>1 DEF PendingItems, SafeInv, Watched
        <5> QED BY <1>3, <5>1, <5>2 DEF Reported
      <4>3. latestCache[res] = None /\ Of(res, m) = {}
        BY <1>1, <2>1, <2>2 DEF Of
      <4>4. Matters(item)
        BY <3>1 DEF Matters
      <4> QED BY <2>1, <2>2, <2>4, <3>1, <3>3, <3>5, <4>1, <4>2, <4>3, <4>4,
                 ReportCapture
    <3> QED BY <3>4, <3>5
  <2> QED BY <2>3, <2>4
<1>4. CASE SyncWalked
  <2>1. /\ UNCHANGED <<handled, known, listed, queue, hand, c, flushing,
                       archive, recreated, filtered, latestCache>>
        /\ phase' = "delete"
    BY <1>4 DEF SyncWalked, configVars, informerVars, flushVars, historyVars
  <2>2. \A x \in m' : x.content = Lazy
    <3>1. \A x \in m' : \E r \in archive : x = [r EXCEPT !.content = Lazy]
      BY <1>4 DEF SyncWalked
    <3>2. \A r \in archive : [r EXCEPT !.content = Lazy].content = Lazy
      <4>1. \A r \in archive : r \in Revs
        BY DEF TypeInv, TypeOK
      <4> QED BY <4>1, ContentOnly
    <3> QED BY <3>1, <3>2
  <2> QED BY <2>1, <2>2, PhaseCapture
<1>5. ASSUME NEW rev \in toDelete, SyncDelete(rev) PROVE CaptureInv'
  <2> DEFINE tombstone == [rev EXCEPT !.deleted = TRUE]
  <2>1. /\ UNCHANGED <<handled, known, listed, queue, hand, flushing, archive,
                       recreated, filtered, latestCache, phase>>
        /\ phase = "delete"
        /\ m' = {IF r = rev THEN tombstone ELSE r : r \in m}
        /\ c' = FlushCache!Cache(c, tombstone)
    BY <1>5 DEF SyncDelete, configVars, informerVars, historyVars
  <2>2. rev.res \in Resources /\ tombstone.res = rev.res
    <3>1. rev \in Revs
      BY DEF TypeInv, TypeOK
    <3> QED BY <3>1, TombstoneOnly DEF Revs
  <2> HIDE DEF tombstone
  <2>3. ~Steady(rev.res)'
    BY <2>1 DEF Steady, SafeInv, Stale
  <2>4. \A x : x.res # rev.res => /\ x \in m' <=> x \in m
                                  /\ x \in c' <=> x \in c
    BY <2>1, <2>2 DEF FlushCache!Cache, ResourceKey
  <2>5. PendingItems' = PendingItems
    BY <2>1 DEF PendingItems, Busy
  <2>6. Ordered' /\ FlushCache!OnePerKey(flushing')
    BY <2>1, <2>5 DEF CaptureInv, Ordered
  <2>7. \A u : Named(u) => Named(u)'
    BY <2>1 DEF Named
  <2> QED BY <2>1, <2>2, <2>3, <2>4, <2>5, <2>6, <2>7, OthersCapture
<1> QED BY <1>2, <1>3, <1>4, <1>5 DEF StartStep

-----------------------------------------------------------------------------
(* The workers.                                                            *)

(* The reports of a queue are its first and those of the rest.             *)
LEMMA QueueTail ==
    ASSUME NEW q \in Seq(Items), q # <<>>
    PROVE  {q[i] : i \in DOMAIN q} = {Tail(q)[i] : i \in DOMAIN Tail(q)} \cup {Head(q)}
<1>1. /\ DOMAIN q = 1..Len(q) /\ Len(q) \in Nat /\ Len(q) # 0 /\ Head(q) = q[1]
      /\ DOMAIN Tail(q) = 1..(Len(q) - 1)
      /\ \A i \in 1..(Len(q) - 1) : Tail(q)[i] = q[i + 1]
  BY HeadTailProperties, LenProperties, EmptySeq
<1>2. ASSUME NEW i \in DOMAIN q
      PROVE  q[i] \in {Tail(q)[j] : j \in DOMAIN Tail(q)} \cup {Head(q)}
  <2>1. CASE i = 1
    BY <1>1, <2>1
  <2>2. CASE i # 1
    <3>1. i - 1 \in DOMAIN Tail(q) /\ Tail(q)[i - 1] = q[i]
      BY <1>1, <2>2
    <3> QED BY <3>1
  <2> QED BY <2>1, <2>2
<1>3. \A j \in DOMAIN Tail(q) : Tail(q)[j] \in {q[i] : i \in DOMAIN q}
  <2>1. \A j \in DOMAIN Tail(q) : j + 1 \in DOMAIN q
    BY <1>1
  <2> QED BY <1>1, <2>1
<1>4. Head(q) \in {q[i] : i \in DOMAIN q}
  BY <1>1
<1> QED BY <1>2, <1>3, <1>4

LEMMA TakeCapture ==
    TypeInv /\ SafeInv /\ CaptureInv /\ (\E w \in Workers : Take(w)) => CaptureInv'
<1> SUFFICES ASSUME TypeInv, SafeInv, CaptureInv, NEW w \in Workers, Take(w)
             PROVE  CaptureInv'
  OBVIOUS
<1> USE DEF CaptureInv
<1> DEFINE task == [item |-> Head(queue), old |-> Head(queue).old,
                    found |-> None, at |-> "taken"]
<1>1. /\ UNCHANGED <<handled, known, listed, phase, c, flushing, archive, m,
                     latestCache, recreated, filtered>>
      /\ queue # <<>> /\ queue' = Tail(queue) /\ hand[w] = None
      /\ hand' = [hand EXCEPT ![w] = task]
      /\ Head(queue).new.content # Lazy
  BY SelectedAssumption, LazyAssumption
  DEF Take, CanTake, configVars, syncVars, flushVars, storeVars, readerVars,
      historyVars
<1>2. queue \in Seq(Items) /\ hand \in [Workers -> Tasks \cup {None}]
  BY DEF TypeInv, TypeOK
<1>3. task \in Tasks
  <2>1. Head(queue) \in Items
    BY <1>1, <1>2, ItemOfHead
  <2> QED BY <2>1 DEF Tasks, Items
<1>4. task.item = Head(queue) /\ task.old = Head(queue).old /\ task.at = "taken"
      /\ task # None
  BY <1>3, NoneAssumption
<1> HIDE DEF task
<1>5. /\ Busy' = Busy \cup {w} /\ w \notin Busy /\ hand'[w] = task
      /\ \A v \in Busy : hand'[v] = hand[v]
  BY <1>1, <1>2, <1>4 DEF Busy
<1>6. PendingItems' = PendingItems
  <2>1. {queue[i] : i \in DOMAIN queue}
        = {queue'[i] : i \in DOMAIN queue'} \cup {Head(queue)}
    BY <1>1, <1>2, QueueTail
  <2>2. {hand'[v].item : v \in Busy'} = {hand[v].item : v \in Busy} \cup {Head(queue)}
    BY <1>4, <1>5
  <2> QED BY <2>1, <2>2 DEF PendingItems
<1>7. CopiesInv'
  BY <1>1, <1>6, SameCopies DEF CopiesInv
<1>8. CachesBefore'
  BY <1>1, <1>6, SameCaches
<1>9. Alive'
  BY <1>1, <1>4, <1>5 DEF Alive, Steady, New
<1>10. ComparesBefore'
  <2>1. \A t : Compares(t)' <=> Compares(t)
    BY <1>1 DEF Compares, Before, Named, Steady
  <2>2. Compares(task)
    BY <1>1, <1>4 DEF Compares
  <2> QED BY <1>5, <2>1, <2>2 DEF ComparesBefore
<1> QED BY <1>7, <1>8, <1>9, <1>10 DEF CopiesInv

(* Copies that were there before have one content.                         *)
LEMMA OldContent ==
    ASSUME OneContent, UNCHANGED <<handled, known, recreated>>,
           \A x \in Copies' : \E y \in Copies :
              y.res = x.res /\ y.rv = x.rv /\ y.content = x.content
    PROVE  OneContent'
BY DEF OneContent, Steady

(* If what is coming is replaced by what is not older, the newest of it    *)
(* remains.                                                                *)
LEMMA CoveredCapture ==
    ASSUME TypeOK, OneContent, NEW res, Steady(res), Captured(res), known' = known,
           \A p \in Coming(res) : \E q \in Coming(res)' : q.rv >= p.rv,
           \A q \in Coming(res)' : \E p \in Coming(res) :
              p.rv = q.rv /\ p.content = q.content
    PROVE  Captured(res)'
<1>1. PICK p \in Coming(res) : /\ p.content = known[res].content
                               /\ \A q \in Coming(res) : q.rv <= p.rv
  BY DEF Captured
<1>2. PICK q \in Coming(res)' : q.rv >= p.rv
  BY <1>1
<1>3. PICK s \in Coming(res) : s.rv = q.rv /\ s.content = q.content
  BY <1>2
<1>4. p.rv \in Int /\ s.rv \in Int /\ p \in Copies /\ s \in Copies
      /\ p.res = res /\ s.res = res
  BY ComingAreCopies
<1>5. s.rv = p.rv
  BY <1>1, <1>2, <1>3, <1>4
<1>6. s.content = p.content
  BY <1>4, <1>5 DEF OneContent
<1>7. \A x \in Coming(res)' : x.rv <= q.rv
  BY <1>1, <1>3, <1>5
<1> QED BY <1>1, <1>2, <1>3, <1>6, <1>7 DEF Captured

(* An item is given up: what is captured has to be shown.                  *)
LEMMA DropCapture ==
    ASSUME TypeInv, SafeInv, CaptureInv,
           PendingItems' \subseteq PendingItems,
           \A w \in Workers : hand'[w] \in {hand[w], None},
           c' \subseteq Revs,
           \A x \in c' : x \in c \/ (/\ ~x.deleted /\ x.content # Lazy
                                     /\ \E y \in Reported : /\ y.res = x.res
                                                            /\ y.rv = x.rv
                                                            /\ y.content = x.content),
           UNCHANGED <<handled, known, listed, phase, flushing, archive, m,
                       latestCache, recreated>>,
           Capturing'
    PROVE  CaptureInv'
<1> USE DEF CaptureInv
<1>1. Reported' \subseteq Reported
  BY DEF Reported
<1>2. \A x \in Copies' : \E y \in Copies :
         y.res = x.res /\ y.rv = x.rv /\ y.content = x.content
  BY <1>1 DEF Copies
<1>3. OneContent'
  BY <1>2, OldContent
<1>4. /\ \A res, rv, x : Before(res, rv, x)' <=> Before(res, rv, x)
      /\ \A u : Named(u)' <=> Named(u)
      /\ \A res : Steady(res)' <=> Steady(res)
  BY DEF Before, Named, Steady
<1>5. Busy' \subseteq Busy /\ \A w \in Busy' : hand'[w] = hand[w]
  BY DEF Busy
<1>6. Alive'
  BY <1>4, <1>5 DEF Alive, New
<1>7. Ordered'
  BY DEF Ordered
<1>8. AdditionsFirst'
  <2>1. \A x \in Reported' \cup c' \cup flushing' :
            \E y \in Reported \cup c \cup flushing : y.res = x.res /\ y.rv = x.rv
    BY <1>1
  <2> QED BY <1>4, <2>1 DEF AdditionsFirst
<1>9. CachesBefore'
  <2>1. \A res : Of(res, m)' = Of(res, m)
    BY DEF Of
  <2> QED BY <1>4, <2>1 DEF CachesBefore
<1>10. ComparesBefore'
  <2>1. \A t : Compares(t)' <=> Compares(t)
    BY <1>4 DEF Compares
  <2> QED BY <1>5, <2>1 DEF ComparesBefore
<1> QED BY <1>3, <1>6, <1>7, <1>8, <1>9, <1>10

LEMMA UnselectedCapture ==
    TypeInv /\ SafeInv /\ CaptureInv /\ (\E w \in Workers : TakeUnselected(w))
    => CaptureInv'
<1> SUFFICES ASSUME TypeInv, SafeInv, CaptureInv, NEW w \in Workers,
                    TakeUnselected(w)
             PROVE  CaptureInv'
  OBVIOUS
<1>1. /\ UNCHANGED <<handled, known, listed, phase, hand, c, flushing, archive,
                     m, latestCache, recreated>>
      /\ queue # <<>> /\ queue' = Tail(queue)
      /\ filtered' = filtered \cup {Head(queue).new.res}
  BY DEF TakeUnselected, CanTake, configVars, syncVars, flushVars, storeVars,
         readerVars
<1>2. queue \in Seq(Items) /\ c \subseteq Revs
  BY DEF TypeInv, TypeOK
<1>3. {queue[i] : i \in DOMAIN queue}
      = {queue'[i] : i \in DOMAIN queue'} \cup {Head(queue)}
  BY <1>1, <1>2, QueueTail
<1>4. PendingItems = PendingItems' \cup {Head(queue)}
      \/ PendingItems = PendingItems'
  BY <1>1, <1>3 DEF PendingItems, Busy
<1>5. Capturing'
  <2> SUFFICES ASSUME NEW res \in listed, Steady(res), res \notin filtered',
                      known[res] # None
               PROVE  Captured(res)'
    BY <1>1 DEF Capturing, Steady
  <2>1. Captured(res) /\ res # Head(queue).new.res
    BY <1>1 DEF CaptureInv, Capturing
  <2>2. Coming(res)' = Coming(res)
    BY <1>1, <1>4, <2>1 DEF Coming, Of, Matters
  <2> QED BY <1>1, <2>1, <2>2 DEF Captured
<1> QED BY <1>1, <1>2, <1>4, <1>5, DropCapture

(* A worker gives up its item.                                             *)
LEMMA HandDrops ==
    ASSUME TypeOK, NEW w \in Workers, hand[w] # None, queue' = queue,
           hand' = [hand EXCEPT ![w] = None]
    PROVE  /\ PendingItems' \subseteq PendingItems
           /\ PendingItems \subseteq PendingItems' \cup {hand[w].item}
           /\ hand[w].item \in PendingItems
           /\ \A v \in Workers : hand'[v] \in {hand[v], None}
<1>1. \A v \in Workers : hand'[v] = IF v = w THEN None ELSE hand[v]
  BY DEF TypeOK
<1>2. Busy' = Busy \ {w} /\ w \in Busy /\ \A v \in Busy' : hand'[v] = hand[v]
  BY <1>1 DEF Busy
<1> QED BY <1>1, <1>2 DEF PendingItems

(* A tombstone or a revision of an object that is not steady.              *)
LEMMA OtherItemCapture ==
    ASSUME TypeInv, SafeInv, CaptureInv, NEW w \in Workers, hand[w] # None,
           ~Steady(New(w).res), NEW rev \in Revs, rev.res = New(w).res,
           c' \in {c, FlushCache!Cache(c, rev)},
           hand' = [hand EXCEPT ![w] = None],
           UNCHANGED <<configVars, informerVars, syncVars, flushing, storeVars,
                       historyVars>>
    PROVE  CaptureInv'
<1>1. UNCHANGED <<handled, known, listed, queue, phase, flushing, archive, m,
                  latestCache, recreated, filtered>>
  BY DEF configVars, informerVars, syncVars, storeVars, readerVars, historyVars
<1>2. /\ PendingItems' \subseteq PendingItems
      /\ PendingItems \subseteq PendingItems' \cup {hand[w].item}
      /\ \A v \in Workers : hand'[v] \in {hand[v], None}
  BY <1>1, HandDrops DEF TypeInv
<1>3. \A i : i.new.res # rev.res => (i \in PendingItems' <=> i \in PendingItems)
  BY <1>2 DEF New
<1>4. \A x : x.res # rev.res => (x \in c' <=> x \in c)
  BY DEF FlushCache!Cache, ResourceKey
<1>5. rev.res \in Resources /\ ~Steady(rev.res)'
  BY <1>1 DEF Revs, Steady
<1>6. Ordered' /\ FlushCache!OnePerKey(flushing')
  BY <1>1, <1>2 DEF CaptureInv, Ordered
<1>7. \A u : Named(u) => Named(u)'
  BY <1>1 DEF Named
<1>8. phase' \in {"down", "list", "walk"} =>
         m' = {} /\ latestCache' = [res \in Resources |-> None]
  BY <1>1 DEF CaptureInv, CachesBefore
<1> QED BY <1>1, <1>2, <1>3, <1>4, <1>5, <1>6, <1>7, <1>8, OthersCapture

(* A worker buries what is gone (controller.go:576-586).                   *)
LEMMA BuryCapture ==
    TypeInv /\ SafeInv /\ CaptureInv /\ (\E w \in Workers : Bury(w)) => CaptureInv'
<1> SUFFICES ASSUME TypeInv, SafeInv, CaptureInv, NEW w \in Workers, Bury(w)
             PROVE  CaptureInv'
  OBVIOUS
<1>1. hand[w] # None /\ ~Steady(New(w).res)
  BY DEF Bury, At, CaptureInv, Alive, Busy
<1> DEFINE rev == RevisionFrom(New(w), TRUE)
<1>2. rev \in Revs /\ rev.res = New(w).res
  BY <1>1, NewType, RevisionFromType DEF TypeInv
<1>3. /\ c' = FlushCache!Cache(c, rev)
      /\ hand' = [hand EXCEPT ![w] = None]
      /\ UNCHANGED <<configVars, informerVars, syncVars, flushing, storeVars,
                     historyVars>>
  BY DEF Bury
<1> HIDE DEF rev
<1> QED BY <1>1, <1>2, <1>3, OtherItemCapture

(* A change is always stored, and an addition unless the archive has it,   *)
(* or has what it would store (controller.go:519-554, 592-603).            *)
LEMMA CompareCapture ==
    TypeInv /\ SafeInv /\ CaptureInv /\ (\E w \in Workers : Compare(w)) => CaptureInv'
<1> SUFFICES ASSUME TypeInv, SafeInv, CaptureInv, NEW w \in Workers, Compare(w),
                    NEW res, res = New(w).res
             PROVE  CaptureInv'
  OBVIOUS
<1> DEFINE rev == RevisionFrom(New(w), FALSE)
           item == hand[w].item
<1>1. hand[w] # None /\ hand[w].at = "compare" /\ w \in Busy
  BY DEF Compare, At, Busy
<1>2. /\ rev \in Revs /\ rev.res = res /\ rev.rv = New(w).rv
      /\ rev.content = New(w).content /\ ~rev.deleted
      /\ item \in Items /\ New(w) = item.new /\ New(w) \in Objects
  BY <1>1, NewType, RevisionFromType DEF TypeInv, New
<1>3. /\ c' = IF different(hand[w].old, New(w)) THEN FlushCache!Cache(c, rev) ELSE c
      /\ hand' = [hand EXCEPT ![w] = None]
      /\ UNCHANGED <<configVars, informerVars, syncVars, flushing, storeVars,
                     historyVars>>
  BY DEF Compare
<1>4. UNCHANGED <<handled, known, listed, queue, phase, flushing, archive, m,
                  latestCache, recreated, filtered>>
  BY <1>3 DEF configVars, informerVars, syncVars, storeVars, readerVars, historyVars
<1> HIDE DEF rev
<1>5. CASE ~Steady(res)
  BY <1>1, <1>2, <1>3, <1>5, OtherItemCapture
<1>6. CASE Steady(res)
  <2>1. /\ PendingItems' \subseteq PendingItems
        /\ PendingItems \subseteq PendingItems' \cup {item}
        /\ item \in PendingItems
        /\ \A v \in Workers : hand'[v] \in {hand[v], None}
    BY <1>1, <1>3, <1>4, HandDrops DEF TypeInv
  <2>2. Compares(hand[w])
    BY <1>1 DEF CaptureInv, ComparesBefore
  <2>3. /\ c' \subseteq c \cup {rev} /\ c \subseteq Revs
        /\ c' # c => different(hand[w].old, New(w)) /\ c' = FlushCache!Cache(c, rev)
    BY <1>2, <1>3, CacheType DEF TypeInv, TypeOK
  <2>4. different(hand[w].old, New(w)) => Matters(item)
    BY <1>1, <1>2, <2>2 DEF different, Matters, Compares
  <2>5. Matters(item) => New(w) \in Coming(res)
    BY <1>2, <2>1, ComingIs
  <2>6. \A i : Matters(i)' <=> Matters(i)
    BY DEF Matters
  <2>7. \A r, p : p \in Coming(r)' <=>
              /\ p.res = r
              /\ \/ p \in archive \cup c' \cup flushing
                 \/ \E i \in PendingItems' : Matters(i) /\ p = i.new
    BY <1>4, <2>6 DEF Coming, Of
  <2>8. ASSUME NEW r \in listed, Steady(r), r \notin filtered, known[r] # None
        PROVE  Captured(r)'
    <3>1. Captured(r)
      BY <2>8 DEF CaptureInv, Capturing
    <3>2. CASE r # res
      <4>1. \A p : p.res = r => (p \in c' <=> p \in c)
        BY <1>2, <1>3, <3>2 DEF FlushCache!Cache, ResourceKey
      <4>2. \A i : i.new.res = r => (i \in PendingItems' <=> i \in PendingItems)
        BY <1>2, <2>1, <3>2
      <4>3. Coming(r)' = Coming(r)
        BY <1>4, <2>6, <4>1, <4>2 DEF Coming, Of
      <4> QED BY <1>4, <3>1, <4>3 DEF Captured
    <3>3. CASE r = res /\ different(hand[w].old, New(w))
      <4>1. c' = FlushCache!Cache(c, rev)
        BY <1>3, <3>3
      <4>2. ASSUME NEW p \in Coming(res) PROVE \E q \in Coming(res)' : q.rv >= p.rv
        <5>1. CASE p \in c \cup {New(w)}
          <6>1. PICK s \in c \cup {rev} : s.res = res /\ s.rv = p.rv
            BY <1>2, <4>2, <5>1, ComingIs
          <6>2. PICK q \in c' : q.res = res /\ q.rv >= p.rv
            BY <1>2, <2>3, <4>1, <6>1, CacheKeepsNewest
          <6> QED BY <2>7, <6>2
        <5>2. CASE p \notin c \cup {New(w)}
          <6>1. p \in Coming(res)'
            BY <1>2, <2>1, <2>7, <4>2, <5>2, ComingIs
          <6>2. p.rv \in Int
            BY <4>2, ComingAreCopies DEF TypeInv
          <6> QED BY <6>1, <6>2
        <5> QED BY <5>1, <5>2
      <4>3. ASSUME NEW q \in Coming(res)'
            PROVE  \E p \in Coming(res) : p.rv = q.rv /\ p.content = q.content
        <5>1. q = rev \/ q \in Coming(res)
          BY <2>1, <2>3, <2>7, <4>3, ComingIs
        <5> QED BY <1>2, <2>4, <2>5, <3>3, <5>1
      <4> QED BY <1>4, <1>6, <3>1, <3>3, <4>2, <4>3, CoveredCapture
              DEF CaptureInv, TypeInv
    <3>4. CASE r = res /\ ~different(hand[w].old, New(w))
      <4>1. c' = c
        BY <1>3, <3>4
      <4>2. Coming(res)' \subseteq Coming(res)
        BY <2>1, <2>7, <4>1, ComingIs
      <4>3. \A p \in Coming(res) : p \in Coming(res)' \/ (p = New(w) /\ Matters(item))
        BY <1>2, <2>1, <2>7, <4>1, ComingIs
      <4>4. PICK p \in Coming(res) : /\ p.content = known[res].content
                                     /\ \A q \in Coming(res) : q.rv <= p.rv
        BY <3>1, <3>4 DEF Captured
      <4>5. CASE p \in Coming(res)'
        BY <1>4, <3>4, <4>2, <4>4, <4>5 DEF Captured
      <4>6. CASE p \notin Coming(res)'
        <5>1. p = New(w) /\ Matters(item)
          BY <4>3, <4>6
        <5>2. item.old = None
          <6> SUFFICES ASSUME item.old # None PROVE FALSE
            OBVIOUS
          <6>1. hand[w].old = item.old /\ item.old.content # item.new.content
            BY <2>2, <5>1 DEF Compares, Matters
          <6>2. item.old.rv < item.new.rv
            BY <2>1, <6>1 DEF CaptureInv, Ordered
          <6>3. item.old \in Objects /\ item.new \in Objects
            BY <1>2 DEF Items
          <6> QED BY <1>2, <3>4, <6>1, <6>2, <6>3 DEF different, Objects
        <5>3. /\ hand[w].old # None /\ hand[w].old.res = res /\ Named(hand[w].old)
              /\ hand[w].old.rv = New(w).rv \/ hand[w].old.content = New(w).content
              /\ Before(res, New(w).rv, hand[w].old.content)
          BY <1>1, <1>2, <1>6, <2>2, <3>4, <5>2 DEF different, Compares
        <5>4. \A q \in Coming(res)' : q.rv = p.rv =>
                  /\ q.content = known[res].content
                  /\ \A x \in Coming(res)' : x.rv <= q.rv
          <6>1. \A q \in Coming(res) : q.rv = p.rv => q.content = p.content
            BY <1>6, ComingAreCopies DEF CaptureInv, OneContent, TypeInv
          <6> QED BY <4>2, <4>4, <6>1
        <5>5. \A q \in Of(res, archive) : q \in Coming(res)' /\ q.rv \in Int
          BY <2>7, ComingIs, ComingAreCopies DEF Of, TypeInv
        <5>6. CASE \E q \in Of(res, archive) : q.rv >= New(w).rv
          <6>1. PICK q \in Of(res, archive) : q.rv >= New(w).rv
            BY <5>6
          <6>2. q \in Coming(res)' /\ q.rv \in Int /\ New(w).rv \in Int
            BY <1>2, <5>5 DEF Objects
          <6>3. q.rv = p.rv
            BY <4>2, <4>4, <5>1, <6>1, <6>2
          <6> QED BY <1>4, <3>4, <5>4, <6>2, <6>3 DEF Captured
        <5>7. CASE ~\E q \in Of(res, archive) : q.rv >= New(w).rv
          <6>1. hand[w].old.content = New(w).content
            BY <1>2, <5>3, <5>7 DEF Named, Of, Objects
          <6>2. /\ Of(res, archive) # {}
                /\ \A q \in Newest(Of(res, archive)) : q.content = New(w).content
            BY <5>3, <5>7, <6>1 DEF Before
          <6>3. CASE \E q \in Coming(res)' : q \notin archive
            <7>1. PICK q \in Coming(res)' : q \notin archive
              BY <6>3
            <7>2. q \in Reported \cup c \cup flushing /\ q.res = res
              BY <4>1, <4>2, <7>1, ComingIs DEF Reported
            <7>3. q.rv >= New(w).rv
              BY <1>2, <1>6, <2>1, <5>2, <7>2 DEF CaptureInv, AdditionsFirst
            <7>4. q.rv \in Int /\ p.rv \in Int
              BY <4>2, <7>1, ComingAreCopies DEF TypeInv
            <7>5. q.rv = p.rv
              BY <4>2, <4>4, <5>1, <7>1, <7>3, <7>4
            <7> QED BY <1>4, <3>4, <5>4, <7>1, <7>5 DEF Captured
          <6>4. CASE ~\E q \in Coming(res)' : q \notin archive
            <7>1. Of(res, archive) \subseteq Revs
              BY DEF Of, TypeInv, TypeOK
            <7>2. PICK q \in Of(res, archive) : q \in Newest(Of(res, archive))
              BY <6>2, <7>1, NewestExists
            <7>3. \A x \in Coming(res)' : x \in Of(res, archive)
              BY <2>7, <6>4 DEF Of
            <7>4. q.content = known[res].content
              BY <4>4, <5>1, <6>2, <7>2
            <7>5. \A x \in Coming(res)' : x.rv <= q.rv
              BY <7>2, <7>3 DEF Newest
            <7> QED BY <1>4, <3>4, <5>5, <7>2, <7>4, <7>5 DEF Captured
          <6> QED BY <6>3, <6>4
        <5> QED BY <5>6, <5>7
      <4> QED BY <4>5, <4>6
    <3> QED BY <3>2, <3>3, <3>4
  <2>9. Capturing'
    BY <1>4, <2>8 DEF Capturing, Steady
  <2>10. \A x \in c' : x \in c \/ (/\ ~x.deleted /\ x.content # Lazy
                                   /\ \E y \in Reported : /\ y.res = x.res
                                                          /\ y.rv = x.rv
                                                          /\ y.content = x.content)
    <3>1. New(w) \in Reported /\ New(w).content # Lazy
      BY <1>2, <2>1, <2>2 DEF Reported, Compares
    <3> QED BY <1>2, <2>3, <3>1
  <2>11. c' \subseteq Revs
    BY <1>2, <2>3
  <2> QED BY <1>4, <2>1, <2>9, <2>10, <2>11, DropCapture
<1> QED BY <1>5, <1>6

(* An addition is compared with what is loaded for it.                     *)
LEMMA LoadCapture ==
    ASSUME TypeInv, SafeInv, CaptureInv, NEW w \in Workers, hand[w] # None,
           hand[w].item.old = None,
           NEW u \in Objects, u.content # Lazy, u.res = New(w).res, Named(u),
           Steady(u.res) =>
              \A a \in PendingItems : a.old = None /\ a.new.res = u.res =>
                 Before(u.res, a.new.rv, u.content),
           latestCache' \in {latestCache, [latestCache EXCEPT ![u.res] = u]},
           Load(w, u) \/ (Step(w, None, "compare") /\ m' = m),
           UNCHANGED <<configVars, informerVars, syncVars, flushVars, archive,
                       latest, historyVars>>
    PROVE  CaptureInv'
<1>1. UNCHANGED <<handled, known, listed, queue, phase, c, flushing, archive,
                  recreated, filtered>>
  BY DEF configVars, informerVars, syncVars, flushVars, historyVars
<1>2. Compares(hand[w])
  BY DEF CaptureInv, ComparesBefore, Busy
<1>3. Loaded(w, u) \in Objects /\ Loaded(w, u).content = u.content
  BY LoadedType DEF TypeInv
<1>4. Loaded(w, u).res = u.res /\ Named(Loaded(w, u))
  <2>1. CASE hand[w].old = None
    BY <2>1 DEF Loaded
  <2>2. CASE hand[w].old # None
    <3>1. hand[w].old \in Objects /\ hand[w].old.res = u.res /\ Named(hand[w].old)
      BY <1>2, <2>2, NewType DEF Compares, New, TypeInv
    <3>2. Loaded(w, u).res = hand[w].old.res /\ Loaded(w, u).rv = hand[w].old.rv
      BY <2>2, <3>1 DEF Loaded, Objects
    <3> QED BY <3>1, <3>2 DEF Named
  <2> QED BY <2>1, <2>2
<1>5. PICK old \in Objects \cup {None} :
         /\ Step(w, old, "compare")
         /\ old # None => /\ old.res = New(w).res /\ Named(old)
                          /\ old.content = u.content
  BY <1>3, <1>4 DEF Load
<1>6. /\ \A v \in Workers : v # w => hand'[v] = hand[v]
      /\ hand'[w] # None /\ hand'[w].item = hand[w].item
      /\ hand'[w].old = old /\ hand'[w].at = "compare"
  BY <1>5, StepFacts DEF TypeInv, Places
<1>7. PendingItems' = PendingItems
  BY <1>1, <1>6, SamePending
<1>8. hand[w].item \in PendingItems
  BY DEF PendingItems, Busy
<1>9. Compares(hand'[w])
  <2>1. Steady(New(w).res) => Before(New(w).res, New(w).rv, u.content)
    BY <1>8 DEF New
  <2> QED BY <1>2, <1>5, <1>6, <2>1 DEF Compares, New
<1>10. \A x \in m' : x \in m \/ (x.res = u.res /\ x.content = u.content)
  <2>1. CASE m' = m
    BY <2>1
  <2>2. CASE Load(w, u)
    <3>1. Fill(Loaded(w, u))
      BY <2>2 DEF Load
    <3>2. \A r \in m : r \in Revs
      BY DEF TypeInv, TypeOK
    <3>3. u.content \in Contents \cup {Lazy}
      BY DEF Objects
    <3>4. \A r \in m : /\ [r EXCEPT !.content = u.content].res = r.res
                       /\ [r EXCEPT !.content = u.content].content = u.content
      BY <3>2, <3>3, ContentOnly
    <3>5. ASSUME NEW x \in m'
          PROVE  \E r \in m : \/ x = r
                              \/ /\ r.res = u.res
                                 /\ x = [r EXCEPT !.content = u.content]
      <4>1. PICK r \in m : x = IF /\ r.res = Loaded(w, u).res
                                  /\ r.rv = Loaded(w, u).rv /\ r.content = Lazy
                              THEN [r EXCEPT !.content = Loaded(w, u).content]
                              ELSE r
        BY <3>1, <3>5 DEF Fill
      <4> QED BY <1>3, <1>4, <4>1
    <3> QED BY <3>4, <3>5
  <2> QED BY <2>1, <2>2
<1>11. u.res \in Resources /\ latestCache \in [Resources -> Objects \cup {None}]
  BY DEF Objects, TypeInv, TypeOK
<1>12. \A res \in Resources : \/ latestCache'[res] = latestCache[res]
                              \/ res = u.res /\ latestCache'[res] = u
  BY <1>11
<1>13. /\ \A res, rv, x : Before(res, rv, x)' <=> Before(res, rv, x)
       /\ \A x : Named(x)' <=> Named(x)
       /\ \A res : Steady(res)' <=> Steady(res)
  BY <1>1 DEF Before, Named, Steady
<1>14. CachesBefore'
  <2>1. phase' = "run"
    BY <1>1 DEF SafeInv, Started
  <2>2. ASSUME NEW res \in Resources, latestCache'[res] # None
        PROVE  latestCache'[res].res = res /\ Named(latestCache[res])'
    <3>1. CASE latestCache'[res] = latestCache[res]
      BY <1>13, <2>2, <3>1 DEF CaptureInv, CachesBefore
    <3>2. CASE latestCache'[res] = u /\ res = u.res
      BY <1>13, <3>2
    <3> QED BY <1>12, <3>1, <3>2
  <2>3. ASSUME NEW a \in PendingItems, a.old = None, Steady(a.new.res),
               latestCache'[a.new.res] # None
        PROVE  Before(a.new.res, a.new.rv, latestCache[a.new.res].content)'
    <3>1. a.new.res \in Resources
      BY PendingType DEF TypeInv, Objects
    <3>2. CASE latestCache'[a.new.res] = latestCache[a.new.res]
      BY <1>13, <2>3, <3>2 DEF CaptureInv, CachesBefore
    <3>3. CASE latestCache'[a.new.res] = u /\ a.new.res = u.res
      BY <1>13, <2>3, <3>3
    <3> QED BY <1>12, <3>1, <3>2, <3>3
  <2>4. ASSUME NEW a \in PendingItems, a.old = None, Steady(a.new.res),
               NEW x \in m', x.res = a.new.res, x.content # Lazy
        PROVE  Before(a.new.res, a.new.rv, x.content)
    <3>1. CASE x \in m
      BY <2>4, <3>1 DEF CaptureInv, CachesBefore, Of
    <3>2. CASE x.res = u.res /\ x.content = u.content
      BY <2>4, <3>2
    <3> QED BY <1>10, <3>1, <3>2
  <2>5. \A res : Of(res, m)' = {x \in m' : x.res = res}
    BY DEF Of
  <2>6. \A a \in PendingItems' : a.old = None /\ Steady(a.new.res)' =>
            \A x \in Of(a.new.res, m)' : x.content # Lazy =>
                Before(a.new.res, a.new.rv, x.content)'
    BY <1>7, <1>13, <2>4, <2>5
  <2>7. \A a \in PendingItems' : /\ a.old = None /\ Steady(a.new.res)'
                                  /\ latestCache'[a.new.res] # None
            => Before(a.new.res, a.new.rv, latestCache[a.new.res].content)'
    BY <1>7, <1>13, <2>3
  <2> QED BY <2>1, <2>2, <2>6, <2>7 DEF CachesBefore
<1>15. hand \in [Workers -> Tasks \cup {None}]
  BY DEF TypeInv, TypeOK
<1> QED BY <1>1, <1>6, <1>9, <1>14, <1>15, KeepsItemCapture

(* The additions of an object that are on their way have one version.      *)
LEMMA OneAddition ==
    ASSUME TypeInv, CaptureInv, NEW a \in PendingItems, NEW b \in PendingItems,
           a.old = None, b.old = None, a.new.res = b.new.res, Steady(a.new.res)
    PROVE  a.new.rv = b.new.rv
<1>1. a.new.rv >= b.new.rv /\ b.new.rv >= a.new.rv
  BY DEF CaptureInv, AdditionsFirst, Reported
<1>2. a.new.rv \in Int /\ b.new.rv \in Int
  BY PendingType DEF TypeInv, Objects
<1> QED BY <1>1, <1>2

LEMMA WorkerCapture ==
    TypeInv /\ SafeInv /\ CaptureInv /\ (\E w \in Workers : WorkerStep(w))
    => CaptureInv'
<1> SUFFICES ASSUME TypeInv, SafeInv, CaptureInv, NEW w \in Workers, WorkerStep(w)
             PROVE  CaptureInv'
  OBVIOUS
<1>1. ASSUME hand[w] # None
      PROVE  /\ Compares(hand[w]) /\ hand[w].item \in PendingItems
             /\ New(w) = hand[w].item.new /\ New(w) \in Copies
             /\ hand[w].old \in Objects \cup {None}
             /\ New(w).res \in Resources /\ phase = "run" /\ handled = listed
             /\ New(w).res \in handled /\ New(w) \in Objects
  <2>1. Compares(hand[w]) /\ hand[w].item \in PendingItems
    BY <1>1 DEF CaptureInv, ComparesBefore, PendingItems, Busy
  <2>2. phase = "run" /\ handled = listed /\ New(w).res \in handled
    BY <1>1 DEF SafeInv, Started, Watched
  <2> QED BY <1>1, <2>1, <2>2, NewType DEF New, Copies, Reported, TypeInv
<1>2. ASSUME LookUp(w) PROVE CaptureInv'
  <2>1. hand[w] # None /\ hand[w].at = "taken"
    BY <1>2 DEF LookUp, At
  <2>2. PICK at \in {"gone", "compare", "fetch"} :
            /\ Step(w, hand[w].old, at)
            /\ at = "gone" => known[New(w).res] = None
            /\ at = "compare" => hand[w].old # None
            /\ at = "fetch" => hand[w].old = None
    BY <1>1, <1>2, <2>1 DEF LookUp, Exists
  <2>3. at = "gone" => ~Steady(New(w).res)
    BY <1>1, <2>1, <2>2, SteadyIsKnown DEF TypeInv
  <2>4. /\ hand[w].item.old # None => hand[w].old = hand[w].item.old
        /\ hand[w].item.old = None => hand[w].old = None
    BY <1>1, <2>1 DEF Compares
  <2>5. at \in Places /\ at # "memo"
    BY <2>2 DEF Places
  <2> QED BY <1>1, <1>2, <2>1, <2>2, <2>3, <2>4, <2>5, StepCapture DEF LookUp
<1>3. ASSUME Loading(w) \/ At(w, "fetch")
      PROVE  hand[w] # None /\ hand[w].item.old = None
  BY <1>1, <1>3 DEF Loading, At, Compares
<1>4. ASSUME hand[w] # None, hand[w].item.old = None, Step(w, None, "compare"),
             UNCHANGED <<configVars, informerVars, syncVars, flushVars,
                         storeVars, historyVars>>
      PROVE  CaptureInv'
  BY <1>4, StepCapture DEF Places
<1>5. ASSUME Fetch(w) PROVE CaptureInv'
  <2>1. hand[w] # None /\ hand[w].item.old = None
    BY <1>3, <1>5 DEF Fetch
  <2>2. CASE Step(w, None, "compare")
    BY <1>4, <1>5, <2>1, <2>2 DEF Fetch
  <2>3. ASSUME NEW r \in Of(New(w).res, m),
               Step(w, Object(r), IF r.content = Lazy /\ r.rv # New(w).rv
                                  THEN "load" ELSE "compare")
        PROVE  CaptureInv'
    <3>1. r \in m /\ r.res = New(w).res /\ r \in Revs
      BY DEF Of, TypeInv, TypeOK
    <3>2. /\ Object(r) \in Objects /\ Object(r).res = New(w).res
          /\ Object(r).rv = r.rv /\ Object(r).content = r.content
      BY <3>1, ObjectType
    <3>3. \E q \in archive : q.res = r.res /\ q.rv = r.rv
      BY <3>1 DEF SafeInv, ReaderNamesBlobs
    <3>4. Named(Object(r))
      BY <3>1, <3>2, <3>3 DEF Named
    <3>5. /\ ~(r.content = Lazy /\ r.rv # New(w).rv)
          /\ Steady(New(w).res)
          => Before(New(w).res, New(w).rv, r.content)
      <4>1. CASE r.rv = New(w).rv
        <5>1. New(w).rv \in Int
          BY <1>1, <2>1 DEF Objects
        <5> QED BY <3>1, <3>3, <4>1, <5>1 DEF Before, Of
      <4>2. CASE r.content # Lazy /\ Steady(New(w).res)
        BY <1>1, <2>1, <4>2 DEF CaptureInv, CachesBefore
      <4> QED BY <4>1, <4>2
    <3>6. PICK at \in {"load", "compare"} :
              /\ Step(w, Object(r), at)
              /\ at = "compare" => ~(r.content = Lazy /\ r.rv # New(w).rv)
      BY <2>3
    <3>7. at \in Places /\ at # "memo" /\ at # "gone" /\ at \notin {"taken", "fetch"}
      BY <3>6 DEF Places
    <3> QED BY <1>5, <2>1, <3>2, <3>4, <3>5, <3>6, <3>7, StepCapture DEF Fetch
  <2> QED BY <1>5, <2>2, <2>3 DEF Fetch
<1>6. ASSUME LoadFails(w) PROVE CaptureInv'
  BY <1>3, <1>4, <1>6 DEF LoadFails
<1>7. ASSUME LoadNothing(w) PROVE CaptureInv'
  <2>1. CASE Fatal
    BY <2>1, DieCapture DEF Fatal
  <2>2. CASE ~Fatal
    BY <1>3, <1>4, <1>7, <2>2 DEF LoadNothing
  <2> QED BY <2>1, <2>2
<1>8. ASSUME LoadLatest(w) PROVE CaptureInv'
  <2> DEFINE u == latestCache[New(w).res]
  <2>1. hand[w] # None /\ hand[w].item.old = None
    BY <1>3, <1>8 DEF LoadLatest
  <2>2. u # None /\ u \in Objects /\ u.content # Lazy
    BY <1>1, <1>8, <2>1 DEF LoadLatest, TypeInv, LoadedInv, TypeOK
  <2>3. u.res = New(w).res /\ Named(u)
    BY <1>1, <2>1, <2>2 DEF CaptureInv, CachesBefore
  <2>4. \A a \in PendingItems : a.old = None /\ a.new.res = u.res /\ Steady(u.res) =>
            Before(u.res, a.new.rv, u.content)
    BY <2>2, <2>3 DEF CaptureInv, CachesBefore
  <2>5. Load(w, u) /\ latestCache' = latestCache
        /\ UNCHANGED <<configVars, informerVars, syncVars, flushVars, archive,
                       latest, historyVars>>
    BY <1>8 DEF LoadLatest
  <2> HIDE DEF u
  <2> QED BY <2>1, <2>2, <2>3, <2>4, <2>5, LoadCapture
<1>9. ASSUME LoadListed(w) PROVE CaptureInv'
  <2>1. hand[w] # None /\ hand[w].item.old = None
    BY <1>3, <1>9 DEF LoadListed
  <2>2. PICK r \in Newest(Live(Of(New(w).res, archive))) :
              /\ hand' \in [Workers -> Tasks \cup {None}]
              /\ \A v \in Workers : v # w => hand'[v] = hand[v]
              /\ hand'[w] # None
              /\ hand'[w].item = hand[w].item
              /\ hand'[w].old = hand[w].old
              /\ hand'[w].found = Object(r)
              /\ hand'[w].at = "memo"
    BY <1>9, LoadListedFacts DEF TypeInv
  <2>3. r \in archive /\ r.res = New(w).res /\ r \in Revs
    BY DEF Newest, Live, Of, TypeInv, TypeOK
  <2>4. /\ Object(r).res = New(w).res /\ Object(r).rv = r.rv
        /\ Object(r).content = r.content
    BY <2>3, ObjectType
  <2>5. Named(Object(r))
    BY <2>3, <2>4 DEF Named
  <2>6. ASSUME Steady(New(w).res)
        PROVE  Before(New(w).res, New(w).rv, r.content)
    <3>1. Live(Of(New(w).res, archive)) = Of(New(w).res, archive)
      BY <2>6 DEF Live, Of, CaptureInv, Alive
    <3>2. ASSUME NEW q \in Newest(Of(New(w).res, archive))
          PROVE  q.content = r.content
      <4>1. q \in archive /\ q.res = New(w).res /\ q \in Revs
        BY DEF Newest, Of, TypeInv, TypeOK
      <4>2. q.rv <= r.rv /\ r.rv <= q.rv
        BY <2>2, <2>3, <3>1, <3>2, <4>1 DEF Newest, Of
      <4>3. q.rv = r.rv
        BY <2>3, <4>1, <4>2 DEF Revs
      <4> QED BY <2>3, <2>6, <4>1, <4>3 DEF CaptureInv, OneContent, Copies
    <3> QED BY <2>3, <3>2 DEF Before, Of
  <2>7. Compares(hand'[w])
    BY <1>1, <2>1, <2>2, <2>4, <2>5, <2>6 DEF Compares
  <2>8. UNCHANGED <<handled, known, listed, queue, phase, c, flushing, archive,
                    recreated, filtered, m, latestCache>>
    BY <1>9 DEF LoadListed, configVars, informerVars, syncVars, flushVars,
                storeVars, readerVars, historyVars
  <2>9. CachesBefore'
    BY <2>1, <2>2, <2>8, SamePending, SameCaches DEF CaptureInv
  <2>10. hand \in [Workers -> Tasks \cup {None}]
    BY DEF TypeInv, TypeOK
  <2> QED BY <2>1, <2>2, <2>7, <2>8, <2>9, <2>10, KeepsItemCapture
<1>10. ASSUME Memoize(w) PROVE CaptureInv'
  <2> DEFINE u == hand[w].found
  <2>1. hand[w] # None /\ hand[w].at = "memo"
    BY <1>10 DEF Memoize, At
  <2>2. u \in Objects /\ u.content # Lazy
    BY <1>10, <2>1, NewType DEF Memoize, TypeInv, LoadedInv, At
  <2>3. /\ hand[w].item.old = None /\ u.res = New(w).res /\ Named(u)
        /\ Steady(New(w).res) => Before(New(w).res, New(w).rv, u.content)
    BY <1>1, <2>1 DEF Compares
  <2>4. ASSUME Steady(u.res), NEW a \in PendingItems, a.old = None,
               a.new.res = u.res
        PROVE  Before(u.res, a.new.rv, u.content)
    <3>1. a.new.rv = New(w).rv
      BY <1>1, <2>1, <2>3, <2>4, OneAddition
    <3> QED BY <2>3, <2>4, <3>1
  <2>5. /\ Load(w, u) \/ (Step(w, None, "compare") /\ m' = m)
        /\ latestCache' = [latestCache EXCEPT ![u.res] = u]
        /\ UNCHANGED <<configVars, informerVars, syncVars, flushVars, archive,
                       latest, historyVars>>
    BY <1>10, <2>3 DEF Memoize
  <2> HIDE DEF u
  <2> QED BY <2>1, <2>2, <2>3, <2>4, <2>5, LoadCapture
<1> QED BY <1>2, <1>5, <1>6, <1>7, <1>8, <1>9, <1>10, TakeCapture,
           UnselectedCapture, BuryCapture, CompareCapture DEF WorkerStep

-----------------------------------------------------------------------------
(* The flusher.                                                            *)

(* A revision of a steady object is written (flush.go, storage.go).        *)
LEMMA WriteCapture ==
    ASSUME TypeInv, SafeInv, CaptureInv, NEW rev \in flushing,
           rev.content # Lazy, Steady(rev.res), Write(rev),
           latestCache' = [latestCache EXCEPT ![rev.res] = Object(rev)]
    PROVE  CaptureInv'
<1> USE DEF CaptureInv
<1>1. rev \in Revs /\ rev.res \in Resources
  BY DEF TypeInv, TypeOK, Revs
<1>2. /\ UNCHANGED <<handled, known, listed, queue, phase, hand, recreated,
                     filtered>>
      /\ flushing' = {r \in flushing : r.res # rev.res}
      /\ c' = {x \in c : ~(x.res = rev.res /\ x.rv = rev.rv)}
      /\ archive' = {r \in archive : \/ r.res # rev.res \/ r.rv # rev.rv
                                     \/ r.deleted # rev.deleted} \cup {rev}
      /\ \A x \in m' : x \in m \/ x = rev
  BY <1>1, WriteFacts
  DEF Write, Set, configVars, informerVars, syncVars, historyVars, TypeInv
<1>3. Busy' = Busy /\ PendingItems' = PendingItems /\ Reported' = Reported
  BY <1>2 DEF Busy, PendingItems, Reported
<1>4. Copies' \subseteq Copies
  BY <1>2, <1>3 DEF Copies
<1>5. \A res : Steady(res)' <=> Steady(res)
  BY <1>2 DEF Steady
<1>6. \A x \in flushing : x.res = rev.res => x = rev
  BY DEF FlushCache!OnePerKey, ResourceKey
<1>7. FlushCache!OnePerKey(flushing)'
  BY <1>2 DEF FlushCache!OnePerKey
<1>8. Alive'
  BY <1>2, <1>3, <1>5 DEF Alive, New
<1>9. OneContent'
  BY <1>2, <1>4, OldContent
<1>10. Ordered' /\ AdditionsFirst'
  BY <1>2, <1>3, <1>5 DEF Ordered, AdditionsFirst
<1>11. \A u : Named(u) => Named(u)'
  BY <1>2 DEF Named
<1>12. ASSUME NEW a \in PendingItems, a.old = None, Steady(a.new.res), NEW x
       PROVE  Before(a.new.res, a.new.rv, x) => Before(a.new.res, a.new.rv, x)'
  <2>1. CASE a.new.res = rev.res
    <3>1. rev.rv >= a.new.rv
      BY <1>12, <2>1 DEF AdditionsFirst
    <3> QED BY <1>2, <2>1, <3>1 DEF Before, Of
  <2>2. CASE a.new.res # rev.res
    <3>1. Of(a.new.res, archive)' = Of(a.new.res, archive)
      BY <1>2, <2>2 DEF Of
    <3> QED BY <3>1 DEF Before
  <2> QED BY <2>1, <2>2
<1>13. ASSUME NEW a \in PendingItems, a.old = None, Steady(a.new.res),
              a.new.res = rev.res, NEW x
       PROVE  Before(a.new.res, a.new.rv, x)'
  <2>1. rev.rv >= a.new.rv
    BY <1>13 DEF AdditionsFirst
  <2> QED BY <1>2, <1>13, <2>1 DEF Before, Of
<1>14. latestCache \in [Resources -> Objects \cup {None}]
  BY DEF TypeInv, TypeOK
<1>15. \A res \in Resources :
          latestCache'[res] = IF res = rev.res THEN Object(rev) ELSE latestCache[res]
  BY <1>1, <1>14
<1>16. CachesBefore'
  <2>1. phase' \notin {"down", "list", "walk"}
    BY <1>2 DEF SafeInv, Started
  <2>2. ASSUME NEW res \in Resources, latestCache'[res] # None
        PROVE  latestCache'[res].res = res /\ Named(latestCache[res])'
    <3>1. CASE res = rev.res
      <4>1. latestCache'[res] = Object(rev)
        BY <1>15, <3>1
      <4>2. Object(rev).res = res /\ Object(rev).rv = rev.rv /\ rev \in archive'
        BY <1>1, <1>2, <3>1, ObjectType
      <4> QED BY <3>1, <4>1, <4>2 DEF Named
    <3>2. CASE res # rev.res
      <4>1. latestCache'[res] = latestCache[res]
        BY <1>15, <3>2
      <4> QED BY <1>11, <2>2, <4>1 DEF CachesBefore
    <3> QED BY <3>1, <3>2
  <2>3. ASSUME NEW a \in PendingItems, a.old = None, Steady(a.new.res)
        PROVE  /\ latestCache'[a.new.res] # None =>
                     Before(a.new.res, a.new.rv, latestCache[a.new.res].content)'
               /\ \A x \in Of(a.new.res, m)' : x.content # Lazy =>
                     Before(a.new.res, a.new.rv, x.content)'
    <3>1. a.new.res \in Resources
      BY PendingType DEF TypeInv, Objects
    <3>2. CASE a.new.res = rev.res
      BY <1>13, <2>3, <3>2
    <3>3. CASE a.new.res # rev.res
      <4>1. latestCache'[a.new.res] = latestCache[a.new.res]
        BY <1>15, <3>1, <3>3
      <4>2. \A x \in Of(a.new.res, m)' : x \in Of(a.new.res, m)
        BY <1>2, <3>3 DEF Of
      <4> QED BY <1>12, <2>3, <4>1, <4>2 DEF CachesBefore
    <3> QED BY <3>2, <3>3
  <2> QED BY <1>3, <1>5, <2>1, <2>2, <2>3 DEF CachesBefore
<1>17. ComparesBefore'
  <2> SUFFICES ASSUME NEW w \in Busy PROVE Compares(hand[w])'
    BY <1>3 DEF ComparesBefore
  <2>1. Compares(hand[w]) /\ hand[w].item \in PendingItems
    BY DEF ComparesBefore, PendingItems
  <2>2. hand' = hand
    BY <1>2
  <2> QED BY <1>5, <1>11, <1>12, <2>1, <2>2 DEF Compares
<1>18. Capturing'
  <2> SUFFICES ASSUME NEW res \in listed, Steady(res), res \notin filtered,
                      known[res] # None
               PROVE  Captured(res)'
    BY <1>2, <1>5 DEF Capturing
  <2>1. Captured(res)
    BY DEF Capturing
  <2>2. \A p : p \in Coming(res)' <=>
            /\ p.res = res
            /\ \/ p \in archive' \cup c' \cup flushing'
               \/ \E i \in PendingItems : Matters(i) /\ p = i.new
    BY <1>3 DEF Coming, Of, Matters
  <2>3. ASSUME NEW p \in Coming(res) PROVE \E q \in Coming(res)' : q.rv >= p.rv
    <3>1. p.res = res /\ p.rv \in Int
      BY ComingAreCopies DEF TypeInv
    <3>2. CASE p \in Coming(res)'
      BY <3>1, <3>2
    <3>3. CASE p \notin Coming(res)'
      <4>1. p.rv = rev.rv /\ res = rev.res
        BY <1>2, <1>6, <2>2, <3>1, <3>3, ComingIs
      <4>2. rev \in Coming(res)'
        BY <1>2, <2>2, <4>1
      <4> QED BY <3>1, <4>1, <4>2
    <3> QED BY <3>2, <3>3
  <2>4. \A q \in Coming(res)' : q \in Coming(res)
    BY <1>2, <2>2, ComingIs
  <2> QED BY <1>2, <2>1, <2>3, <2>4, CoveredCapture DEF TypeInv
<1> QED BY <1>7, <1>8, <1>9, <1>10, <1>16, <1>17, <1>18

(* A revision or tombstone of another object is written.                   *)
LEMMA OtherWriteCapture ==
    ASSUME TypeInv, SafeInv, CaptureInv, NEW old \in flushing,
           NEW rev \in Revs, rev.content # Lazy, rev.res = old.res,
           ~Steady(rev.res), Write(rev), NEW u, u.res = rev.res,
           Named(u) \/ u.rv = rev.rv,
           latestCache' \in {latestCache, [latestCache EXCEPT ![rev.res] = u]}
    PROVE  CaptureInv'
<1>1. /\ UNCHANGED <<handled, known, listed, queue, phase, hand, recreated,
                     filtered>>
      /\ flushing' = {r \in flushing : r.res # rev.res}
      /\ c' = {x \in c : ~(x.res = rev.res /\ x.rv = rev.rv)}
      /\ archive' = {r \in archive : \/ r.res # rev.res \/ r.rv # rev.rv
                                     \/ r.deleted # rev.deleted} \cup {rev}
      /\ m' = IF enableCache THEN Set(m, rev) ELSE m
  BY WriteFacts DEF Write, configVars, informerVars, syncVars, historyVars, TypeInv
<1>2. \A x : x.res # rev.res =>
         /\ x \in archive' <=> x \in archive
         /\ x \in c' <=> x \in c
         /\ x \in flushing' <=> x \in flushing
         /\ x \in m' <=> x \in m
  BY <1>1 DEF Set
<1>3. PendingItems' = PendingItems
  BY <1>1 DEF PendingItems, Busy
<1>4. Ordered'
  BY <1>3 DEF CaptureInv, Ordered
<1>5. FlushCache!OnePerKey(flushing')
  BY <1>1 DEF CaptureInv, FlushCache!OnePerKey
<1>6. \A x : Named(x) => Named(x)'
  BY <1>1 DEF Named
<1>7. Named(u)'
  BY <1>1, <1>6 DEF Named
<1>8. phase' \notin {"down", "list", "walk"}
  BY <1>1 DEF SafeInv, Started
<1>9. rev.res \in Resources /\ ~Steady(rev.res)'
  BY <1>1 DEF Revs, Steady
<1>10. latestCache \in [Resources -> Objects \cup {None}]
  BY DEF TypeInv, TypeOK
<1>11. ASSUME NEW res \in Resources
       PROVE  latestCache'[res] = latestCache[res] \/
                 (/\ res = rev.res /\ latestCache'[rev.res].res = rev.res
                  /\ Named(latestCache[rev.res])')
  <2>1. CASE latestCache'[res] = latestCache[res]
    BY <2>1
  <2>2. CASE latestCache'[res] # latestCache[res]
    <3>1. res = rev.res /\ latestCache'[rev.res] = u
      BY <1>10, <2>2
    <3> QED BY <1>7, <3>1
  <2> QED BY <2>1, <2>2
<1> QED BY <1>1, <1>2, <1>3, <1>4, <1>5, <1>6, <1>8, <1>9, <1>11, OthersCapture

LEMMA FlusherCapture == TypeInv /\ SafeInv /\ CaptureInv /\ FlusherStep => CaptureInv'
<1> SUFFICES ASSUME TypeInv, SafeInv, CaptureInv, FlusherStep PROVE CaptureInv'
  OBVIOUS
<1>1. CASE StartFlush
  <2> USE DEF CaptureInv
  <2>1. /\ UNCHANGED <<handled, known, listed, queue, phase, hand, c, archive, m,
                       latestCache, recreated, filtered>>
        /\ flushing = {} /\ flushing' = c
    BY <1>1 DEF StartFlush, FlushCache!SafeCopy, configVars, informerVars,
                syncVars, storeVars, readerVars, historyVars
  <2>2. Busy' = Busy /\ PendingItems' = PendingItems /\ Reported' = Reported
        /\ Copies' = Copies
    BY <2>1 DEF Busy, PendingItems, Reported, Copies
  <2>3. FlushCache!OnePerKey(flushing)'
    BY <2>1 DEF TypeInv, TypeOK, FlushCache!OnePerKey
  <2>4. Alive' /\ OneContent' /\ Ordered' /\ AdditionsFirst'
    BY <2>1, <2>2 DEF Alive, OneContent, Ordered, AdditionsFirst, Steady, New
  <2>5. CachesBefore'
    BY <2>1, <2>2, SameCaches
  <2>6. ComparesBefore'
    <3>1. \A t : Compares(t)' <=> Compares(t)
      BY <2>1 DEF Compares, Before, Named, Steady
    <3> QED BY <2>1, <2>2, <3>1 DEF ComparesBefore
  <2>7. Capturing'
    <3>1. \A res : Coming(res)' = Coming(res)
      BY <2>1, <2>2 DEF Coming, Of, Matters
    <3> QED BY <2>1, <3>1 DEF Capturing, Captured, Steady
  <2> QED BY <2>3, <2>4, <2>5, <2>6, <2>7
<1>2. ASSUME NEW rev \in flushing, Flush(rev) PROVE CaptureInv'
  <2>1. rev \in Revs /\ rev.content # Lazy /\ Write(rev)
        /\ latestCache' = IF rev.deleted THEN latestCache
                          ELSE [latestCache EXCEPT ![rev.res] = Object(rev)]
    BY <1>2 DEF Flush, TypeInv, TypeOK
  <2>2. CASE Steady(rev.res)
    <3>1. ~rev.deleted
      BY <2>2 DEF CaptureInv, Alive
    <3> QED BY <2>1, <2>2, <3>1, WriteCapture
  <2>3. CASE ~Steady(rev.res)
    <3>1. Object(rev).res = rev.res /\ Object(rev).rv = rev.rv
      BY <2>1, ObjectType
    <3> QED BY <2>1, <2>3, <3>1, OtherWriteCapture
  <2> QED BY <2>2, <2>3
<1>3. ASSUME NEW rev \in flushing, FlushLazy(rev) PROVE CaptureInv'
  <2>1. PICK u \in Objects :
              /\ u.content # Lazy
              /\ \/ u = latestCache[rev.res]
                 \/ \E r \in Live(Of(rev.res, archive)) : u = Object(r)
              /\ latestCache' = [latestCache EXCEPT ![rev.res] = u]
              /\ Write([rev EXCEPT !.content = u.content])
    BY <1>3, FlushLazyLoads
  <2>2. rev \in Revs /\ rev.res \in Resources /\ u # None
    BY NoneAssumption DEF TypeInv, TypeOK, Revs
  <2>3. u.res = rev.res /\ Named(u)
    <3>1. CASE u = latestCache[rev.res]
      BY <2>2, <3>1 DEF CaptureInv, CachesBefore
    <3>2. ASSUME NEW r \in Live(Of(rev.res, archive)), u = Object(r)
          PROVE  u.res = rev.res /\ Named(u)
      <4>1. r \in archive /\ r.res = rev.res /\ r \in Revs
        BY DEF Live, Of, TypeInv, TypeOK
      <4> QED BY <3>2, <4>1, ObjectType DEF Named
    <3> QED BY <2>1, <3>1, <3>2
  <2>4. ~Steady(rev.res)
    BY <1>3 DEF FlushLazy, CaptureInv, Alive
  <2> DEFINE r == [rev EXCEPT !.content = u.content]
  <2>5. r \in Revs /\ r.res = rev.res /\ r.content # Lazy
    <3>1. u.content \in Contents \cup {Lazy}
      BY DEF Objects
    <3> QED BY <2>1, <2>2, <3>1, ContentOnly
  <2>6. Write(r) /\ latestCache' = [latestCache EXCEPT ![r.res] = u]
    BY <2>1, <2>5
  <2> HIDE DEF r
  <2> QED BY <2>3, <2>4, <2>5, <2>6, OtherWriteCapture
<1>4. ASSUME NEW rev \in flushing, FlushNothing(rev) PROVE CaptureInv'
  BY <1>4, DieCapture DEF FlushNothing, Fatal
<1> QED BY <1>1, <1>2, <1>3, <1>4 DEF FlusherStep

-----------------------------------------------------------------------------

LEMMA CaptureNext == TypeInv /\ SafeInv /\ CaptureInv /\ [Next]_vars => CaptureInv'
<1> SUFFICES ASSUME TypeInv, SafeInv, CaptureInv, [Next]_vars PROVE CaptureInv'
  OBVIOUS
<1>1. CASE Crash
  BY <1>1, DieCapture DEF Crash
<1>2. CASE UNCHANGED vars
  <2>1. UNCHANGED <<handled, known, listed, queue, phase, hand, c, flushing,
                    archive, recreated, filtered, m, latestCache>>
    BY <1>2 DEF vars, configVars, informerVars, syncVars, flushVars, storeVars,
                readerVars, historyVars
  <2>2. phase' \in {"down", "list", "walk"} =>
              m' = {} /\ latestCache' = [res \in Resources |-> None]
    BY <2>1 DEF CaptureInv, CachesBefore
  <2> QED BY <2>1, <2>2, PhaseCapture
<1> QED BY <1>1, <1>2, InformerCapture, StartCapture, WorkerCapture,
           FlusherCapture DEF Next

(* However the workers overtake each other and whenever the process is     *)
(* killed and started again, the archive ends up with the last change of   *)
(* an object that was there all the time (controller.go:499-554).  When    *)
(* nothing is on its way any more, Captured is about the archive alone.    *)
THEOREM ChangesAlwaysCaptured == Spec => []ChangesCaptured
<1>1. ASSUME TypeInv, SafeInv, CaptureInv PROVE ChangesCaptured
  <2> SUFFICES ASSUME Settled, NEW res \in handled \ (filtered \cup recreated),
                      known[res] # None
               PROVE  BackedUp(res)
    BY DEF ChangesCaptured
  <2>1. PendingItems = {} /\ c = {} /\ flushing = {} /\ res \in listed
    BY <1>1 DEF Settled, PendingItems, Busy, SafeInv, Started
  <2>2. Coming(res) = Of(res, archive)
    BY <2>1 DEF Coming, Of
  <2>3. Captured(res) /\ Steady(res)
    BY <1>1, <2>1 DEF CaptureInv, Capturing, Steady
  <2>4. PICK p \in Of(res, archive) : /\ p.content = known[res].content
                                      /\ \A q \in Of(res, archive) : q.rv <= p.rv
    BY <2>2, <2>3 DEF Captured
  <2>5. \A q \in Of(res, archive) : ~q.deleted
    BY <1>1, <2>3 DEF Of, CaptureInv, Alive
  <2> QED BY <2>4, <2>5 DEF BackedUp, Newest
<1>2. Spec => [](TypeInv /\ SafeInv /\ CaptureInv)
  BY TypeInit, TypeNext, SafeInit, SafeNext, CaptureInit, CaptureNext, PTL DEF Spec
<1> QED BY <1>1, <1>2, PTL
=============================================================================
