--------------------------- MODULE PTCache_proofs ---------------------------
(***************************************************************************)
(* PTCache keeps its promises for every set of objects and every width of  *)
(* the id type: interning is canonical, memoised answers are right, and an *)
(* id keeps its meaning until reset.                                       *)
(***************************************************************************)
EXTENDS PTCache, TLAPS

(* The counter is the size of the store until the id type is used up.      *)
Counter == idCounter = IF size = IdSpace THEN 0 ELSE size

IInv == TypeOK /\ HashConsed /\ MemoSound /\ AnswerRight /\ Counter

-----------------------------------------------------------------------------
(* What Put yields. *)
LEMMA PutProps ==
    ASSUME NEW f, NEW k, NEW v
    PROVE  /\ DOMAIN Put(f, k, v) = DOMAIN f \union {k}
           /\ Put(f, k, v)[k] = v
           /\ \A x \in DOMAIN f : x # k => Put(f, k, v)[x] = f[x]
           /\ Put(f, k, v) = [x \in DOMAIN Put(f, k, v) |-> Put(f, k, v)[x]]
  BY DEF Put

LEMMA PutType ==
    ASSUME NEW f, NEW k, NEW v, NEW R, NEW D,
           f \in [DOMAIN f -> R], DOMAIN f \subseteq D, k \in D, v \in R
    PROVE  /\ Put(f, k, v) \in [DOMAIN Put(f, k, v) -> R]
           /\ DOMAIN Put(f, k, v) \subseteq D
           /\ DOMAIN Put(f, k, v) = DOMAIN f \union {k}
  BY DEF Put

LEMMA MinMaxProps ==
    ASSUME NEW a \in Nat, NEW b \in Nat
    PROVE  \/ minmax(a, b) = <<a, b>>
           \/ minmax(a, b) = <<b, a>>
  BY DEF minmax

(* Interning a set gives it an id that names it, keeps every older id, and  *)
(* keeps interning canonical.                                              *)
LEMMA InternProps ==
    ASSUME TypeOK, HashConsed, Counter, NEW S \in Data, Intern(S)
    PROVE  /\ size' \in 1 .. IdSpace
           /\ idToPts' \in [Ids' -> Data]
           /\ DOMAIN ptsToId' \subseteq Data
           /\ ptsToId' \in [DOMAIN ptsToId' -> Ids']
           /\ idCounter' \in PointsToID
           /\ HashConsed'
           /\ Counter'
           /\ Ids \subseteq Ids'
           /\ \A i \in Ids : idToPts'[i] = idToPts[i]
           /\ IdOf(S) \in Ids'
           /\ idToPts'[IdOf(S)] = S
           /\ IdOf(S) = emptyPointsToId <=> S = {}
  <1> USE IdSpaceAssumption DEF IdSpaceAssumption
  <1>1. CASE Stored(S)
    <2>1. UNCHANGED store
      BY <1>1 DEF Intern
    <2>2. IdOf(S) = ptsToId[S] /\ S \in DOMAIN ptsToId
      BY <1>1 DEF IdOf, Stored
    <2>3. IdOf(S) \in Ids /\ idToPts[IdOf(S)] = S
      BY <2>2 DEF HashConsed, TypeOK
    <2>4. IdOf(S) = emptyPointsToId <=> S = {}
      <3>1. 0 \in Ids
        BY DEF TypeOK, Ids
      <3>2. QED
        BY <3>1, <2>2, <2>3 DEF HashConsed, emptyPointsToId
    <2>5. QED
      BY <2>1, <2>3, <2>4 DEF TypeOK, HashConsed, Counter, Ids, store
  <1>2. CASE ~Stored(S)
    <2>1. /\ idCounter = size /\ size \in 1 .. IdSpace - 1
          /\ IdOf(S) = size
          /\ size' = size + 1
          /\ idToPts' = Put(idToPts, size, S)
          /\ ptsToId' = Put(ptsToId, S, size)
          /\ idCounter' = (size + 1) % IdSpace
      BY <1>2 DEF Intern, HasIdFor, Counter, TypeOK, IdOf, emptyPointsToId
    <2>2. Ids' = Ids \union {size} /\ size \notin Ids
      BY <2>1 DEF Ids
    <2>3. idCounter' = IF size' = IdSpace THEN 0 ELSE size'
      <3>1. CASE size + 1 = IdSpace
        BY <3>1, <2>1
      <3>2. CASE size + 1 # IdSpace
        BY <3>2, <2>1
      <3>3. QED
        BY <3>1, <3>2
    <2>4. idToPts' \in [Ids' -> Data]
      BY <2>1, <2>2, PutType DEF Put, TypeOK
    <2>5. idToPts'[size] = S /\ \A i \in Ids : idToPts'[i] = idToPts[i]
      BY <2>1, <2>2 DEF Put, TypeOK
    <2>6. /\ DOMAIN ptsToId' = DOMAIN ptsToId \union {S}
          /\ ptsToId'[S] = size
          /\ \A T \in DOMAIN ptsToId : ptsToId'[T] = ptsToId[T]
          /\ ptsToId' \in [DOMAIN ptsToId' -> Ids']
      BY <1>2, <2>1, <2>2 DEF Put, TypeOK, Stored
    <2>7. HashConsed'
      <3>1. DOMAIN ptsToId' = {idToPts'[i] : i \in Ids'}
        BY <2>2, <2>5, <2>6 DEF HashConsed
      <3>2. ASSUME NEW i \in Ids' PROVE ptsToId'[idToPts'[i]] = i
        BY <2>2, <2>5, <2>6 DEF HashConsed
      <3>3. idToPts'[emptyPointsToId] = {}
        BY <2>1, <2>5 DEF HashConsed, emptyPointsToId, Ids
      <3>4. QED
        BY <3>1, <3>2, <3>3 DEF HashConsed
    <2>8. S # {}
      <3>1. 0 \in Ids
        BY <2>1 DEF Ids
      <3>2. QED
        BY <3>1, <1>2 DEF HashConsed, Stored, emptyPointsToId
    <2>9. QED
      BY <2>1, <2>2, <2>3, <2>4, <2>5, <2>6, <2>7, <2>8
         DEF TypeOK, Counter, PointsToID, emptyPointsToId
  <1>3. QED
    BY <1>1, <1>2

-----------------------------------------------------------------------------
(* A cache is good for a store when it speaks of the store's ids only and   *)
(* every entry is the operation's result there.  (The three operations need *)
(* three definitions: a bound operator would be out of the provers' reach.) *)
CacheShape(c, D) == DOMAIN c \subseteq D \X D /\ c \in [DOMAIN c -> D]
GoodUnion(c, D, f) ==
    CacheShape(c, D) /\ \A p \in DOMAIN c : f[c[p]] = f[p[1]] \union f[p[2]]
GoodComplement(c, D, f) ==
    CacheShape(c, D) /\ \A p \in DOMAIN c : f[c[p]] = f[p[1]] \ f[p[2]]
GoodIntersection(c, D, f) ==
    CacheShape(c, D) /\ \A p \in DOMAIN c : f[c[p]] = f[p[1]] \intersect f[p[2]]

GoodCaches ==
    /\ GoodUnion(unionCache, Ids, idToPts)
    /\ GoodComplement(complementCache, Ids, idToPts)
    /\ GoodIntersection(intersectionCache, Ids, idToPts)

LEMMA GoodCachesDef ==
    (OpCache(unionCache) /\ OpCache(complementCache) /\ OpCache(intersectionCache)
       /\ MemoSound) <=> GoodCaches
  BY DEF OpCache, MemoSound, UnionCacheSound, ComplementCacheSound,
         IntersectionCacheSound, GoodCaches, GoodUnion, GoodComplement,
         GoodIntersection, CacheShape

(* An entry that is right may be added. *)
LEMMA PutShape ==
    ASSUME NEW c, NEW D, CacheShape(c, D), NEW a \in D, NEW b \in D, NEW z \in D
    PROVE  /\ CacheShape(Put(c, <<a, b>>, z), D)
           /\ DOMAIN Put(c, <<a, b>>, z) = DOMAIN c \union {<<a, b>>}
           /\ Put(c, <<a, b>>, z)[<<a, b>>] = z
           /\ \A p \in DOMAIN c : p # <<a, b>> => Put(c, <<a, b>>, z)[p] = c[p]
  BY DEF Put, CacheShape

LEMMA AddComplement ==
    ASSUME NEW c, NEW D, NEW f, GoodComplement(c, D, f),
           NEW a \in D, NEW b \in D, NEW z \in D, f[z] = f[a] \ f[b]
    PROVE  GoodComplement(Put(c, <<a, b>>, z), D, f)
  <1> DEFINE d == Put(c, <<a, b>>, z)
  <1>1. CacheShape(c, D) /\ \A p \in DOMAIN c : f[c[p]] = f[p[1]] \ f[p[2]]
    BY DEF GoodComplement
  <1>2. /\ CacheShape(d, D)
        /\ DOMAIN d = DOMAIN c \union {<<a, b>>}
        /\ d[<<a, b>>] = z
        /\ \A p \in DOMAIN c : p # <<a, b>> => d[p] = c[p]
    BY <1>1, PutShape
  <1> HIDE DEF d
  <1>3. ASSUME NEW p \in DOMAIN d PROVE f[d[p]] = f[p[1]] \ f[p[2]]
    <2>1. CASE p = <<a, b>>
      BY <2>1, <1>2
    <2>2. CASE p # <<a, b>>
      BY <2>2, <1>1, <1>2
    <2>3. QED
      BY <2>1, <2>2
  <1>4. QED
    BY <1>2, <1>3 DEF GoodComplement, d

LEMMA AddUnion ==
    ASSUME NEW c, NEW D, NEW f, GoodUnion(c, D, f),
           NEW a \in D, NEW b \in D, NEW z \in D, f[z] = f[a] \union f[b]
    PROVE  GoodUnion(Put(c, <<a, b>>, z), D, f)
  <1> DEFINE d == Put(c, <<a, b>>, z)
  <1>1. CacheShape(c, D) /\ \A p \in DOMAIN c : f[c[p]] = f[p[1]] \union f[p[2]]
    BY DEF GoodUnion
  <1>2. /\ CacheShape(d, D)
        /\ DOMAIN d = DOMAIN c \union {<<a, b>>}
        /\ d[<<a, b>>] = z
        /\ \A p \in DOMAIN c : p # <<a, b>> => d[p] = c[p]
    BY <1>1, PutShape
  <1> HIDE DEF d
  <1>3. ASSUME NEW p \in DOMAIN d PROVE f[d[p]] = f[p[1]] \union f[p[2]]
    <2>1. CASE p = <<a, b>>
      BY <2>1, <1>2
    <2>2. CASE p # <<a, b>>
      BY <2>2, <1>1, <1>2
    <2>3. QED
      BY <2>1, <2>2
  <1>4. QED
    BY <1>2, <1>3 DEF GoodUnion, d

LEMMA PutUnion ==
    ASSUME NEW c, NEW D, D \subseteq Nat, NEW f, GoodUnion(c, D, f),
           NEW a \in D, NEW b \in D, NEW z \in D, f[z] = f[a] \union f[b]
    PROVE  GoodUnion(Put(c, minmax(a, b), z), D, f)
  <1>1. GoodUnion(Put(c, <<a, b>>, z), D, f)
    BY AddUnion
  <1>2. GoodUnion(Put(c, <<b, a>>, z), D, f)
    <2>1. f[z] = f[b] \union f[a]
      OBVIOUS
    <2>2. QED
      BY <2>1, AddUnion
  <1>3. QED
    BY <1>1, <1>2, MinMaxProps

LEMMA AddIntersection ==
    ASSUME NEW c, NEW D, NEW f, GoodIntersection(c, D, f),
           NEW a \in D, NEW b \in D, NEW z \in D, f[z] = f[a] \intersect f[b]
    PROVE  GoodIntersection(Put(c, <<a, b>>, z), D, f)
  <1> DEFINE d == Put(c, <<a, b>>, z)
  <1>1. CacheShape(c, D) /\ \A p \in DOMAIN c : f[c[p]] = f[p[1]] \intersect f[p[2]]
    BY DEF GoodIntersection
  <1>2. /\ CacheShape(d, D)
        /\ DOMAIN d = DOMAIN c \union {<<a, b>>}
        /\ d[<<a, b>>] = z
        /\ \A p \in DOMAIN c : p # <<a, b>> => d[p] = c[p]
    BY <1>1, PutShape
  <1> HIDE DEF d
  <1>3. ASSUME NEW p \in DOMAIN d PROVE f[d[p]] = f[p[1]] \intersect f[p[2]]
    <2>1. CASE p = <<a, b>>
      BY <2>1, <1>2
    <2>2. CASE p # <<a, b>>
      BY <2>2, <1>1, <1>2
    <2>3. QED
      BY <2>1, <2>2
  <1>4. QED
    BY <1>2, <1>3 DEF GoodIntersection, d

LEMMA PutIntersection ==
    ASSUME NEW c, NEW D, D \subseteq Nat, NEW f, GoodIntersection(c, D, f),
           NEW a \in D, NEW b \in D, NEW z \in D, f[z] = f[a] \intersect f[b]
    PROVE  GoodIntersection(Put(c, minmax(a, b), z), D, f)
  <1>1. GoodIntersection(Put(c, <<a, b>>, z), D, f)
    BY AddIntersection
  <1>2. GoodIntersection(Put(c, <<b, a>>, z), D, f)
    <2>1. f[z] = f[b] \intersect f[a]
      OBVIOUS
    <2>2. QED
      BY <2>1, AddIntersection
  <1>3. QED
    BY <1>1, <1>2, MinMaxProps

(* A cache stays good when the store grows. *)
LEMMA CachesGrow ==
    ASSUME GoodCaches, Ids \subseteq Ids',
           \A i \in Ids : idToPts'[i] = idToPts[i]
    PROVE  /\ GoodUnion(unionCache, Ids', idToPts')
           /\ GoodComplement(complementCache, Ids', idToPts')
           /\ GoodIntersection(intersectionCache, Ids', idToPts')
  BY DEF GoodCaches, GoodUnion, GoodComplement, GoodIntersection, CacheShape

-----------------------------------------------------------------------------
(* The invariant in the form the steps below establish it. *)
StoreOK ==
    /\ size \in 1 .. IdSpace
    /\ idToPts \in [Ids -> Data]
    /\ DOMAIN ptsToId \subseteq Data
    /\ ptsToId \in [DOMAIN ptsToId -> Ids]
    /\ idCounter \in PointsToID
    /\ HashConsed
    /\ Counter
AnswerType ==
    answer \in [asked : Data, id : Ids]

LEMMA IInvParts == IInv <=> StoreOK /\ GoodCaches /\ AnswerType /\ AnswerRight
  BY GoodCachesDef DEF IInv, TypeOK, StoreOK, AnswerType

LEMMA IInvPartsNext == StoreOK' /\ GoodCaches' /\ AnswerType' /\ AnswerRight' => IInv'
  BY DEF OpCache, MemoSound, UnionCacheSound, ComplementCacheSound,
         IntersectionCacheSound, GoodCaches, GoodUnion, GoodComplement,
         GoodIntersection, CacheShape, IInv, TypeOK, StoreOK, AnswerType

LEMMA IdsNat == StoreOK => Ids \subseteq Nat /\ 0 \in Ids
  BY DEF StoreOK, Ids

THEOREM InitInv == Init => IInv
  <1> SUFFICES ASSUME Init PROVE IInv
    OBVIOUS
  <1> USE IdSpaceAssumption DEF IdSpaceAssumption
  <1>1. Ids = {0}
    BY DEF Init, Ids
  <1>2. StoreOK
    BY <1>1 DEF Init, StoreOK, Put, NoMap, Data, PointsToID, HashConsed, Counter,
                emptyPointsToId
  <1>3. GoodCaches
    BY DEF Init, GoodCaches, GoodUnion, GoodComplement, GoodIntersection,
           CacheShape, NoMap
  <1>4. AnswerType /\ AnswerRight
    BY <1>1 DEF Init, AnswerType, AnswerRight, Data, Put, emptyPointsToId
  <1>5. QED
    BY <1>2, <1>3, <1>4, IInvParts

(* An operation that interns its result S. *)
LEMMA InternStep ==
    ASSUME IInv, NEW S \in Data, Intern(S)
    PROVE  /\ StoreOK'
           /\ Ids \subseteq Ids' /\ Ids' \subseteq Nat
           /\ \A i \in Ids : idToPts'[i] = idToPts[i]
           /\ IdOf(S) \in Ids'
           /\ idToPts'[IdOf(S)] = S
           /\ IdOf(S) = emptyPointsToId <=> S = {}
           /\ GoodUnion(unionCache, Ids', idToPts')
           /\ GoodComplement(complementCache, Ids', idToPts')
           /\ GoodIntersection(intersectionCache, Ids', idToPts')
  <1>1. StoreOK'
    BY InternProps DEF IInv, StoreOK
  <1>2. QED
    BY <1>1, InternProps, CachesGrow, IInvParts, IdsNat DEF IInv, Ids, StoreOK

(* A call answered without work: the answer has to be right already. *)
LEMMA KnownStep ==
    ASSUME IInv, NEW S \in Data, NEW z \in Ids, Known(S, z), idToPts[z] = S
    PROVE  IInv'
  <1>1. UNCHANGED <<store, caches>> /\ answer' = [asked |-> S, id |-> z]
    BY DEF Known, Answer
  <1>2. StoreOK' /\ GoodCaches' /\ Ids' = Ids
    BY <1>1, IInvParts DEF StoreOK, GoodCaches, store, caches, HashConsed, Counter, Ids
  <1>3. AnswerType' /\ AnswerRight'
    BY <1>1, <1>2 DEF AnswerType, AnswerRight, store
  <1>4. QED
    BY <1>2, <1>3, IInvPartsNext

LEMMA EmplaceStep ==
    ASSUME IInv, NEW S \in Data, emplacePts(S)
    PROVE  IInv'
  <1>1. Intern(S) /\ UNCHANGED caches
        /\ answer' = [asked |-> S, id |-> IdOf(S)]
    BY DEF emplacePts, Answer
  <1>2. StoreOK' /\ IdOf(S) \in Ids'
    BY <1>1, InternStep
  <1>3. GoodCaches'
    BY <1>1, InternStep DEF GoodCaches, caches
  <1>4. AnswerType' /\ AnswerRight'
    BY <1>1, <1>2, InternStep DEF AnswerType, AnswerRight
  <1>5. QED
    BY <1>2, <1>3, <1>4, IInvPartsNext

LEMMA UnionStep ==
    ASSUME IInv, NEW l \in Ids, NEW r \in Ids, unionPts(l, r)
    PROVE  IInv'
  <1>0. /\ StoreOK /\ GoodCaches /\ l \in Nat /\ r \in Nat /\ idToPts[0] = {}
        /\ Union(l, r) = idToPts[l] \union idToPts[r] /\ Union(l, r) \in Data
    BY IInvParts, IdsNat DEF StoreOK, HashConsed, emptyPointsToId, Union, getActualPts, Data
  <1>1. CASE unionProperty(l, r) /\ Known(Union(l, r), minmax(l, r)[2])
    <2>1. /\ minmax(l, r)[2] \in Ids
          /\ idToPts[minmax(l, r)[2]] = idToPts[l] \union idToPts[r]
      BY <1>0, <1>1 DEF unionProperty, minmax, emptyPointsToId
    <2>2. QED
      BY <1>1, <2>1, KnownStep, <1>0
  <1>2. CASE minmax(l, r) \in DOMAIN unionCache /\ Known(Union(l, r), unionCache[minmax(l, r)])
    <2> DEFINE z == unionCache[minmax(l, r)]
    <2>1. z \in Ids /\ idToPts[z] = idToPts[minmax(l, r)[1]] \union idToPts[minmax(l, r)[2]]
      BY <1>0, <1>2 DEF GoodCaches, GoodUnion, CacheShape
    <2>2. idToPts[z] = idToPts[l] \union idToPts[r]
      BY <1>0, <2>1 DEF minmax
    <2>3. QED
      BY <1>2, <2>1, <2>2, KnownStep, <1>0
  <1>3. CASE unionPtsPerform(l, r)
    <2> DEFINE S == idToPts[l] \union idToPts[r]
               z == IdOf(S)
    <2>1. /\ Intern(S)
          /\ unionCache' = unionLearns(l, r, z)
          /\ answer' = [asked |-> S, id |-> z]
          /\ UNCHANGED <<complementCache, intersectionCache>>
      BY <1>3 DEF unionPtsPerform, Answer, Union, getActualPts
    <2>2. S \in Data
      BY <1>0 DEF StoreOK, Data
    <2> HIDE DEF S
    <2>3. /\ StoreOK' /\ Ids' \subseteq Nat
          /\ l \in Ids' /\ r \in Ids' /\ z \in Ids'
          /\ idToPts'[l] = idToPts[l] /\ idToPts'[r] = idToPts[r] /\ idToPts'[z] = S
          /\ GoodUnion(unionCache, Ids', idToPts')
          /\ GoodComplement(complementCache, Ids', idToPts')
          /\ GoodIntersection(intersectionCache, Ids', idToPts')
      BY <2>1, <2>2, InternStep
    <2> HIDE DEF z
    <2>4. /\ idToPts'[z] = idToPts'[l] \union idToPts'[r]
          /\ idToPts'[z] = idToPts'[l] \union idToPts'[z]
          /\ idToPts'[z] = idToPts'[r] \union idToPts'[z]
      BY <2>3 DEF S
    <2> DEFINE own == Put(unionCache, minmax(l, r), z)
               withL == IF l # z THEN Put(own, minmax(l, z), z) ELSE own
    <2>5. GoodUnion(own, Ids', idToPts')
      BY <2>3, <2>4, PutUnion
    <2>6. GoodUnion(withL, Ids', idToPts')
      <3> HIDE DEF own
      <3>1. QED
        BY <2>3, <2>4, <2>5, PutUnion
    <2>7. GoodUnion(unionCache', Ids', idToPts')
      <3>1. unionCache' = IF r # z THEN Put(withL, minmax(r, z), z) ELSE withL
        BY <2>1 DEF unionLearns
      <3> HIDE DEF withL
      <3>2. QED
        BY <3>1, <2>3, <2>4, <2>6, PutUnion
    <2>8. GoodCaches'
      BY <2>1, <2>3, <2>7 DEF GoodCaches
    <2>9. AnswerType' /\ AnswerRight'
      BY <2>1, <2>2, <2>3 DEF AnswerType, AnswerRight
    <2>10. QED
      BY <2>3, <2>8, <2>9, IInvPartsNext
  <1>4. QED
    BY <1>1, <1>2, <1>3 DEF unionPts, unionPtsKnown

LEMMA ComplementStep ==
    ASSUME IInv, NEW l \in Ids, NEW r \in Ids, complementPts(l, r)
    PROVE  IInv'
  <1>0. /\ StoreOK /\ GoodCaches /\ l \in Nat /\ r \in Nat /\ 0 \in Ids /\ idToPts[0] = {}
        /\ Complement(l, r) = idToPts[l] \ idToPts[r] /\ Complement(l, r) \in Data
    BY IInvParts, IdsNat DEF StoreOK, HashConsed, emptyPointsToId, Complement, getActualPts, Data
  <1>1. CASE /\ complementProperty(l, r)
             /\ Known(Complement(l, r), IF l = r THEN emptyPointsToId ELSE l)
    <2> DEFINE z == IF l = r THEN emptyPointsToId ELSE l
    <2>1. z \in Ids /\ idToPts[z] = idToPts[l] \ idToPts[r]
      BY <1>0, <1>1 DEF complementProperty, emptyPointsToId
    <2>2. QED
      BY <1>1, <2>1, KnownStep, <1>0
  <1>2. CASE <<l, r>> \in DOMAIN complementCache /\ Known(Complement(l, r), complementCache[<<l, r>>])
    <2> DEFINE z == complementCache[<<l, r>>]
    <2>1. z \in Ids /\ idToPts[z] = idToPts[l] \ idToPts[r]
      BY <1>0, <1>2 DEF GoodCaches, GoodComplement, CacheShape
    <2>2. QED
      BY <1>2, <2>1, KnownStep, <1>0
  <1>3. CASE complementPtsPerform(l, r)
    <2> DEFINE S == idToPts[l] \ idToPts[r]
               z == IdOf(S)
               own == Put(complementCache, <<l, r>>, z)
    <2>1. /\ Intern(S)
          /\ answer' = [asked |-> S, id |-> z]
          /\ UNCHANGED unionCache
          /\ IF z = emptyPointsToId
             THEN complementCache' = own /\ UNCHANGED intersectionCache
             ELSE /\ complementCache' = Put(own, <<z, r>>, z)
                  /\ intersectionCache' =
                       Put(Put(intersectionCache, minmax(z, r), emptyPointsToId),
                           minmax(z, l), z)
      BY <1>3 DEF complementPtsPerform, Answer, Complement, getActualPts
    <2>2. S \in Data
      BY <1>0 DEF StoreOK, Data
    <2> HIDE DEF S
    <2>3. /\ StoreOK' /\ Ids' \subseteq Nat
          /\ l \in Ids' /\ r \in Ids' /\ z \in Ids' /\ emptyPointsToId \in Ids'
          /\ idToPts'[l] = idToPts[l] /\ idToPts'[r] = idToPts[r] /\ idToPts'[z] = S
          /\ idToPts'[emptyPointsToId] = {}
          /\ GoodUnion(unionCache, Ids', idToPts')
          /\ GoodComplement(complementCache, Ids', idToPts')
          /\ GoodIntersection(intersectionCache, Ids', idToPts')
      BY <1>0, <2>1, <2>2, InternStep DEF emptyPointsToId
    <2> HIDE DEF z
    <2>4. /\ idToPts'[z] = idToPts'[l] \ idToPts'[r]
          /\ idToPts'[z] = idToPts'[z] \ idToPts'[r]
          /\ idToPts'[emptyPointsToId] = idToPts'[z] \intersect idToPts'[r]
          /\ idToPts'[z] = idToPts'[z] \intersect idToPts'[l]
      BY <2>3 DEF S
    <2>5. GoodComplement(own, Ids', idToPts')
      BY <2>3, <2>4, AddComplement
    <2> HIDE DEF own
    <2>6. GoodComplement(complementCache', Ids', idToPts')
      BY <2>1, <2>3, <2>4, <2>5, AddComplement
    <2> DEFINE disj == Put(intersectionCache, minmax(z, r), emptyPointsToId)
    <2>7. GoodIntersection(disj, Ids', idToPts')
      BY <2>3, <2>4, PutIntersection
    <2>8. GoodIntersection(intersectionCache', Ids', idToPts')
      <3>1. \/ intersectionCache' = intersectionCache
            \/ intersectionCache' = Put(disj, minmax(z, l), z)
        BY <2>1
      <3> HIDE DEF disj
      <3>2. QED
        BY <3>1, <2>3, <2>4, <2>7, PutIntersection
    <2>9. GoodCaches'
      BY <2>1, <2>3, <2>6, <2>8 DEF GoodCaches
    <2>10. AnswerType' /\ AnswerRight'
      BY <2>1, <2>2, <2>3 DEF AnswerType, AnswerRight
    <2>11. QED
      BY <2>3, <2>9, <2>10, IInvPartsNext
  <1>4. QED
    BY <1>1, <1>2, <1>3 DEF complementPts, complementPtsKnown

LEMMA IntersectStep ==
    ASSUME IInv, NEW l \in Ids, NEW r \in Ids, intersectPts(l, r)
    PROVE  IInv'
  <1>0. /\ StoreOK /\ GoodCaches /\ l \in Nat /\ r \in Nat /\ idToPts[0] = {}
        /\ Intersection(l, r) = idToPts[l] \intersect idToPts[r] /\ Intersection(l, r) \in Data
    BY IInvParts, IdsNat DEF StoreOK, HashConsed, emptyPointsToId, Intersection, getActualPts, Data
  <1>1. CASE unionProperty(l, r) /\ Known(Intersection(l, r), minmax(l, r)[1])
    <2>1. /\ minmax(l, r)[1] \in Ids
          /\ idToPts[minmax(l, r)[1]] = idToPts[l] \intersect idToPts[r]
      BY <1>0, <1>1 DEF unionProperty, minmax, emptyPointsToId
    <2>2. QED
      BY <1>1, <2>1, KnownStep, <1>0
  <1>2. CASE /\ minmax(l, r) \in DOMAIN intersectionCache
             /\ Known(Intersection(l, r), intersectionCache[minmax(l, r)])
    <2> DEFINE z == intersectionCache[minmax(l, r)]
    <2>1. z \in Ids /\ idToPts[z] = idToPts[minmax(l, r)[1]] \intersect idToPts[minmax(l, r)[2]]
      BY <1>0, <1>2 DEF GoodCaches, GoodIntersection, CacheShape
    <2>2. idToPts[z] = idToPts[l] \intersect idToPts[r]
      BY <1>0, <2>1 DEF minmax
    <2>3. QED
      BY <1>2, <2>1, <2>2, KnownStep, <1>0
  <1>3. CASE intersectPtsPerform(l, r)
    <2> DEFINE S == idToPts[l] \intersect idToPts[r]
               z == IdOf(S)
               own == Put(intersectionCache, minmax(l, r), z)
    <2>1. /\ Intern(S)
          /\ answer' = [asked |-> S, id |-> z]
          /\ UNCHANGED complementCache
          /\ IF z = emptyPointsToId
             THEN intersectionCache' = own /\ UNCHANGED unionCache
             ELSE /\ intersectionCache' = intersectLearns(own, l, r, z, z, z)
                  /\ unionCache' = intersectLearns(unionCache, l, r, z, l, r)
      BY <1>3 DEF intersectPtsPerform, Answer, Intersection, getActualPts
    <2>2. S \in Data
      BY <1>0 DEF StoreOK, Data
    <2> HIDE DEF S
    <2>3. /\ StoreOK' /\ Ids' \subseteq Nat
          /\ l \in Ids' /\ r \in Ids' /\ z \in Ids'
          /\ idToPts'[l] = idToPts[l] /\ idToPts'[r] = idToPts[r] /\ idToPts'[z] = S
          /\ GoodUnion(unionCache, Ids', idToPts')
          /\ GoodComplement(complementCache, Ids', idToPts')
          /\ GoodIntersection(intersectionCache, Ids', idToPts')
      BY <2>1, <2>2, InternStep
    <2> HIDE DEF z
    <2>4. /\ idToPts'[z] = idToPts'[l] \intersect idToPts'[r]
          /\ idToPts'[z] = idToPts'[z] \intersect idToPts'[r]
          /\ idToPts'[z] = idToPts'[z] \intersect idToPts'[l]
          /\ idToPts'[l] = idToPts'[z] \union idToPts'[l]
          /\ idToPts'[r] = idToPts'[z] \union idToPts'[r]
      BY <2>3 DEF S
    <2>5. GoodIntersection(own, Ids', idToPts')
      BY <2>3, <2>4, PutIntersection
    <2> HIDE DEF own
    <2>6. GoodIntersection(intersectLearns(own, l, r, z, z, z), Ids', idToPts')
      <3> DEFINE withR == IF z # r THEN Put(own, minmax(z, r), z) ELSE own
      <3>1. GoodIntersection(withR, Ids', idToPts')
        BY <2>3, <2>4, <2>5, PutIntersection
      <3>2. intersectLearns(own, l, r, z, z, z) =
              IF z # l THEN Put(withR, minmax(z, l), z) ELSE withR
        BY DEF intersectLearns
      <3> HIDE DEF withR
      <3>3. QED
        BY <3>1, <3>2, <2>3, <2>4, PutIntersection
    <2>7. GoodUnion(intersectLearns(unionCache, l, r, z, l, r), Ids', idToPts')
      <3> DEFINE withR == IF z # r THEN Put(unionCache, minmax(z, r), r) ELSE unionCache
      <3>1. GoodUnion(withR, Ids', idToPts')
        BY <2>3, <2>4, PutUnion
      <3>2. intersectLearns(unionCache, l, r, z, l, r) =
              IF z # l THEN Put(withR, minmax(z, l), l) ELSE withR
        BY DEF intersectLearns
      <3> HIDE DEF withR
      <3>3. QED
        BY <3>1, <3>2, <2>3, <2>4, PutUnion
    <2>8. GoodCaches'
      BY <2>1, <2>3, <2>5, <2>6, <2>7 DEF GoodCaches
    <2>9. AnswerType' /\ AnswerRight'
      BY <2>1, <2>2, <2>3 DEF AnswerType, AnswerRight
    <2>10. QED
      BY <2>3, <2>8, <2>9, IInvPartsNext
  <1>4. QED
    BY <1>1, <1>2, <1>3 DEF intersectPts, intersectPtsKnown

LEMMA ResetStep == reset => IInv'
  <1> SUFFICES ASSUME reset PROVE IInv'
    OBVIOUS
  <1> USE IdSpaceAssumption DEF IdSpaceAssumption
  <1>1. Ids' = {0}
    BY DEF reset, Ids
  <1>2. StoreOK'
    BY <1>1 DEF reset, StoreOK, Put, NoMap, Data, PointsToID, HashConsed, Counter,
                emptyPointsToId
  <1>3. GoodCaches'
    BY DEF reset, GoodCaches, GoodUnion, GoodComplement, GoodIntersection,
           CacheShape, NoMap
  <1>4. AnswerType' /\ AnswerRight'
    BY <1>1 DEF reset, AnswerType, AnswerRight, Data, Put, emptyPointsToId
  <1>5. QED
    BY <1>2, <1>3, <1>4, IInvPartsNext

(* Rebuilding ptsToId from a store in which every set has one id yields the *)
(* map that was there.                                                     *)
LEMMA RemapStep ==
    ASSUME IInv, remapAllPts
    PROVE  IInv' /\ UNCHANGED store
  <1>0. StoreOK /\ GoodCaches /\ AnswerType /\ AnswerRight
    BY IInvParts
  <1> DEFINE range == {idToPts[i] : i \in Ids}
             new(S) == CHOOSE i \in Ids : /\ idToPts[i] = S
                                          /\ \A j \in Ids : idToPts[j] = S => j <= i
  <1>1. ASSUME NEW S \in range PROVE new(S) = ptsToId[S]
    <2>1. PICK i \in Ids : idToPts[i] = S
      OBVIOUS
    <2>2. ptsToId[S] = i /\ \A j \in Ids : idToPts[j] = S => j = i
      BY <2>1, <1>0 DEF StoreOK, HashConsed
    <2>3. \A j \in Ids : idToPts[j] = S => j <= i
      BY <2>2 DEF Ids
    <2>4. QED
      BY <2>1, <2>2, <2>3
  <1>2. ptsToId' = [S \in range |-> new(S)]
    BY DEF remapAllPts
  <1>3. DOMAIN ptsToId = range /\ ptsToId = [S \in range |-> ptsToId[S]]
    BY <1>0 DEF StoreOK, HashConsed
  <1>4. ptsToId' = ptsToId
    <2> HIDE DEF new, range
    <2>1. QED
      BY <1>1, <1>2, <1>3
  <1>5. UNCHANGED <<store, caches, answer>>
    BY <1>4 DEF remapAllPts, store
  <1>6. StoreOK' /\ GoodCaches' /\ AnswerType' /\ AnswerRight'
    BY <1>0, <1>5 DEF StoreOK, GoodCaches, AnswerType, AnswerRight, store, caches,
                      HashConsed, Counter, Ids
  <1>7. QED
    BY <1>5, <1>6, IInvPartsNext

THEOREM NextInv == IInv /\ [Next]_vars => IInv'
  <1> SUFFICES ASSUME IInv, [Next]_vars PROVE IInv'
    OBVIOUS
  <1>1. ASSUME NEW S \in Data, emplacePts(S) PROVE IInv'
    BY <1>1, EmplaceStep
  <1>2. ASSUME NEW l \in Ids, NEW r \in Ids, unionPts(l, r) PROVE IInv'
    BY <1>2, UnionStep
  <1>3. ASSUME NEW l \in Ids, NEW r \in Ids, complementPts(l, r) PROVE IInv'
    BY <1>3, ComplementStep
  <1>4. ASSUME NEW l \in Ids, NEW r \in Ids, intersectPts(l, r) PROVE IInv'
    BY <1>4, IntersectStep
  <1>5. CASE reset
    BY <1>5, ResetStep
  <1>6. CASE remapAllPts
    BY <1>6, RemapStep
  <1>7. CASE UNCHANGED vars
    <2>1. StoreOK' /\ GoodCaches' /\ AnswerType' /\ AnswerRight'
      BY <1>7, IInvParts DEF vars, StoreOK, GoodCaches, AnswerType, AnswerRight,
                             store, caches, HashConsed, Counter, Ids
    <2>2. QED
      BY <2>1, IInvPartsNext
  <1>8. QED
    BY <1>1, <1>2, <1>3, <1>4, <1>5, <1>6, <1>7 DEF Next

(* The inductive invariant holds of every behaviour of the cache. *)
THEOREM Invariance == Spec => []IInv
  BY InitInv, NextInv, PTL DEF Spec

(* Ids are canonical: two ids are equal exactly when their sets are, which  *)
(* is what the "changed" tests of the persistent structures rest on.        *)
THEOREM CanonicalIds == Spec => []HashConsed
  <1>1. IInv => HashConsed
    BY DEF IInv
  <1>2. QED
    BY <1>1, Invariance, PTL

(* The members keep the shape of their declarations: caches and maps speak  *)
(* of live ids only, so getActualPts never runs off the end of idToPts.     *)
THEOREM TypeCorrect == Spec => []TypeOK
  <1>1. IInv => TypeOK
    BY DEF IInv
  <1>2. QED
    BY <1>1, Invariance, PTL

(* unionPts, complementPts and intersectPts return the id of the union,     *)
(* complement or intersection, whichever path answered and whatever was     *)
(* memoised ahead of time.                                                  *)
THEOREM OperationsRight == Spec => [](MemoSound /\ AnswerRight)
  <1>1. IInv => MemoSound /\ AnswerRight
    BY DEF IInv
  <1>2. QED
    BY <1>1, Invariance, PTL

(* Until reset, no step changes or drops the set an id names. *)
StableStep == reset \/ \A i \in Ids : i \in 0 .. size' - 1 /\ idToPts'[i] = idToPts[i]

LEMMA StoreUnchanged == IInv /\ UNCHANGED store => StableStep
  BY DEF StableStep, store, Ids

LEMMA InternStable ==
    ASSUME IInv, NEW S \in Data, Intern(S) PROVE StableStep
  BY InternStep DEF StableStep, Ids

THEOREM IdsKeepTheirSets == Spec => IdsStable
  <1>1. IInv /\ [Next]_vars => [StableStep]_vars
    <2> SUFFICES ASSUME IInv, Next PROVE StableStep
      OBVIOUS
    <2>0. StoreOK
      BY IInvParts
    <2>1. ASSUME NEW S \in Data, emplacePts(S) PROVE StableStep
      BY <2>1, InternStable DEF emplacePts
    <2>2. ASSUME NEW l \in Ids, NEW r \in Ids, unionPts(l, r) PROVE StableStep
      <3>1. idToPts[l] \union idToPts[r] \in Data
        BY <2>0 DEF StoreOK, Data
      <3>2. UNCHANGED store \/ Intern(idToPts[l] \union idToPts[r])
        BY <2>2 DEF unionPts, unionPtsKnown, unionPtsPerform, Known, Union, Complement, Intersection,
                    getActualPts
      <3>3. QED
        BY <3>1, <3>2, StoreUnchanged, InternStable
    <2>3. ASSUME NEW l \in Ids, NEW r \in Ids, complementPts(l, r) PROVE StableStep
      <3>1. idToPts[l] \ idToPts[r] \in Data
        BY <2>0 DEF StoreOK, Data
      <3>2. UNCHANGED store \/ Intern(idToPts[l] \ idToPts[r])
        BY <2>3 DEF complementPts, complementPtsKnown, complementPtsPerform, Known, Union, Complement, Intersection,
                    getActualPts
      <3>3. QED
        BY <3>1, <3>2, StoreUnchanged, InternStable
    <2>4. ASSUME NEW l \in Ids, NEW r \in Ids, intersectPts(l, r) PROVE StableStep
      <3>1. idToPts[l] \intersect idToPts[r] \in Data
        BY <2>0 DEF StoreOK, Data
      <3>2. UNCHANGED store \/ Intern(idToPts[l] \intersect idToPts[r])
        BY <2>4 DEF intersectPts, intersectPtsKnown, intersectPtsPerform, Known, Union, Complement, Intersection,
                    getActualPts
      <3>3. QED
        BY <3>1, <3>2, StoreUnchanged, InternStable
    <2>5. CASE reset
      BY <2>5 DEF StableStep
    <2>6. CASE remapAllPts
      BY <2>6, RemapStep, StoreUnchanged
    <2>7. QED
      BY <2>1, <2>2, <2>3, <2>4, <2>5, <2>6 DEF Next
  <1>2. QED
    BY <1>1, Invariance, PTL DEF Spec, IdsStable, StableStep
=============================================================================
