------------------------------ MODULE PTCache ------------------------------
(***************************************************************************)
(* PersistentPointsToCache: the hash-consed store behind the persistent    *)
(* points-to data structures.  Every points-to set is stored once and is   *)
(* named by an integer id; unions, complements and intersections are done  *)
(* on ids and memoised, and an operation that was performed also records   *)
(* the answers it implies for other operand pairs.  Clients compare ids    *)
(* instead of sets, so a wrong id or a wrong cached answer silently        *)
(* changes the analysis result.                                            *)
(***************************************************************************)
EXTENDS Integers

CONSTANTS Obj,      \* the memory objects a points-to set may hold
          IdSpace   \* number of values of the PointsToID type (2^32 in the build)

ASSUME IdSpaceAssumption == IdSpace \in Nat \ {0, 1}

Data == SUBSET Obj
PointsToID == 0 .. IdSpace - 1
emptyPointsToId == 0

VARIABLES size,              \* idToPts.size()
          idToPts,           \* the stored set of each id
          ptsToId,           \* the id of each stored set
          idCounter,         \* the next id to hand out
          unionCache, complementCache, intersectionCache,
          answer             \* the id the last call returned, and the set the
                             \* caller asked for (the set is a history variable)

caches == <<unionCache, complementCache, intersectionCache>>
store == <<size, idToPts, ptsToId, idCounter>>
vars == <<store, caches, answer>>

-----------------------------------------------------------------------------
(* Finite maps, as std::unordered_map uses them. *)

NoMap == [x \in {} |-> x]
Put(f, k, v) == [x \in DOMAIN f \union {k} |-> IF x = k THEN v ELSE f[x]]

minmax(a, b) == IF b < a THEN <<b, a>> ELSE <<a, b>>

Ids == 0 .. size - 1
Stored(S) == S \in DOMAIN ptsToId
getActualPts(id) == idToPts[id]

\* The caller asked for the set S and gets id back.
Answer(S, id) == answer' = [asked |-> S, id |-> id]

\* What the caller of each operation asks for.
Union(l, r) == getActualPts(l) \union getActualPts(r)
Complement(l, r) == getActualPts(l) \ getActualPts(r)
Intersection(l, r) == getActualPts(l) \intersect getActualPts(r)

-----------------------------------------------------------------------------
Init ==
    /\ size = 1
    /\ idToPts = Put(NoMap, emptyPointsToId, {})
    /\ ptsToId = Put(NoMap, {}, emptyPointsToId)
    /\ idCounter = 1
    /\ unionCache = NoMap
    /\ complementCache = NoMap
    /\ intersectionCache = NoMap
    /\ answer = [asked |-> {}, id |-> emptyPointsToId]

(* Broken variants.  Operators named Mut... are not part of the model: each  *)
(* is the definition that follows it with a plausible mistake, kept to show *)
(* that the properties below notice the mistake.                            *)
MutIdOfPreIncrement(S) == IF Stored(S) THEN ptsToId[S] ELSE idCounter + 1

(* The id S has, or the one newPointsToId gives it.  newPointsToId asserts   *)
(* that the counter has not wrapped around to the id of the empty set.       *)
IdOf(S) == IF Stored(S) THEN ptsToId[S] ELSE idCounter
HasIdFor(S) == Stored(S) \/ idCounter # emptyPointsToId

MutInternForgetsId(S) ==
    /\ HasIdFor(S)
    /\ IF Stored(S)
       THEN UNCHANGED store
       ELSE /\ size' = size + 1
            /\ idToPts' = Put(idToPts, size, S)
            /\ idCounter' = (idCounter + 1) % IdSpace
            /\ UNCHANGED ptsToId

MutInternWraps(S) ==
    IF Stored(S)
    THEN UNCHANGED store
    ELSE /\ idToPts' = Put(idToPts, idCounter, S)
         /\ ptsToId' = Put(ptsToId, S, idCounter)
         /\ idCounter' = (idCounter + 1) % IdSpace
         /\ size' = IF size < IdSpace THEN size + 1 ELSE size

(* idToPts.push_back and ptsToId[S] = id for a set seen for the first time. *)
Intern(S) ==
    /\ HasIdFor(S)
    /\ IF Stored(S)
       THEN UNCHANGED store
       ELSE /\ size' = size + 1
            /\ idToPts' = Put(idToPts, size, S)
            /\ ptsToId' = Put(ptsToId, S, idCounter)
            /\ idCounter' = (idCounter + 1) % IdSpace

emplacePts(S) ==
    /\ Intern(S)
    /\ Answer(S, IdOf(S))
    /\ UNCHANGED caches

(* An answer that needs no work: a property case or a memoised result. *)
Known(S, id) ==
    /\ Answer(S, id)
    /\ UNCHANGED <<store, caches>>

-----------------------------------------------------------------------------
unionProperty(l, r) == emptyPointsToId \in {l, r} \/ l = r

unionPtsKnown(l, r) ==
    \/ unionProperty(l, r) /\ Known(Union(l, r), minmax(l, r)[2])
    \/ /\ ~unionProperty(l, r)
       /\ minmax(l, r) \in DOMAIN unionCache
       /\ Known(Union(l, r), unionCache[minmax(l, r)])

(* x U y = z also answers x U z and y U z. *)
unionLearns(l, r, res) ==
    LET own   == Put(unionCache, minmax(l, r), res)
        withL == IF l # res THEN Put(own, minmax(l, res), res) ELSE own
    IN  IF r # res THEN Put(withL, minmax(r, res), res) ELSE withL

unionPtsPerform(l, r) ==
    LET S == Union(l, r)
    IN  /\ ~unionProperty(l, r)
        /\ minmax(l, r) \notin DOMAIN unionCache
        /\ Intern(S)
        /\ unionCache' = unionLearns(l, r, IdOf(S))
        /\ Answer(S, IdOf(S))
        /\ UNCHANGED <<complementCache, intersectionCache>>

unionPts(l, r) == unionPtsKnown(l, r) \/ unionPtsPerform(l, r)

-----------------------------------------------------------------------------
complementProperty(l, r) == l = r \/ emptyPointsToId \in {l, r}

MutComplementUnordered(l, r) ==
    \/ /\ complementProperty(l, r)
       /\ Known(Complement(l, r), IF l = r THEN emptyPointsToId ELSE l)
    \/ /\ ~complementProperty(l, r)
       /\ minmax(l, r) \in DOMAIN complementCache
       /\ Known(Complement(l, r), complementCache[minmax(l, r)])

complementPtsKnown(l, r) ==
    \/ /\ complementProperty(l, r)
       /\ Known(Complement(l, r), IF l = r THEN emptyPointsToId ELSE l)
    \/ /\ ~complementProperty(l, r)
       /\ <<l, r>> \in DOMAIN complementCache
       /\ Known(Complement(l, r), complementCache[<<l, r>>])

(* l - r = z, z not empty, also answers z & r, z & l and z - r. *)
complementPtsPerform(l, r) ==
    LET S   == Complement(l, r)
        z   == IdOf(S)
        own == Put(complementCache, <<l, r>>, z)
    IN  /\ ~complementProperty(l, r)
        /\ <<l, r>> \notin DOMAIN complementCache
        /\ Intern(S)
        /\ IF z = emptyPointsToId
           THEN complementCache' = own /\ UNCHANGED intersectionCache
           ELSE /\ complementCache' = Put(own, <<z, r>>, z)
                /\ intersectionCache' =
                     Put(Put(intersectionCache, minmax(z, r), emptyPointsToId),
                         minmax(z, l), z)
        /\ Answer(S, z)
        /\ UNCHANGED unionCache

complementPts(l, r) == complementPtsKnown(l, r) \/ complementPtsPerform(l, r)

-----------------------------------------------------------------------------
intersectPtsKnown(l, r) ==
    \/ unionProperty(l, r) /\ Known(Intersection(l, r), minmax(l, r)[1])
    \/ /\ ~unionProperty(l, r)
       /\ minmax(l, r) \in DOMAIN intersectionCache
       /\ Known(Intersection(l, r), intersectionCache[minmax(l, r)])

(* l & r = z, z not empty, also answers z & r, z & l, z U l and z U r. *)
intersectLearns(cache, l, r, res, forL, forR) ==
    LET withR == IF res # r THEN Put(cache, minmax(res, r), forR) ELSE cache
    IN  IF res # l THEN Put(withR, minmax(res, l), forL) ELSE withR

intersectPtsPerform(l, r) ==
    LET S   == Intersection(l, r)
        z   == IdOf(S)
        own == Put(intersectionCache, minmax(l, r), z)
    IN  /\ ~unionProperty(l, r)
        /\ minmax(l, r) \notin DOMAIN intersectionCache
        /\ Intern(S)
        /\ IF z = emptyPointsToId
           THEN intersectionCache' = own /\ UNCHANGED unionCache
           ELSE /\ intersectionCache' = intersectLearns(own, l, r, z, z, z)
                /\ unionCache' = intersectLearns(unionCache, l, r, z, l, r)
        /\ Answer(S, z)
        /\ UNCHANGED complementCache

intersectPts(l, r) == intersectPtsKnown(l, r) \/ intersectPtsPerform(l, r)

-----------------------------------------------------------------------------
(* Between two analyses the cache is emptied; every id but 0 dies.          *)
reset ==
    /\ size' = 1
    /\ idToPts' = Put(NoMap, emptyPointsToId, {})
    /\ ptsToId' = Put(NoMap, {}, emptyPointsToId)
    /\ idCounter' = 1
    /\ unionCache' = NoMap
    /\ complementCache' = NoMap
    /\ intersectionCache' = NoMap
    /\ answer' = [asked |-> {}, id |-> emptyPointsToId]

(* A new node numbering re-encodes every stored set in place (the objects    *)
(* it holds stay the same) and ptsToId is rebuilt from idToPts, the highest  *)
(* id winning.  The operation caches are kept.                               *)
remapAllPts ==
    /\ ptsToId' = [S \in {idToPts[i] : i \in Ids} |->
                     CHOOSE i \in Ids : /\ idToPts[i] = S
                                        /\ \A j \in Ids : idToPts[j] = S => j <= i]
    /\ UNCHANGED <<size, idToPts, idCounter, caches, answer>>

Next ==
    \/ \E S \in Data : emplacePts(S)
    \/ \E l, r \in Ids : unionPts(l, r)
    \/ \E l, r \in Ids : complementPts(l, r)
    \/ \E l, r \in Ids : intersectPts(l, r)
    \/ reset
    \/ remapAllPts

Spec == Init /\ [][Next]_vars

-----------------------------------------------------------------------------
(* The members hold what their C++ types and the class's use of them allow: *)
(* caches and maps speak of ids that have been handed out.                  *)
OpCache(c) == DOMAIN c \subseteq Ids \X Ids /\ c \in [DOMAIN c -> Ids]

TypeOK ==
    /\ size \in 1 .. IdSpace
    /\ idToPts \in [Ids -> Data]
    /\ DOMAIN ptsToId \subseteq Data
    /\ ptsToId \in [DOMAIN ptsToId -> Ids]
    /\ idCounter \in PointsToID
    /\ OpCache(unionCache)
    /\ OpCache(complementCache)
    /\ OpCache(intersectionCache)
    /\ answer \in [asked : Data, id : Ids]

(* The persistent data structures test "did the set change?" by comparing   *)
(* ids (PersistentPTData::unionPtsFromId, computeDiffPts).  That is right   *)
(* only if no two ids name the same set, across interning by emplacePts and *)
(* by an operation's result, an exhausted id type, a remap and a reset.     *)
HashConsed ==
    /\ DOMAIN ptsToId = {idToPts[i] : i \in Ids}
    /\ \A i \in Ids : ptsToId[idToPts[i]] = i
    /\ idToPts[emptyPointsToId] = {}

(* Every memoised answer, those recorded ahead of time for operand pairs    *)
(* nobody asked about included, is the set operation's result.              *)
UnionCacheSound ==
    \A p \in DOMAIN unionCache :
        idToPts[unionCache[p]] = idToPts[p[1]] \union idToPts[p[2]]
ComplementCacheSound ==
    \A p \in DOMAIN complementCache :
        idToPts[complementCache[p]] = idToPts[p[1]] \ idToPts[p[2]]
IntersectionCacheSound ==
    \A p \in DOMAIN intersectionCache :
        idToPts[intersectionCache[p]] = idToPts[p[1]] \intersect idToPts[p[2]]
MemoSound == UnionCacheSound /\ ComplementCacheSound /\ IntersectionCacheSound

(* Whatever path a call takes (property case, memoised, performed), the id  *)
(* it returns names the set the operation is defined to give.               *)
AnswerRight == idToPts[answer.id] = answer.asked

(* A client keeps an id for as long as the analysis runs: until the cache   *)
(* is reset, no step may make a held id name another set, or none.          *)
IdsStable ==
    [][reset \/ \A i \in Ids : i \in 0 .. size' - 1 /\ idToPts'[i] = idToPts[i]]_vars
=============================================================================
