------------------------ MODULE PetShopConflictProofs ------------------------
(***************************************************************************)
(* Every conflict that the API lists is one that two nodes made, for every *)
(* set of nodes, traits and calls, every start and bound and every number  *)
(* of crashes and late answers.                                            *)
(*                                                                         *)
(* A conflict is an entity with two tips, versions that none supersedes.   *)
(* Suppose its versions in a store hold no fork.  All but the seed's one   *)
(* supersede something, which is a version of the same entity and, since   *)
(* the store lacks nothing that its versions name, in the store; and no    *)
(* two of them supersede the same version.  So n versions have n - 1       *)
(* different predecessors among them, which leaves one that none           *)
(* supersedes: no conflict.                                                *)
(*                                                                         *)
(* LineageInv says what this needs of every reachable state, beyond        *)
(* StoreInv and ForkInv.  Its parts depend on each other through the seed: *)
(* pairings are superseded because the node has the seed's, it has them    *)
(* because nothing is called before the seed is written, and that fails    *)
(* only with a crash in the seed, after which leftOut holds every node.    *)
(***************************************************************************)
EXTENDS PetShopStoreProofs

-----------------------------------------------------------------------------
(* The times of versions tell them apart, those of the seed included.      *)

(* All entities of the seed before the animal are one row. *)
LEMMA SeedSinglesBefore ==
    ASSUME NEW k \in DOMAIN seedPart
    PROVE  /\ rowsBefore(k) = k - 1
           /\ k # Len(seedTraits) + 3 => Len(seedPart[k]) = 1
<1> DEFINE U == UNION {Range(seedPart[l]) : l \in DOMAIN seedPart}
           s == SubSeq(seedPart, 1, k - 1)
           T == [i \in Nat |-> {p \in Seq(U) : Len(p) = i}]
<1>1. /\ IsSeq(seedPart) /\ Len(seedPart) \in Nat /\ DOMAIN seedPart = 1 .. Len(seedPart)
      /\ Len(seedTraits) \in Nat /\ Len(seedPart) = Len(seedTraits) + 3
    BY SeedParts, SeedTraits, SeqFacts
<1>2. ASSUME NEW l \in DOMAIN seedPart
      PROVE  seedPart[l] \in Seq(U) /\ (l # Len(seedTraits) + 3 => Len(seedPart[l]) = 1)
    <2>1. IsSeq(seedPart[l])
        BY SeedCases
    <2>2. Range(seedPart[l]) \subseteq U
        OBVIOUS
    <2>3. seedPart[l] \in Seq(U)
        BY <2>1, <2>2, SeqMonotonic DEF IsSeq
    <2>4. l # Len(seedTraits) + 3 => Len(seedPart[l]) = 1
        BY SeedCases, ShortSequences
    <2>5. QED
        BY <2>3, <2>4
<1> HIDE DEF U
<1>3. /\ s \in Seq(Seq(U))
      /\ Len(s) = k - 1
      /\ \A i \in 1 .. k - 1 : s[i] \in Seq(U) /\ Len(s[i]) = 1
    <2>1. \A i \in 1 .. k - 1 : seedPart[i] \in Seq(U) /\ Len(seedPart[i]) = 1
        BY <1>1, <1>2
    <2>2. 1 \in Int /\ k - 1 \in Int /\ k - 1 \in Nat
        BY <1>1
    <2> DEFINE W == Seq(U)
    <2>3. \A i \in 1 .. k - 1 : seedPart[i] \in W
        BY <2>1
    <2> HIDE DEF W
    <2>4. s \in Seq(W)
        BY <2>2, <2>3, SubSeqProperties
    <2>5. Len(s) = k - 1 /\ \A i \in 1 .. k - 1 : s[i] = seedPart[i]
        BY <1>1, <2>2
    <2>6. QED
        BY <2>1, <2>4, <2>5 DEF W
<1> HIDE DEF s
<1>4. <<>> \in T[0]
    BY EmptySeq
<1>5. ASSUME NEW i \in 1 .. Len(s), NEW p \in T[i - 1]
      PROVE  p \o s[i] \in T[i]
    <2>1. i \in Nat /\ i - 1 \in Nat /\ i \in 1 .. k - 1
        BY <1>1, <1>3, <1>5
    <2>2. p \in Seq(U) /\ Len(p) = i - 1 /\ s[i] \in Seq(U) /\ Len(s[i]) = 1
        BY <2>1, <1>3, <1>5
    <2>3. p \o s[i] \in Seq(U) /\ Len(p \o s[i]) = Len(p) + Len(s[i])
        BY <2>2, ConcatProperties
    <2>4. QED
        BY <2>1, <2>2, <2>3
<1>6. FlattenSeq(s) \in T[Len(s)]
    <2> HIDE DEF T
    <2>1. QED
        BY <1>3, <1>4, <1>5, FlattenBuilds
<1>7. k - 1 \in Nat
    BY <1>1
<1>8. Len(FlattenSeq(s)) = k - 1
    BY <1>3, <1>6, <1>7
<1>9. QED
    BY <1>2, <1>8 DEF rowsBefore, s

(* No two places of the seed have the same time. *)
LEMMA SeedTimesApart ==
    ASSUME NEW v \in SeedVersions, NEW w \in SeedVersions, v.timeId = w.timeId
    PROVE  v = w
<1>1. PICK k \in DOMAIN seedPart : \E i \in DOMAIN seedPart[k] : v = SeedVersion(k, i)
    BY SeedContents DEF SeedVersions
<1>2. PICK i \in DOMAIN seedPart[k] : v = SeedVersion(k, i)
    BY <1>1
<1>3. PICK l \in DOMAIN seedPart : \E j \in DOMAIN seedPart[l] : w = SeedVersion(l, j)
    BY SeedContents DEF SeedVersions
<1>4. PICK j \in DOMAIN seedPart[l] : w = SeedVersion(l, j)
    BY <1>3
<1>5. v.timeId.ms = rowsBefore(k) + i /\ w.timeId.ms = rowsBefore(l) + j
    BY <1>2, <1>4 DEF SeedVersion, HistoryRow, seedTimeId
<1>6. /\ rowsBefore(k) = k - 1 /\ rowsBefore(l) = l - 1
      /\ k # Len(seedTraits) + 3 => i = 1
      /\ l # Len(seedTraits) + 3 => j = 1
    BY SeedSinglesBefore, SeedPlaces
<1>7. /\ Len(seedTraits) \in Nat /\ k \in 1 .. Len(seedTraits) + 3 /\ l \in 1 .. Len(seedTraits) + 3
      /\ i \in Nat \ {0} /\ j \in Nat \ {0}
    BY SeedTraits, SeedCases, SeedPlaces
<1>8. k - 1 + i = l - 1 + j
    BY <1>5, <1>6
<1>9. k = l /\ i = j
    BY <1>6, <1>7, <1>8
<1>10. QED
    BY <1>2, <1>4, <1>9

(* A time tells the version. *)
LEMMA TimesUnique ==
    ASSUME Stored, OwnKnown, OwnTimes,
           NEW v \in Versions, NEW w \in Versions, v.timeId = w.timeId
    PROVE  v = w
<1>1. PICK n \in Nodes : v \in history[n]
    BY DEF Versions
<1>2. PICK m \in Nodes : w \in history[m]
    BY DEF Versions
<1>3. IsVersion(v) /\ IsVersion(w)
    BY <1>1, <1>2 DEF Stored
<1>4. CASE v.timeId.unique = SeedUnique
    BY <1>3, <1>4, SeedTimesApart DEF IsVersion
<1>5. CASE v.timeId.unique # SeedUnique
    <2> DEFINE p == v.timeId.unique
    <2>1. p \in Nodes /\ w.timeId.unique = p
        BY <1>3, <1>5 DEF IsVersion
    <2>2. v \in OwnVersions(p) /\ w \in OwnVersions(p)
        BY <1>1, <1>2, <1>5, <2>1 DEF OwnKnown, OwnVersions
    <2>3. QED
        BY <2>1, <2>2 DEF OwnTimes
<1>6. QED
    BY <1>4, <1>5

-----------------------------------------------------------------------------
(* Where versions come from.                                               *)

(* The tables whose conflicts the API lists. *)
Listed == {"animals", "animalTraits", "species", "traits", "customers"}

(* A version that a call wrote, on whichever node. *)
IsWritten(v) == v.timeId.unique # SeedUnique

(* What a version supersedes is a version of its entity, in some store. *)
SameEntity == \A v \in Versions : \A t \in v.previous :
    \E w \in Versions : w.timeId = t /\ w.row.id = v.row.id

(* Of what the seed has one of, calls write further versions only. *)
BegunBySeed == leftOut # Nodes => \A v \in Versions :
    IsWritten(v) /\ table(v.row) \in Listed => v.previous # {}

(* What a node is going to supersede it has, and in those tables there is something. *)
Supersedes(n, row, previous) ==
    /\ \A t \in previous : \E w \in history[n] : w.timeId = t /\ w.row.id = row.id
    /\ leftOut # Nodes /\ table(row) \in Listed => previous # {}

(* A plan of which every version is written so. *)
Traced(n, s) ==
    \A k \in DOMAIN s : s[k].do = "history" => Supersedes(n, s[k].row, s[k].previous)

(* The plans of all calls are. *)
PlansTraced == \A n \in Nodes : \A i \in DOMAIN chain[n] : Traced(n, chain[n][i].todo)

(* The seed of a store is what it has of it and what is left to write; no call interferes. *)
SeedGoesOn(n, s) ==
    /\ \A k \in DOMAIN s : s[k].do \notin {"history", "pairings"}
    /\ \A k \in DOMAIN seedPart : \A i \in DOMAIN seedPart[k] :
        /\ \/ SeedRow(k, i) \in rows[n]
           \/ \E j \in DOMAIN s : s[j] = PutRow(SeedRow(k, i))
        /\ \/ SeedVersion(k, i) \in history[n]
           \/ \E j \in DOMAIN s : s[j] = PutSeedHistory(SeedRow(k, i), rowsBefore(k) + i)

(* A node that never started. *)
Unseeded(n) == up[n] = "down" /\ isEmpty(n) /\ chain[n] = <<>> /\ pulls[n] = {}

(* A node that starts for the first time and writes the seed. *)
InSeed(n) ==
    /\ up[n] = "seeding"
    /\ pulls[n] = {}
    /\ Len(chain[n]) = 1
    /\ chain[n][1].begun
    /\ history[n] \subseteq SeedVersions
    /\ SeedGoesOn(n, chain[n][1].todo)

(* A node that has written all of it. *)
HasSeed(n) == \A k \in DOMAIN seedPart : \A i \in DOMAIN seedPart[k] :
    SeedRow(k, i) \in rows[n] /\ SeedVersion(k, i) \in history[n]

(* Nodes are such, as long as no seed was interrupted. *)
SeedsWhole == leftOut # Nodes => \A n \in Nodes : Unseeded(n) \/ InSeed(n) \/ HasSeed(n)

(* What a reference names is in the store. *)
Resolved(n, reference) == Found(rows[n], history[n], reference) # {}

(* It is, or a pull is going to look for it. *)
Reached(n, reference) ==
    Resolved(n, reference) \/ \E pull \in pulls[n] : reference \in pull.walk

(* A pull resolves what it met as long as it walks, and walks in its first stage only. *)
PullFollows(n, pull) ==
    /\ pull.stage # "dependencies" => pull.walk = {}
    /\ \A r \in pull.seen : r \in pull.walk \/ Resolved(n, r)

(* All that the versions of calls in a store name is reached. *)
Followed(n) ==
    /\ \A v \in history[n] : IsWritten(v) => \A r \in referencesOf(v) : Reached(n, r)
    /\ \A pull \in pulls[n] : PullFollows(n, pull)

(* It is on every node that left nothing out. *)
NothingMissing == \A n \in Nodes \ leftOut : Followed(n)

(* Where the versions come from: the invariant that makes conflicts real. *)
LineageInv == SameEntity /\ BegunBySeed /\ PlansTraced /\ SeedsWhole /\ NothingMissing

-----------------------------------------------------------------------------
(* Versions without a fork have one tip.                                   *)

(* A row is no timeId. *)
LEMMA RowIsNoTime ==
    ASSUME NEW row, IsRow(row)
    PROVE  ~IsTimeId(row)
BY DEF IsRow, IsSpecies, IsTrait, IsCustomer, IsAnimal, IsPairing, IsInvoice, IsInvoiceItem,
       SpeciesRow, TraitRow, CustomerRow, AnimalRow, AnimalTraitRow, InvoiceRow, InvoiceItemRow,
       IsTimeId

(* What a version refers to. *)
LEMMA VersionReferences ==
    ASSUME NEW v, IsVersion(v)
    PROVE  /\ referencesOf(v) = {v.row} \cup v.previous
           /\ ~IsTimeId(v.row)
           /\ IsTimeId(v.timeId)
           /\ v.previous # {} => IsWritten(v)
           /\ IsWritten(v) => v.origin = "api" /\ v.timeId.unique \in Nodes
           /\ ~IsWritten(v) => v \in SeedVersions
<1>1. IsHistoryRow(v)
    BY VersionsAreHistory
<1>2. referencesOf(v) = {v.row} \cup v.previous
    BY <1>1 DEF referencesOf
<1>3. ~IsTimeId(v.row)
    BY RowIsNoTime DEF IsVersion
<1>4. IsTimeId(v.timeId)
    <2>1. v.timeId = [ms |-> v.timeId.ms, unique |-> v.timeId.unique]
        BY DEF IsVersion
    <2>2. "ms" \in DOMAIN [ms |-> v.timeId.ms, unique |-> v.timeId.unique]
        OBVIOUS
    <2>3. QED
        BY <2>1, <2>2 DEF IsTimeId
<1>5. ~IsWritten(v) => v \in SeedVersions
    BY DEF IsWritten, IsVersion
<1>6. v.previous # {} => IsWritten(v)
    BY <1>5, SeedVersionsFit
<1>7. IsWritten(v) => v.origin = "api" /\ v.timeId.unique \in Nodes
    BY DEF IsWritten, IsVersion
<1>8. QED
    BY <1>2, <1>3, <1>4, <1>5, <1>6, <1>7

(* What is found for a row and for a timeId. *)
LEMMA FoundMeans ==
    ASSUME NEW n, NEW reference, Resolved(n, reference)
    PROVE  /\ ~IsTimeId(reference) => reference \in rows[n]
           /\ IsTimeId(reference) => \E u \in history[n] : u.timeId = reference
BY DEF Resolved, Found

(* A version written at a node has a predecessor there, of the same entity. *)
LEMMA ParentKnown ==
    ASSUME StoreInv, LineageInv, NEW n \in Nodes, n \notin leftOut,
           \A pull \in pulls[n] : pull.walk = {},
           NEW id, NEW v \in versionsOf(n, id), v.previous # {}
    PROVE  \E u \in versionsOf(n, id) : u.timeId \in v.previous
<1>1. Stored /\ OwnKnown /\ OwnTimes
    BY DEF StoreInv
<1>2. v \in history[n] /\ v.row.id = id /\ IsVersion(v) /\ v \in Versions
    BY <1>1, VersionsOf DEF Versions
<1>3. IsWritten(v)
    BY <1>2, VersionReferences
<1>4. \A u \in history[n] : IsWritten(u) => \A r \in referencesOf(u) : Resolved(n, r)
    BY DEF LineageInv, NothingMissing, Followed, Reached
<1>5. PICK t \in v.previous : TRUE
    OBVIOUS
<1>6. PICK w \in Versions : w.timeId = t /\ w.row.id = id
    BY <1>2, <1>5 DEF LineageInv, SameEntity
<1>7. IsVersion(w)
    BY <1>1, <1>6 DEF Versions, Stored
<1>8. IsTimeId(t)
    BY <1>6, <1>7, VersionReferences
<1>9. Resolved(n, t)
    BY <1>2, <1>3, <1>4, <1>5, VersionReferences
<1>10. PICK u \in history[n] : u.timeId = t
    BY <1>8, <1>9, FoundMeans
<1>11. u = w
    BY <1>1, <1>6, <1>10, TimesUnique DEF Versions
<1>12. IsVersion(u)
    BY <1>7, <1>11
<1>13. u.row \in rows[n]
    <2>1. CASE IsWritten(u)
        <3>1. Resolved(n, u.row) /\ ~IsTimeId(u.row)
            BY <1>4, <1>10, <1>12, <2>1, VersionReferences
        <3>2. QED
            BY <3>1, FoundMeans
    <2>2. CASE ~IsWritten(u)
        <3>1. u \in SeedVersions
            BY <1>12, <2>2, VersionReferences
        <3>2. PICK k \in DOMAIN seedPart : \E i \in DOMAIN seedPart[k] : u = SeedVersion(k, i)
            BY <3>1, SeedContents DEF SeedVersions
        <3>3. PICK i \in DOMAIN seedPart[k] : u = SeedVersion(k, i)
            BY <3>2
        <3>4. u.row = SeedRow(k, i)
            BY <3>3, SeedVersionMade
        <3>5. leftOut # Nodes
            OBVIOUS
        <3>6. ~Unseeded(n)
            BY <1>2 DEF Unseeded, isEmpty
        <3>7. ~InSeed(n)
            BY <1>2, <1>3, SeedVersionsFit DEF InSeed, IsWritten
        <3>8. HasSeed(n)
            BY <3>5, <3>6, <3>7 DEF LineageInv, SeedsWhole
        <3>9. QED
            BY <3>4, <3>8 DEF HasSeed
    <2>3. QED
        BY <2>1, <2>2
<1>14. u \in versionsOf(n, id)
    BY <1>1, <1>6, <1>10, <1>11, <1>13, VersionsOf
<1>15. QED
    BY <1>5, <1>10, <1>14

(* Two that supersede the same version fork. *)
LEMMA SiblingsFork ==
    ASSUME StoreInv, OwnWritesNeverFork, NEW n \in Nodes, NEW id,
           NEW v \in versionsOf(n, id), NEW w \in versionsOf(n, id), v # w,
           v.previous \cap w.previous # {}
    PROVE  Fork(v, w)
<1>1. Stored /\ OwnKnown /\ OwnTimes
    BY DEF StoreInv
<1>2. /\ v \in history[n] /\ v.row.id = id /\ IsVersion(v)
      /\ w \in history[n] /\ w.row.id = id /\ IsVersion(w)
    BY <1>1, VersionsOf
<1>3. /\ IsWritten(v) /\ v.origin = "api" /\ v.timeId.unique \in Nodes
      /\ IsWritten(w) /\ w.origin = "api" /\ w.timeId.unique \in Nodes
    BY <1>2, VersionReferences
<1>4. v.timeId.unique # w.timeId.unique
    <2> SUFFICES ASSUME v.timeId.unique = w.timeId.unique
                 PROVE  FALSE
        OBVIOUS
    <2> DEFINE p == v.timeId.unique
    <2>1. v \in history[p] /\ w \in history[p]
        BY <1>1, <1>2, <1>3 DEF OwnKnown, IsWritten
    <2>2. v.previous \cap w.previous = {}
        BY <1>2, <1>3, <2>1 DEF OwnWritesNeverFork
    <2>3. QED
        BY <2>2
<1>5. QED
    BY <1>3, <1>4 DEF Fork

(* One version of an entity supersedes none: the seed's. *)
LEMMA OneRoot ==
    ASSUME StoreInv, LineageInv, leftOut # Nodes, NEW n \in Nodes, NEW id, id[1] \in Listed,
           NEW v \in versionsOf(n, id), NEW w \in versionsOf(n, id),
           v.previous = {}, w.previous = {}
    PROVE  v = w
<1>1. Stored /\ OwnKnown /\ OwnTimes
    BY DEF StoreInv
<1>2. /\ v \in Versions /\ v.row.id = id /\ IsVersion(v)
      /\ w \in Versions /\ w.row.id = id /\ IsVersion(w)
    BY <1>1, VersionsOf DEF Versions
<1>3. ~IsWritten(v) /\ ~IsWritten(w)
    BY <1>2 DEF LineageInv, BegunBySeed, table
<1>4. QED
    BY <1>2, <1>3, VersionReferences, SeedVersionsFit

(* No version of S supersedes x. *)
Uncovered(S, x) == \A v \in S : x.timeId \notin v.previous

(* Versions of which each but one has a predecessor of its own have one tip. *)
LEMMA OneTip ==
    ASSUME NEW S, IsFiniteSet(S),
           \A v \in S : v.previous # {} => \E u \in S : u.timeId \in v.previous,
           \A v, w \in S : v.previous = {} /\ w.previous = {} => v = w,
           \A v, w \in S : v # w => v.previous \cap w.previous = {},
           NEW x \in S, NEW y \in S, Uncovered(S, x), Uncovered(S, y)
    PROVE  x = y
<1> SUFFICES ASSUME x # y PROVE FALSE
    OBVIOUS
<1>1. \E r \in S : \A v \in S \ {r} : v.previous # {}
    <2>1. CASE \E r \in S : r.previous = {}
        BY <2>1
    <2>2. CASE \A r \in S : r.previous # {}
        BY <2>2
    <2>3. QED
        BY <2>1, <2>2
<1>2. PICK r \in S : \A v \in S \ {r} : v.previous # {}
    BY <1>1
<1> DEFINE A == S \ {r}
           B == (S \ {x}) \ {y}
           f == [v \in A |-> CHOOSE u \in S : u.timeId \in v.previous]
<1>3. \A v \in A : f[v] \in S /\ f[v].timeId \in v.previous
    BY <1>2
<1>4. f \in [A -> B]
    <2>1. \A v \in A : f[v] \in B
        BY <1>3 DEF Uncovered
    <2>2. QED
        BY <2>1
<1>5. /\ IsFiniteSet(A) /\ Cardinality(A) = Cardinality(S) - 1
      /\ IsFiniteSet(B) /\ Cardinality(B) = Cardinality(S) - 1 - 1
      /\ Cardinality(S) \in Nat
    <2>1. IsFiniteSet(A) /\ Cardinality(A) = Cardinality(S) - 1
        BY FS_RemoveElement
    <2>2. IsFiniteSet(S \ {x}) /\ Cardinality(S \ {x}) = Cardinality(S) - 1
        BY FS_RemoveElement
    <2>3. y \in S \ {x}
        OBVIOUS
    <2>4. IsFiniteSet(B) /\ Cardinality(B) = Cardinality(S \ {x}) - 1
        BY <2>2, <2>3, FS_RemoveElement
    <2>5. QED
        BY <2>1, <2>2, <2>4, FS_CardinalityType
<1> HIDE DEF A, B, f
<1>6. Cardinality(B) < Cardinality(A)
    BY <1>5
<1>7. PICK v \in A, w \in A : v # w /\ f[v] = f[w]
    BY <1>4, <1>5, <1>6, FS_PigeonHole
<1>8. v.previous \cap w.previous # {}
    BY <1>3, <1>7
<1>9. QED
    BY <1>7, <1>8 DEF A

(* A set that is one tip is no conflict. *)
LEMMA OneTipNoConflict ==
    ASSUME NEW S, \A x, y \in S : Uncovered(S, x) /\ Uncovered(S, y) => x = y
    PROVE  ~(Cardinality(tipsOf(S)) > 1)
<1> DEFINE tips == {x \in S : x.timeId \notin UNION {v.previous : v \in S}}
           one == newest(S, depthsOf(S))
<1>1. tipsOf(S) = IF tips = {} /\ S # {} THEN {one} ELSE tips
    BY DEF tipsOf
<1>2. \A x \in tips : x \in S /\ Uncovered(S, x)
    BY DEF Uncovered
<1> HIDE DEF tips, one
<1>3. tips = {} \/ \E x \in tips : tips = {x}
    BY <1>2
<1>4. tipsOf(S) = {} \/ \E x : tipsOf(S) = {x}
    BY <1>1, <1>3
<1>5. CASE tipsOf(S) = {}
    BY <1>5, FS_EmptySet
<1>6. ASSUME NEW x, tipsOf(S) = {x} PROVE ~(Cardinality(tipsOf(S)) > 1)
    <2>1. Cardinality({x}) = 1
        BY FS_Singleton
    <2>2. QED
        BY <1>6, <2>1
<1>7. QED
    BY <1>4, <1>5, <1>6

(* Then every conflict that a store shows holds a fork. *)
LEMMA ConflictsFork == StoreInv /\ ForkInv /\ LineageInv => ConflictsAreReal
<1> SUFFICES ASSUME StoreInv, ForkInv, LineageInv,
                    NEW n \in Nodes, n \notin leftOut, \A pull \in pulls[n] : pull.walk = {},
                    NEW tableKey \in Listed,
                    NEW id \in conflictingIds(rows[n], history[n], tableKey),
                    \A v, w \in versionsOf(n, id) : ~Fork(v, w)
             PROVE  FALSE
    BY DEF ConflictsAreReal, Listed
<1> DEFINE S == versionsOf(n, id)
<1>1. Stored /\ OwnKnown /\ OwnTimes /\ OwnWritesNeverFork /\ leftOut # Nodes
    BY DEF StoreInv, ForkInv
<1>2. id[1] = tableKey /\ Cardinality(tipsOf(S)) > 1
    BY DEF conflictingIds, entitiesOf, versionsOf
<1>3. IsFiniteSet(S)
    BY <1>1, VersionsOf DEF Comparable
<1>4. \A v \in S : v.previous # {} => \E u \in S : u.timeId \in v.previous
    BY ParentKnown
<1>5. \A v, w \in S : v.previous = {} /\ w.previous = {} => v = w
    BY <1>1, <1>2, OneRoot
<1>6. \A v, w \in S : v # w => v.previous \cap w.previous = {}
    BY <1>1, SiblingsFork
<1> HIDE DEF S
<1>7. \A x, y \in S : Uncovered(S, x) /\ Uncovered(S, y) => x = y
    BY <1>3, <1>4, <1>5, <1>6, OneTip
<1>8. QED
    BY <1>2, <1>7, OneTipNoConflict

-----------------------------------------------------------------------------
(* What is written supersedes what was read.                               *)

(* What a node did without, it did without for ever. *)
LEMMA LeftOutGrows ==
    ASSUME StoreInv, Next
    PROVE  leftOut \subseteq leftOut' /\ (leftOut' # Nodes => leftOut # Nodes)
<1>1. PICK n \in Nodes :
        \/ Call(n) \/ Boot(n) \/ Serves(n) \/ Crash(n) \/ PullItems(n)
        \/ ReadInvoice(n) \/ ReadVersion(n) \/ ReadImage(n)
        \/ \E i \in DOMAIN chain[n] : JobStep(n, i)
        \/ \E pull \in pulls[n] : PullStep(n, pull)
    BY DEF Next
<1>2. leftOut \subseteq Nodes /\ leftOut' \subseteq Nodes
    BY StoreSteps DEF StoreInv, Counters
<1>3. leftOut' = leftOut \/ leftOut' = Nodes \/ \E more : leftOut' = leftOut \cup more
    <2>1. CASE Call(n) \/ Boot(n) \/ Serves(n) \/ PullItems(n)
        BY <2>1 DEF Call, Boot, Serves, PullItems
    <2>2. CASE Crash(n)
        BY <2>2 DEF Crash
    <2>3. CASE ReadInvoice(n) \/ ReadVersion(n) \/ ReadImage(n)
        BY <2>3 DEF ReadInvoice, ReadVersion, ReadImage
    <2>4. ASSUME NEW i \in DOMAIN chain[n], JobStep(n, i) PROVE leftOut' = leftOut
        BY <2>4 DEF JobStep, Begin, WriteRow, WriteHistory, WriteSeedHistory, AddHistory, StoreImage,
            PlanPairings, WriteChangeSet, RecordChangeSet
    <2>5. ASSUME NEW pull \in pulls[n], PullStep(n, pull)
          PROVE  leftOut' = leftOut \/ leftOut' = leftOut \cup {n}
        BY <2>5 DEF PullStep, PullDependency, LeaveDependency, PullBlobs, WriteReceived, RecordReceived
    <2>6. QED
        BY <1>1, <2>1, <2>2, <2>3, <2>4, <2>5
<1>4. QED
    BY <1>2, <1>3

(* What is written next supersedes what was planned. *)
LEMMA NextSupersedes ==
    ASSUME StoreInv, PlansTraced, NEW n \in Nodes, 1 \in DOMAIN chain[n], WriteHistory(n, 1),
           NEW v, v = NextVersion(n)
    PROVE  Supersedes(n, v.row, v.previous)
<1>1. PICK s : s = chain[n][1].todo
    OBVIOUS
<1>2. Writes(n, 1, "history")
    BY DEF WriteHistory
<1>3. Head(s) = s[1] /\ s[1].do = "history" /\ 1 \in DOMAIN s
    BY <1>1, <1>2, JobWriting DEF StoreInv
<1>4. Supersedes(n, s[1].row, s[1].previous)
    BY <1>1, <1>3 DEF PlansTraced, Traced
<1>5. v.row = s[1].row /\ v.previous = s[1].previous
    BY <1>1, <1>3 DEF NextVersion, HistoryRow
<1>6. QED
    BY <1>4, <1>5

(* A new version is of the entity it supersedes, and begins none that the seed has. *)
LEMMA LineageKept ==
    ASSUME StoreInv, LineageInv, Next
    PROVE  SameEntity' /\ BegunBySeed'
<1>1. Versions \subseteq Versions'
    BY VersionsGrow
<1>2. ASSUME NEW v \in Versions'
      PROVE  \/ v \in Versions \/ v \in SeedVersions
             \/ \E n \in Nodes : Supersedes(n, v.row, v.previous)
    <2>1. CASE NewVersion(v)
        <3>1. PICK n \in Nodes : 1 \in DOMAIN chain[n] /\ WriteHistory(n, 1) /\ v = NextVersion(n)
            BY <2>1 DEF NewVersion
        <3>2. QED
            BY <3>1, NextSupersedes DEF LineageInv
    <2>2. QED
        BY <2>1, VersionsGrow
<1>3. ASSUME NEW v \in Versions', NEW t \in v.previous
      PROVE  \E w \in Versions' : w.timeId = t /\ w.row.id = v.row.id
    <2>1. CASE v \in Versions
        BY <1>1, <1>3, <2>1 DEF LineageInv, SameEntity
    <2>2. CASE v \in SeedVersions
        BY <1>3, <2>2, SeedVersionsFit
    <2>3. ASSUME NEW n \in Nodes, Supersedes(n, v.row, v.previous)
          PROVE  \E w \in Versions' : w.timeId = t /\ w.row.id = v.row.id
        <3>1. PICK w \in history[n] : w.timeId = t /\ w.row.id = v.row.id
            BY <1>3, <2>3 DEF Supersedes
        <3>2. w \in Versions'
            BY <1>1, <3>1 DEF Versions
        <3>3. QED
            BY <3>1, <3>2
    <2>4. QED
        BY <1>2, <2>1, <2>2, <2>3
<1>4. ASSUME leftOut' # Nodes, NEW v \in Versions', IsWritten(v), table(v.row) \in Listed
      PROVE  v.previous # {}
    <2>1. leftOut # Nodes
        BY <1>4, LeftOutGrows
    <2>2. CASE v \in Versions
        BY <1>4, <2>1, <2>2 DEF LineageInv, BegunBySeed
    <2>3. v \notin SeedVersions
        BY <1>4, SeedVersionsFit DEF IsWritten
    <2>4. ASSUME NEW n \in Nodes, Supersedes(n, v.row, v.previous) PROVE v.previous # {}
        BY <1>4, <2>1, <2>4 DEF Supersedes
    <2>5. QED
        BY <1>2, <2>2, <2>3, <2>4
<1>5. SameEntity'
    BY <1>3 DEF SameEntity
<1>6. BegunBySeed'
    BY <1>4 DEF BegunBySeed, IsWritten
<1>7. QED
    BY <1>5, <1>6

(* A plan without versions is traced. *)
LEMMA TracedWithout ==
    ASSUME NEW n, NEW s, \A k \in DOMAIN s : s[k].do # "history"
    PROVE  Traced(n, s)
BY DEF Traced

(* Two such plans one after the other are. *)
LEMMA TracedConcat ==
    ASSUME NEW n, NEW s, NEW t, IsSeq(s), IsSeq(t), Traced(n, s), Traced(n, t)
    PROVE  Traced(n, s \o t)
<1>1. PICK st : st = s \o t
    OBVIOUS
<1>2. \A k \in DOMAIN st : \/ k \in DOMAIN s /\ st[k] = s[k]
                           \/ k - Len(s) \in DOMAIN t /\ st[k] = t[k - Len(s)]
    BY <1>1, ConcatFacts
<1>3. Traced(n, st)
    BY <1>2 DEF Traced
<1>4. QED
    BY <1>1, <1>3

(* So is the plan of one row. *)
LEMMA TracedRow ==
    ASSUME NEW n, NEW row, NEW previous, Supersedes(n, row, previous)
    PROVE  IsSeq(writeRow(row, previous)) /\ Traced(n, writeRow(row, previous))
<1>1. PICK s : s = writeRow(row, previous)
    OBVIOUS
<1>2. RowPlan(row, previous, s)
    BY <1>1, WriteRowPlan
<1>3. /\ IsSeq(s) /\ DOMAIN s = {1, 2} /\ s[1].do = "row"
      /\ s[2].row = row /\ s[2].previous = previous
    BY <1>2 DEF RowPlan, PutRow, PutHistory
<1>4. Traced(n, s)
    BY <1>3 DEF Traced
<1>5. QED
    BY <1>1, <1>3, <1>4

(* The current version of an entity is one of its versions. *)
LEMMA CurrentSupersedes ==
    ASSUME Stored, OwnKnown, OwnTimes, NEW n \in Nodes, NEW row,
           leftOut # Nodes /\ table(row) \in Listed => versionsOf(n, row.id) # {}
    PROVE  Supersedes(n, row, currentTimeIds(n, row.id))
<1>1. PICK S : S = versionsOf(n, row.id)
    OBVIOUS
<1>2. CASE S = {}
    BY <1>1, <1>2 DEF currentTimeIds, Supersedes
<1>3. CASE S # {}
    <2>1. PICK v : v = currentVersion(S)
        OBVIOUS
    <2>2. v \in S
        BY <1>1, <1>3, <2>1, CurrentStored
    <2>3. v \in history[n] /\ v.row.id = row.id
        BY <1>1, <2>2, VersionsOf
    <2>4. currentTimeIds(n, row.id) = {v.timeId}
        BY <1>1, <1>3, <2>1 DEF currentTimeIds
    <2>5. QED
        BY <2>3, <2>4 DEF Supersedes
<1>4. QED
    BY <1>2, <1>3

(* The plan of an edit supersedes the version of the animal that it read. *)
LEMMA TracedAnimal ==
    ASSUME Stored, OwnKnown, OwnTimes, NEW n \in Nodes, NEW call
    PROVE  Traced(n, updateAnimalNow(n, call))
<1>1. CASE updateAnimalNow(n, call) = <<>>
    BY <1>1, ShortPlans, TracedWithout
<1>2. CASE updateAnimalNow(n, call) # <<>>
    <2>1. PICK animal : /\ IsAnimal(animal)
                        /\ updateAnimalNow(n, call) =
                            writeRow(animal, currentTimeIds(n, animal.id))
                            \o <<PutPairings(animal)>>
        BY <1>2, AnimalPlanned
    <2>2. versionsOf(n, <<"animals", "a">>) # {}
        BY <1>2 DEF updateAnimalNow
    <2>3. animal.id = <<"animals", "a">>
        <3>1. AnimalRow(animal.name, animal.species, animal.traits).id = <<"animals", "a">>
            BY DEF AnimalRow
        <3>2. QED
            BY <2>1, <3>1 DEF IsAnimal
    <2>4. PICK s, t : s = writeRow(animal, currentTimeIds(n, animal.id)) /\ t = <<PutPairings(animal)>>
        OBVIOUS
    <2>5. IsSeq(s) /\ Traced(n, s)
        BY <2>2, <2>3, <2>4, CurrentSupersedes, TracedRow
    <2>6. IsSeq(t) /\ Traced(n, t)
        <3>1. PutPairings(animal).do # "history"
            BY DEF PutPairings
        <3>2. QED
            BY <2>4, <3>1, ShortPlans, TracedWithout
    <2>7. Traced(n, s \o t)
        BY <2>5, <2>6, TracedConcat
    <2>8. QED
        BY <2>1, <2>4, <2>7
<1>3. QED
    BY <1>1, <1>2

(* The plan of an upload supersedes that of the species. *)
LEMMA TracedImage ==
    ASSUME Stored, OwnKnown, OwnTimes, NEW n \in Nodes, NEW call
    PROVE  Traced(n, updateSpeciesImageNow(n, call))
<1>0. PICK b : b = <<PutBlob(call.image)>>
    OBVIOUS
<1>1. IsSeq(b) /\ \A k \in DOMAIN b : b[k].do # "history"
    <2>1. PutBlob(call.image).do # "history"
        BY DEF PutBlob
    <2>2. QED
        BY <1>0, <2>1, ShortPlans
<1>2. IsSeq(b) /\ Traced(n, b)
    BY <1>1, TracedWithout
<1>3. CASE updateSpeciesImageNow(n, call) = <<>>
    BY <1>3, ShortPlans, TracedWithout
<1>4. CASE updateSpeciesImageNow(n, call) = b
    BY <1>2, <1>4
<1>5. CASE updateSpeciesImageNow(n, call) =
                imageAndRow(call.image, currentTimeIds(n, <<"species", "s">>))
           /\ updateSpeciesImageNow(n, call) # <<>>
    <2>1. versionsOf(n, <<"species", "s">>) # {}
        BY <1>5 DEF updateSpeciesImageNow
    <2>2. PICK row : row = SpeciesRow(call.image)
        OBVIOUS
    <2>3. row.id = <<"species", "s">>
        BY <2>2 DEF SpeciesRow
    <2>4. PICK s, t : s = writeRow(row, currentTimeIds(n, row.id)) /\ t = recordChangeSet
        OBVIOUS
    <2>5. IsSeq(s) /\ Traced(n, s)
        BY <2>1, <2>3, <2>4, CurrentSupersedes, TracedRow
    <2>6. IsSeq(t) /\ Traced(n, t)
        BY <2>4, ShortPlans, TracedWithout
    <2>7. IsSeq(b \o s) /\ Traced(n, b \o s)
        BY <1>2, <2>5, TracedConcat, ConcatFacts
    <2>8. Traced(n, (b \o s) \o t)
        BY <2>6, <2>7, TracedConcat
    <2>9. imageAndRow(call.image, currentTimeIds(n, row.id)) = (b \o s) \o t
        BY <1>0, <2>2, <2>4 DEF imageAndRow
    <2>10. QED
        BY <1>5, <2>3, <2>8, <2>9
<1>6. QED
    BY <1>0, <1>3, <1>4, <1>5, ImagePlanned

(* The plan of an invoice begins entities that the seed has none of. *)
LEMMA TracedInvoice ==
    ASSUME Stored, OwnKnown, OwnTimes, NEW n \in Nodes
    PROVE  Traced(n, writeInvoiceNow(n))
<1>1. CASE writeInvoiceNow(n) = <<>>
    BY <1>1, ShortPlans, TracedWithout
<1>2. ASSUME NEW sequence, NEW customer, NEW animal,
             writeInvoiceNow(n) =
                    writeRow(InvoiceRow(sequence, customer), {})
                    \o writeRow(InvoiceItemRow(InvoiceRow(sequence, customer), 1, animal), {})
                    \o recordChangeSet
      PROVE  Traced(n, writeInvoiceNow(n))
    <2>1. PICK invoice : invoice = InvoiceRow(sequence, customer)
        OBVIOUS
    <2>2. PICK line : line = InvoiceItemRow(invoice, 1, animal)
        OBVIOUS
    <2>3. table(invoice) \notin Listed /\ table(line) \notin Listed
        BY <2>1, <2>2 DEF InvoiceRow, InvoiceItemRow, table, Listed
    <2>4. Supersedes(n, invoice, {}) /\ Supersedes(n, line, {})
        BY <2>3 DEF Supersedes
    <2>5. PICK s, t, u : s = writeRow(invoice, {}) /\ t = writeRow(line, {}) /\ u = recordChangeSet
        OBVIOUS
    <2>6. IsSeq(s) /\ Traced(n, s) /\ IsSeq(t) /\ Traced(n, t)
        BY <2>4, <2>5, TracedRow
    <2>7. IsSeq(u) /\ Traced(n, u)
        BY <2>5, ShortPlans, TracedWithout
    <2>8. IsSeq(s \o t) /\ Traced(n, s \o t)
        BY <2>6, TracedConcat, ConcatFacts
    <2>9. Traced(n, (s \o t) \o u)
        BY <2>7, <2>8, TracedConcat
    <2>10. QED
        BY <1>2, <2>1, <2>2, <2>5, <2>9
<1>3. QED
    BY <1>1, <1>2, InvoicePlanned

(* So every call is traced when it begins. *)
LEMMA TracedCall ==
    ASSUME Stored, OwnKnown, OwnTimes, NEW n \in Nodes, NEW call \in Calls
    PROVE  Traced(n, plan(n, call))
<1>1. call.op \in {"updateAnimal", "updateSpeciesImage", "issueInvoice"}
    BY StoreAssumption
<1>2. CASE call.op = "updateAnimal"
    BY <1>2, TracedAnimal DEF plan
<1>3. CASE call.op = "updateSpeciesImage"
    BY <1>3, TracedImage DEF plan
<1>4. CASE call.op = "issueInvoice"
    BY <1>4, TracedInvoice DEF plan
<1>5. QED
    BY <1>1, <1>2, <1>3, <1>4

(* A seeded node has a version of every pairing. *)
LEMMA PairingSeeded ==
    ASSUME Stored, OwnKnown, OwnTimes, NEW n \in Nodes, HasSeed(n),
           NEW animal, IsAnimal(animal), NEW trait \in animal.traits
    PROVE  versionsOf(n, AnimalTraitRow(animal, trait).id) # {}
<1>1. IsTrait(trait) /\ animal.id = <<"animals", "a">>
    <2>1. AnimalRow(animal.name, animal.species, animal.traits).id = <<"animals", "a">>
        BY DEF AnimalRow
    <2>2. QED
        BY <2>1 DEF IsAnimal
<1>2. PICK j \in DOMAIN seedTraits : seedTraits[j] = trait.id[2]
    BY <1>1, SeedTraits DEF IsTrait
<1>3. PICK k, i : k = Len(seedTraits) + 3 /\ i = j + 1
    OBVIOUS
<1>4. k \in DOMAIN seedPart /\ i \in DOMAIN seedPart[k]
    <2>1. /\ Len(seedTraits) \in Nat /\ j \in 1 .. Len(seedTraits)
          /\ DOMAIN seedPart = 1 .. Len(seedTraits) + 3
        BY SeedTraits, SeedParts, SeqFacts
    <2>2. k \in DOMAIN seedPart
        BY <1>3, <2>1
    <2>3. DOMAIN seedPart[k] = 1 .. Len(seedTraits) + 1
        BY <1>3, SeedParts, SeqFacts
    <2>4. QED
        BY <1>3, <2>1, <2>2, <2>3
<1>5. SeedRow(k, i) = AnimalTraitRow(SeedAnimal, TraitRow(seedTraits[j]))
    BY <1>3, SeedParts DEF SeedRow
<1>6. SeedRow(k, i).id = AnimalTraitRow(animal, trait).id
    <2>1. SeedAnimal.id = <<"animals", "a">>
        BY DEF SeedAnimal, AnimalRow
    <2>2. TraitRow(seedTraits[j]) = trait
        BY <1>1, <1>2 DEF IsTrait
    <2>3. QED
        BY <1>1, <1>5, <2>1, <2>2 DEF AnimalTraitRow
<1>7. SeedVersion(k, i) \in history[n] /\ SeedRow(k, i) \in rows[n]
    BY <1>4 DEF HasSeed
<1>8. SeedVersion(k, i).row = SeedRow(k, i)
    BY DEF SeedVersion, HistoryRow
<1>9. SeedVersion(k, i) \in versionsOf(n, SeedRow(k, i).id)
    BY <1>7, <1>8, VersionsOf
<1>10. QED
    BY <1>6, <1>9

(* The pairings supersede a version each: the animal is the seed's, and so are they. *)
LEMMA TracedPairings ==
    ASSUME Stored, OwnKnown, OwnTimes, NEW n \in Nodes, leftOut # Nodes => HasSeed(n),
           NEW animal, IsAnimal(animal)
    PROVE  Traced(n, writePairings(n, animal) \o recordChangeSet)
<1>1. PICK order, s : order = SetToSeq(animal.traits) /\ s = writePairings(n, animal)
    OBVIOUS
<1>2. PairingPlan(n, animal, order, s)
    BY <1>1, PairingsPlanned DEF IsAnimal
<1> DEFINE m == Len(order)
           pairing(j) == AnimalTraitRow(animal, order[j])
<1>3. /\ m \in Nat
      /\ \A j \in 1 .. m : order[j] \in animal.traits
      /\ IsSeq(s) /\ Len(s) = 2 * m
      /\ \A j \in 1 .. m : /\ s[2 * j - 1] = PutRow(pairing(j))
                           /\ s[2 * j] = PutHistory(pairing(j), currentTimeIds(n, pairing(j).id))
    BY <1>2 DEF PairingPlan
<1>4. ASSUME NEW j \in 1 .. m
      PROVE  /\ s[2 * j - 1].do = "row"
             /\ s[2 * j].row = pairing(j)
             /\ s[2 * j].previous = currentTimeIds(n, pairing(j).id)
             /\ Supersedes(n, pairing(j), currentTimeIds(n, pairing(j).id))
    <2>1. PICK p : p = pairing(j)
        OBVIOUS
    <2>2. s[2 * j - 1] = PutRow(p) /\ s[2 * j] = PutHistory(p, currentTimeIds(n, p.id))
        BY <1>3, <2>1
    <2>3. leftOut # Nodes => versionsOf(n, p.id) # {}
        BY <1>3, <2>1, PairingSeeded
    <2>4. Supersedes(n, p, currentTimeIds(n, p.id))
        BY <2>3, CurrentSupersedes
    <2>5. QED
        BY <2>1, <2>2, <2>4 DEF PutRow, PutHistory
<1> HIDE DEF pairing, m
<1>5. ASSUME NEW k \in DOMAIN s, s[k].do = "history" PROVE Supersedes(n, s[k].row, s[k].previous)
    <2>1. k \in 1 .. 2 * m
        BY <1>3, SeqFacts DEF m
    <2>2. PICK j \in 1 .. m : k = 2 * j - 1 \/ k = 2 * j
        BY <1>3, <2>1, InPairs
    <2>3. QED
        BY <1>4, <1>5, <2>2
<1>6. Traced(n, s)
    BY <1>5 DEF Traced
<1>7. PICK u : u = recordChangeSet
    OBVIOUS
<1>8. IsSeq(u) /\ Traced(n, u)
    BY <1>7, ShortPlans, TracedWithout
<1>9. QED
    BY <1>1, <1>3, <1>6, <1>7, <1>8, TracedConcat

-----------------------------------------------------------------------------
(* The plan of the seed.                                                   *)

(* No write of a call is in the plan. *)
Plain(s) == \A k \in DOMAIN s : s[k].do \notin {"history", "pairings"}

(* Every element of the one sequence is in the other. *)
Includes(p, s) == \A j \in DOMAIN s : \E l \in DOMAIN p : p[l] = s[j]

(* A concatenation of two such plans is one, and includes both. *)
LEMMA PlainConcat ==
    ASSUME NEW s, NEW t, IsSeq(s), IsSeq(t), Plain(s), Plain(t)
    PROVE  Plain(s \o t) /\ Includes(s \o t, s) /\ Includes(s \o t, t)
<1>1. PICK st : st = s \o t
    OBVIOUS
<1>2. /\ \A k \in DOMAIN st : \/ k \in DOMAIN s /\ st[k] = s[k]
                              \/ k - Len(s) \in DOMAIN t /\ st[k] = t[k - Len(s)]
      /\ \A k \in DOMAIN s : k \in DOMAIN st /\ st[k] = s[k]
      /\ \A k \in DOMAIN t : k + Len(s) \in DOMAIN st /\ st[k + Len(s)] = t[k]
    BY <1>1, ConcatFacts
<1>3. Plain(st)
    BY <1>2 DEF Plain
<1>4. Includes(st, s) /\ Includes(st, t)
    BY <1>2 DEF Includes
<1>5. QED
    BY <1>1, <1>3, <1>4

(* One segment of the seed writes each of its rows and versions. *)
LEMMA SeedSegmentWrites ==
    ASSUME NEW k \in DOMAIN seedPart
    PROVE  /\ Plain(SeedSegment(k))
           /\ \A i \in DOMAIN seedPart[k] :
                /\ \E j \in DOMAIN SeedSegment(k) : SeedSegment(k)[j] = PutRow(SeedRow(k, i))
                /\ \E j \in DOMAIN SeedSegment(k) :
                    SeedSegment(k)[j] = PutSeedHistory(SeedRow(k, i), rowsBefore(k) + i)
<1>1. PICK s, m : s = SeedEntity(k) /\ m = Len(seedPart[k])
    OBVIOUS
<1>2. /\ m \in Nat /\ DOMAIN seedPart[k] = 1 .. m /\ IsSeq(s) /\ Len(s) = 2 * m + 2
      /\ \A i \in 1 .. m :
            /\ s[2 * i - 1] = PutRow(SeedRow(k, i))
            /\ s[2 * i] = PutSeedHistory(SeedRow(k, i), rowsBefore(k) + i)
      /\ s[2 * m + 1] = PutChangeSet
      /\ s[2 * m + 2] = PutHeld
    BY <1>1, SeedEntities
<1>3. DOMAIN s = 1 .. 2 * m + 2
    BY <1>2, SeqFacts
<1>4. ASSUME NEW j \in DOMAIN s PROVE s[j].do \notin {"history", "pairings"}
    <2>1. j \in 1 .. 2 * m + 2
        BY <1>3
    <2>2. \/ j = 2 * m + 1 \/ j = 2 * m + 2
          \/ j \in 1 .. 2 * m
        <3>1. m \in Nat
            BY <1>2
        <3>2. QED
            BY <2>1, <3>1
    <2>3. CASE j = 2 * m + 1 \/ j = 2 * m + 2
        BY <1>2, <2>3 DEF PutChangeSet, PutHeld
    <2>4. CASE j \in 1 .. 2 * m
        <3>1. PICK i \in 1 .. m : j = 2 * i - 1 \/ j = 2 * i
            BY <1>2, <2>4, InPairs
        <3>2. s[j] = PutRow(SeedRow(k, i)) \/ s[j] = PutSeedHistory(SeedRow(k, i), rowsBefore(k) + i)
            BY <1>2, <3>1
        <3>3. QED
            BY <3>2 DEF PutRow, PutSeedHistory
    <2>5. QED
        BY <2>2, <2>3, <2>4
<1>5. Plain(s)
    BY <1>4 DEF Plain
<1>6. ASSUME NEW i \in DOMAIN seedPart[k]
      PROVE  /\ \E j \in DOMAIN s : s[j] = PutRow(SeedRow(k, i))
             /\ \E j \in DOMAIN s : s[j] = PutSeedHistory(SeedRow(k, i), rowsBefore(k) + i)
    <2>1. i \in 1 .. m /\ m \in Nat
        BY <1>2
    <2>2. 2 * i - 1 \in 1 .. 2 * m + 2 /\ 2 * i \in 1 .. 2 * m + 2
        BY <2>1
    <2>3. QED
        BY <1>2, <1>3, <2>1, <2>2
<1>7. CASE k = 1
    <2>1. PICK t : t = <<PutBlob(SeedImage)>>
        OBVIOUS
    <2>2. IsSeq(t) /\ Plain(t)
        <3>1. PutBlob(SeedImage).do \notin {"history", "pairings"}
            BY DEF PutBlob
        <3>2. QED
            BY <2>1, <3>1, ShortPlans DEF Plain
    <2>3. PICK st : st = s \o t
        OBVIOUS
    <2>4. Plain(st) /\ Includes(st, s)
        BY <1>2, <1>5, <2>2, <2>3, PlainConcat
    <2>5. SeedSegment(k) = st
        BY <1>1, <1>7, <2>1, <2>3 DEF SeedSegment
    <2>6. \A j \in DOMAIN s : \E l \in DOMAIN st : st[l] = s[j]
        BY <2>4 DEF Includes
    <2>7. ASSUME NEW x, \E j \in DOMAIN s : s[j] = x PROVE \E l \in DOMAIN st : st[l] = x
        BY <2>6, <2>7
    <2>8. QED
        BY <1>6, <2>4, <2>5, <2>7
<1>8. CASE k # 1
    <2>1. SeedSegment(k) = s \o <<>>
        BY <1>1, <1>8 DEF SeedSegment
    <2>2. s \o <<>> = s
        BY <1>2 DEF IsSeq
    <2>3. QED
        BY <1>5, <1>6, <2>1, <2>2
<1>9. QED
    BY <1>7, <1>8

(* The plan of the seed writes the whole seed and nothing of a call. *)
LEMMA SeedPlanWrites ==
    ASSUME NEW n
    PROVE  SeedGoesOn(n, writeSeedPart) /\ Traced(n, writeSeedPart)
<1>1. PICK U : U = Elements(SeedSegments)
    OBVIOUS
<1>2. SeedSegments \in Seq(Seq(U))
    BY <1>1, SeedPlan, SequencesOfSequences
<1> DEFINE T == [i \in Nat |-> {p \in Seq(U) :
                    Plain(p) /\ \A k \in 1 .. i : Includes(p, SeedSegments[k])}]
<1>3. <<>> \in T[0]
    BY EmptySeq DEF Plain
<1>4. ASSUME NEW i \in 1 .. Len(SeedSegments), NEW p \in T[i - 1]
      PROVE  p \o SeedSegments[i] \in T[i]
    <2>0. i \in Nat /\ i - 1 \in Nat
        BY <1>4
    <2>1. /\ p \in Seq(U) /\ Plain(p)
          /\ \A k \in 1 .. i - 1 : Includes(p, SeedSegments[k])
        BY <1>4, <2>0
    <2>2. PICK t : t = SeedSegments[i]
        OBVIOUS
    <2>3. IsSeq(t) /\ Plain(t) /\ t \in Seq(U)
        <3>1. i \in DOMAIN seedPart
            BY <1>4, SeedPlan
        <3>2. IsSeq(t) /\ t = SeedSegment(i)
            BY <2>2, <3>1, SeedPlan
        <3>3. Plain(t)
            BY <3>1, <3>2, SeedSegmentWrites
        <3>4. t \in Seq(U)
            BY <1>2, <2>2
        <3>5. QED
            BY <3>2, <3>3, <3>4
    <2>4. PICK pt : pt = p \o t
        OBVIOUS
    <2>5. Plain(pt) /\ Includes(pt, p) /\ Includes(pt, t)
        BY <2>1, <2>3, <2>4, RangeSeq, PlainConcat
    <2>6. pt \in Seq(U)
        BY <2>1, <2>3, <2>4
    <2>7. ASSUME NEW k \in 1 .. i PROVE Includes(pt, SeedSegments[k])
        <3>1. k = i \/ k \in 1 .. i - 1
            BY <2>0, <2>7
        <3>2. CASE k = i
            BY <2>2, <2>5, <3>2
        <3>3. CASE k \in 1 .. i - 1
            BY <2>1, <2>5, <3>3 DEF Includes
        <3>4. QED
            BY <3>1, <3>2, <3>3
    <2>8. QED
        BY <2>0, <2>2, <2>4, <2>5, <2>6, <2>7
<1>5. Len(SeedSegments) \in Nat
    BY <1>2
<1>6. FlattenSeq(SeedSegments) \in T[Len(SeedSegments)]
    <2> HIDE DEF T
    <2>1. QED
        BY <1>2, <1>3, <1>4, FlattenBuilds
<1>7. PICK w : w = writeSeedPart
    OBVIOUS
<1>8. Plain(w) /\ \A k \in 1 .. Len(SeedSegments) : Includes(w, SeedSegments[k])
    BY <1>5, <1>6, <1>7, SeedPlan
<1>9. ASSUME NEW k \in DOMAIN seedPart, NEW i \in DOMAIN seedPart[k]
      PROVE  /\ \E j \in DOMAIN w : w[j] = PutRow(SeedRow(k, i))
             /\ \E j \in DOMAIN w : w[j] = PutSeedHistory(SeedRow(k, i), rowsBefore(k) + i)
    <2>1. Includes(w, SeedSegment(k))
        BY <1>8, SeedPlan
    <2>2. PICK j \in DOMAIN SeedSegment(k) : SeedSegment(k)[j] = PutRow(SeedRow(k, i))
        BY SeedSegmentWrites
    <2>3. PICK l \in DOMAIN SeedSegment(k) :
            SeedSegment(k)[l] = PutSeedHistory(SeedRow(k, i), rowsBefore(k) + i)
        BY SeedSegmentWrites
    <2>4. QED
        BY <2>1, <2>2, <2>3 DEF Includes
<1>10. SeedGoesOn(n, w)
    BY <1>8, <1>9 DEF SeedGoesOn, Plain
<1>11. Traced(n, w)
    BY <1>8 DEF Traced, Plain
<1>12. QED
    BY <1>7, <1>10, <1>11

(* What a plan supersedes stays superseded. *)
LEMMA TracedStays ==
    ASSUME StoreInv, Next, NEW m \in Nodes, NEW s, Traced(m, s)
    PROVE  Traced(m, s)'
<1>1. history[m] \subseteq history'[m]
    BY StoresGrow
<1>2. leftOut' # Nodes => leftOut # Nodes
    BY LeftOutGrows
<1>3. ASSUME NEW row, NEW previous, Supersedes(m, row, previous) PROVE Supersedes(m, row, previous)'
    BY <1>1, <1>2, <1>3 DEF Supersedes
<1>4. QED
    BY <1>3 DEF Traced

(* A node that plans pairings has the seed. *)
LEMMA PairingsWaitForSeed ==
    ASSUME SeedsWhole, NEW m \in Nodes, 1 \in DOMAIN chain[m],
           1 \in DOMAIN chain[m][1].todo, chain[m][1].todo[1].do = "pairings",
           leftOut # Nodes
    PROVE  HasSeed(m)
<1>1. ~Unseeded(m)
    BY DEF Unseeded
<1>2. ~InSeed(m)
    BY DEF InSeed, SeedGoesOn
<1>3. QED
    BY <1>1, <1>2 DEF SeedsWhole

(* Every step keeps the plans so. *)
LEMMA TracedKept ==
    ASSUME StoreInv, LineageInv, Next
    PROVE  PlansTraced'
<1>1. ASSUME NEW m \in Nodes, NEW i \in DOMAIN chain'[m], NEW s, s = chain'[m][i].todo
      PROVE  Traced(m, s)
    <2>1. PICK job : s = job.todo /\ Comes(m, i, job)
        BY <1>1, ChainSteps
    <2>2. CASE s = <<>>
        BY <2>2, ShortPlans, TracedWithout
    <2>3. CASE SeedingJob(job)
        BY <2>1, <2>3, SeedPlanWrites DEF SeedingJob
    <2>4. ASSUME 1 \in DOMAIN chain[m], SameJob(m, job) PROVE Traced(m, s)
        BY <2>1, <2>4 DEF SameJob, LineageInv, PlansTraced
    <2>5. ASSUME 1 \in DOMAIN chain[m], RestJob(m, job) PROVE Traced(m, s)
        <3>1. PICK before : before = chain[m][1].todo
            OBVIOUS
        <3>2. s = Tail(before) /\ IsSeq(before) /\ before # <<>>
            BY <2>1, <2>5, <3>1 DEF RestJob, Running
        <3>3. Traced(m, before)
            BY <2>5, <3>1 DEF LineageInv, PlansTraced
        <3>4. \A k \in DOMAIN s : k + 1 \in DOMAIN before /\ s[k] = before[k + 1]
            BY <3>2, TailFacts
        <3>5. QED
            BY <3>3, <3>4 DEF Traced
    <2>6. ASSUME 1 \in DOMAIN chain[m], BegunJob(m, job) PROVE Traced(m, s)
        <3>1. PICK call : call = chain[m][1].call
            OBVIOUS
        <3>2. call \in Calls /\ s = plan(m, call)
            BY <2>1, <2>6, <3>1 DEF BegunJob, Waiting
        <3>3. QED
            BY <3>2, TracedCall DEF StoreInv
    <2>7. ASSUME 1 \in DOMAIN chain[m], PairingsJob(m, job) PROVE Traced(m, s)
        <3>1. PICK before, animal : before = chain[m][1] /\ animal = before.todo[1].animal
            OBVIOUS
        <3>2. /\ Running(m, before) /\ before.todo[1].do = "pairings"
              /\ s = writePairings(m, animal) \o recordChangeSet
            BY <2>1, <2>7, <3>1 DEF PairingsJob
        <3>3. 1 \in DOMAIN before.todo
            BY <3>2, TailFacts DEF Running
        <3>4. IsAnimal(animal)
            BY <3>1, <3>2, <3>3 DEF Running, JobWrite, FreshWrite
        <3>5. leftOut # Nodes => HasSeed(m)
            BY <2>7, <3>1, <3>2, <3>3, PairingsWaitForSeed DEF LineageInv
        <3>6. Traced(m, writePairings(m, animal) \o recordChangeSet)
            BY <3>4, <3>5, TracedPairings DEF StoreInv
        <3>7. QED
            BY <3>2, <3>6
    <2>8. QED
        BY <2>1, <2>2, <2>3, <2>4, <2>5, <2>6, <2>7 DEF Comes, Continues
<1>2. ASSUME NEW m \in Nodes, NEW i \in DOMAIN chain'[m] PROVE Traced(m, chain[m][i].todo)'
    <2>1. PICK s : s = chain'[m][i].todo
        OBVIOUS
    <2>2. Traced(m, s)
        BY <1>1, <2>1
    <2>3. Traced(m, s)'
        BY <2>2, TracedStays
    <2>4. QED
        BY <2>1, <2>3
<1>3. QED
    BY <1>2 DEF PlansTraced

-----------------------------------------------------------------------------
(* A step concerns one node.                                               *)

(* A function that changes at one place at most. *)
OnlyAt(f, g, n) == g = f \/ \E x : g = [f EXCEPT ![n] = x]

(* What a step of one node does. *)
NodeStep(n) ==
    \/ Call(n) \/ Boot(n) \/ Serves(n) \/ Crash(n) \/ PullItems(n)
    \/ ReadInvoice(n) \/ ReadVersion(n) \/ ReadImage(n)
    \/ \E i \in DOMAIN chain[n] : JobStep(n, i)
    \/ \E pull \in pulls[n] : PullStep(n, pull)

(* A step of a node leaves the others alone. *)
LEMMA StepsStayHome ==
    ASSUME StoreInv, NEW n \in Nodes, NodeStep(n), NEW m \in Nodes, m # n
    PROVE  /\ rows'[m] = rows[m] /\ history'[m] = history[m]
           /\ changeSets'[m] = changeSets[m] /\ held'[m] = held[m]
           /\ up'[m] = up[m] /\ chain'[m] = chain[m] /\ pulls'[m] = pulls[m]
<1> DEFINE Home == /\ OnlyAt(rows, rows', n) /\ OnlyAt(history, history', n)
                   /\ OnlyAt(changeSets, changeSets', n) /\ OnlyAt(held, held', n)
                   /\ OnlyAt(up, up', n) /\ OnlyAt(chain, chain', n) /\ OnlyAt(pulls, pulls', n)
<1>0. ASSUME NEW f, NEW g, g = f PROVE OnlyAt(f, g, n)
    BY <1>0 DEF OnlyAt
<1>1. ASSUME Call(n) PROVE Home
    BY <1>1 DEF Call, tables, OnlyAt
<1>2. ASSUME Boot(n) \/ Serves(n) \/ Crash(n) PROVE Home
    <2>1. UNCHANGED <<rows, history, changeSets, held>>
        BY <1>2 DEF Boot, Serves, Crash, tables
    <2>2. OnlyAt(up, up', n)
        BY <1>2 DEF Boot, Serves, Crash, OnlyAt
    <2>3. OnlyAt(chain, chain', n)
        BY <1>2 DEF Boot, Serves, Crash, OnlyAt
    <2>4. OnlyAt(pulls, pulls', n)
        BY <1>2 DEF Boot, Serves, Crash, OnlyAt
    <2>5. QED
        BY <1>0, <2>1, <2>2, <2>3, <2>4
<1>3. ASSUME NEW others, NEW pull, NEW items, WithItems(n, others, pull, items)
      PROVE  OnlyAt(rows, rows', n) /\ OnlyAt(history, history', n) /\ OnlyAt(pulls, pulls', n)
    BY <1>3 DEF WithItems, OnlyAt
<1>4. ASSUME PullItems(n) PROVE Home
    <2>1. \E others, pull, items : WithItems(n, others, pull, items)
        BY <1>4 DEF PullItems
    <2>2. UNCHANGED <<changeSets, held, up, chain>>
        BY <1>4 DEF PullItems
    <2>3. QED
        BY <1>0, <1>3, <2>1, <2>2
<1>5. ASSUME ReadInvoice(n) \/ ReadVersion(n) \/ ReadImage(n) PROVE Home
    <2>1. rows' = rows \/ \E cached : rows' = [rows EXCEPT ![n] = @ \cup cached]
        BY <1>5 DEF ReadInvoice, ReadVersion, ReadImage, tables, readMatching
    <2>2. OnlyAt(rows, rows', n)
        BY <2>1 DEF OnlyAt
    <2>3. UNCHANGED <<history, changeSets, held, up, chain, pulls>>
        BY <1>5 DEF ReadInvoice, ReadVersion, ReadImage, tables
    <2>4. QED
        BY <1>0, <2>2, <2>3
<1>6. ASSUME NEW i, NEW job, WithJob(n, i, job) PROVE OnlyAt(chain, chain', n)
    BY <1>6 DEF WithJob, OnlyAt
<1>7. ASSUME NEW i, JobStep(n, i) PROVE Home
    <2>1. OnlyAt(chain, chain', n)
        BY <1>6, <1>7 DEF JobStep, Begin, WriteRow, WriteHistory, WriteSeedHistory, AddHistory,
            StoreImage, PlanPairings, WriteChangeSet, RecordChangeSet, Done
    <2>2. UNCHANGED <<up, pulls>>
        BY <1>7 DEF JobStep, Begin, WriteRow, WriteHistory, WriteSeedHistory, AddHistory,
            StoreImage, PlanPairings, WriteChangeSet, RecordChangeSet
    <2>3. OnlyAt(rows, rows', n) /\ OnlyAt(history, history', n)
        BY <1>7 DEF JobStep, Begin, WriteRow, WriteHistory, WriteSeedHistory, AddHistory,
            StoreImage, PlanPairings, WriteChangeSet, RecordChangeSet, tables, OnlyAt
    <2>4. OnlyAt(changeSets, changeSets', n) /\ OnlyAt(held, held', n)
        BY <1>7 DEF JobStep, Begin, WriteRow, WriteHistory, WriteSeedHistory, AddHistory,
            StoreImage, PlanPairings, WriteChangeSet, RecordChangeSet, tables, OnlyAt
    <2>5. QED
        BY <1>0, <2>1, <2>2, <2>3, <2>4
<1>8. ASSUME NEW pull, PullStep(n, pull) PROVE Home
    <2>1. ASSUME NEW new, With(n, pull, new) PROVE OnlyAt(pulls, pulls', n)
        BY <2>1 DEF With, OnlyAt
    <2>2. CASE PullDependency(n, pull)
        <3>1. UNCHANGED <<changeSets, held, up, chain>>
            BY <2>2 DEF PullDependency
        <3>2. \/ \E new : With(n, pull, new) /\ UNCHANGED <<rows, history>>
              \/ \E others, new, items : WithItems(n, others, new, items)
            BY <2>2 DEF PullDependency
        <3>3. OnlyAt(rows, rows', n) /\ OnlyAt(history, history', n) /\ OnlyAt(pulls, pulls', n)
            BY <1>3, <2>1, <3>2 DEF OnlyAt
        <3>4. QED
            BY <1>0, <3>1, <3>3
    <2>3. CASE LeaveDependency(n, pull)
        BY <2>3 DEF LeaveDependency, With, tables, OnlyAt
    <2>4. CASE PullBlobs(n, pull)
        BY <2>4 DEF PullBlobs, With, tables, OnlyAt
    <2>5. CASE WriteReceived(n, pull)
        BY <2>5 DEF WriteReceived, With, OnlyAt
    <2>6. CASE RecordReceived(n, pull)
        BY <2>6 DEF RecordReceived, OnlyAt
    <2>7. QED
        BY <1>8, <2>2, <2>3, <2>4, <2>5, <2>6 DEF PullStep
<1> HIDE DEF Home
<1>9. Home
    BY <1>1, <1>2, <1>4, <1>5, <1>7, <1>8 DEF NodeStep
<1>10. ASSUME NEW f, NEW g, DOMAIN f = Nodes, OnlyAt(f, g, n) PROVE g[m] = f[m]
    BY <1>10 DEF OnlyAt
<1>11. DOMAIN up = Nodes
    BY DEF StoreInv, Counters
<1>12. QED
    BY <1>9, <1>10, <1>11 DEF StoreInv, Shape, Home

(* A seeded node stays one. *)
LEMMA HasSeedStays ==
    ASSUME StoreInv, Next, NEW m \in Nodes, HasSeed(m)
    PROVE  HasSeed(m)'
BY StoresGrow DEF HasSeed

(* A job whose first write is done is the rest of it. *)
LEMMA RestOfJob ==
    ASSUME NEW n, NEW job, Running(n, job), NEW items
    PROVE  TodoItemsSet(job, Tail(job.todo), items) = Rest(job, items)
<1>1. PICK b, more : b = TRUE /\ more = Tail(job.todo)
    OBVIOUS
<1>2. job = JobRecord(job.call, b, job.todo, job.items)
    BY <1>1 DEF Running, JobRecord
<1>3. TodoItemsSet(job, more, items) = JobRecord(job.call, b, more, items)
    BY <1>2, JobWith
<1>4. QED
    BY <1>1, <1>3 DEF Rest

(* The next write of the only job of a chain. *)
LEMMA OnlyJobMoves ==
    ASSUME StoreInv, NEW m \in Nodes, 1 \in DOMAIN chain[m], Len(chain[m]) = 1,
           NEW kind, Writes(m, 1, kind), NEW items, Done(m, 1, items),
           Tail(chain[m][1].todo) # <<>>
    PROVE  /\ Len(chain'[m]) = 1
           /\ chain'[m][1].begun
           /\ chain'[m][1].todo = Tail(chain[m][1].todo)
<1>1. Running(m, chain[m][1])
    BY JobWriting DEF StoreInv
<1>2. PICK job : job = chain[m][1]
    OBVIOUS
<1>3. PICK new : new = Rest(job, items)
    OBVIOUS
<1>4. TodoItemsSet(job, Tail(job.todo), items) = new
    BY <1>1, <1>2, <1>3, RestOfJob
<1>5. WithJob(m, 1, new)
    <2>1. WithJob(m, 1, TodoItemsSet(chain[m][1], Tail(chain[m][1].todo), items))
        BY DEF Done, TodoItemsSet
    <2>2. QED
        BY <1>2, <1>4, <2>1
<1>6. new.todo = Tail(job.todo) /\ new.begun
    BY <1>3 DEF Rest, JobRecord
<1>7. chain'[m] = [chain[m] EXCEPT ![1] = new]
    BY <1>2, <1>5, <1>6 DEF WithJob, StoreInv, Shape
<1>8. PICK s : s = chain[m]
    OBVIOUS
<1>9. IsSeq(s) /\ Len(s) = 1 /\ s # <<>>
    BY <1>8, SeqFacts DEF StoreInv, Jobs
<1>10. PICK t : t = [s EXCEPT ![1] = new]
    OBVIOUS
<1>11. IsSeq(t) /\ DOMAIN t = DOMAIN s /\ t[1] = new
    BY <1>9, <1>10, ReplaceFirst
<1>12. Len(t) = 1
    <2>1. DOMAIN t = 1 .. 1 /\ DOMAIN t = 1 .. Len(t) /\ Len(t) \in Nat
        BY <1>9, <1>11, SeqFacts
    <2>2. QED
        BY <2>1
<1>13. chain'[m] = t
    BY <1>7, <1>8, <1>10
<1>14. QED
    BY <1>2, <1>6, <1>11, <1>12, <1>13

-----------------------------------------------------------------------------
(* The seed is written whole, unless it is interrupted.                    *)

(* What is left of the seed after its next write. *)
LEMMA SeedShrinks ==
    ASSUME NEW m, NEW s, IsSeq(s), s # <<>>, SeedGoesOn(m, s),
           rows[m] \subseteq rows'[m], history[m] \subseteq history'[m],
           s[1].do = "row" => s[1].row \in rows'[m],
           s[1].do = "seed" =>
                HistoryRow(seedTimeId(m, s[1].sequence), s[1].row, {}, "seed") \in history'[m]
    PROVE  SeedGoesOn(m, Tail(s))'
<1>1. PICK t : t = Tail(s)
    OBVIOUS
<1>2. /\ \A k \in DOMAIN t : k + 1 \in DOMAIN s /\ t[k] = s[k + 1]
      /\ IsSeq(t) /\ Len(t) = Len(s) - 1
    BY <1>1, TailFacts
<1>3. ASSUME NEW j \in DOMAIN s, j # 1 PROVE \E l \in DOMAIN t : t[l] = s[j]
    <2>1. DOMAIN s = 1 .. Len(s) /\ Len(s) \in Nat /\ DOMAIN t = 1 .. Len(t)
        BY <1>2, SeqFacts
    <2>2. j - 1 \in DOMAIN t /\ j - 1 + 1 = j
        BY <1>2, <1>3, <2>1
    <2>3. t[j - 1] = s[j]
        BY <1>2, <2>2
    <2>4. QED
        BY <2>2, <2>3
<1>4. ASSUME NEW k \in DOMAIN t PROVE t[k].do \notin {"history", "pairings"}
    BY <1>2 DEF SeedGoesOn
<1>5. ASSUME NEW k \in DOMAIN seedPart, NEW i \in DOMAIN seedPart[k]
      PROVE  /\ \/ SeedRow(k, i) \in rows'[m]
                \/ \E j \in DOMAIN t : t[j] = PutRow(SeedRow(k, i))
             /\ \/ SeedVersion(k, i) \in history'[m]
                \/ \E j \in DOMAIN t : t[j] = PutSeedHistory(SeedRow(k, i), rowsBefore(k) + i)
    <2>1. SeedRow(k, i) \in rows[m] \/ \E j \in DOMAIN s : s[j] = PutRow(SeedRow(k, i))
        BY DEF SeedGoesOn
    <2>2. \/ SeedVersion(k, i) \in history[m]
          \/ \E j \in DOMAIN s : s[j] = PutSeedHistory(SeedRow(k, i), rowsBefore(k) + i)
        BY DEF SeedGoesOn
    <2>3. s[1] = PutRow(SeedRow(k, i)) => SeedRow(k, i) \in rows'[m]
        BY DEF PutRow
    <2>4. s[1] = PutSeedHistory(SeedRow(k, i), rowsBefore(k) + i) => SeedVersion(k, i) \in history'[m]
        BY DEF PutSeedHistory, SeedVersion, seedTimeId
    <2>5. QED
        BY <1>3, <2>1, <2>2, <2>3, <2>4
<1>6. SeedGoesOn(m, t)'
    BY <1>4, <1>5 DEF SeedGoesOn
<1>7. QED
    BY <1>1, <1>6

(* When nothing is left of the seed the store has it. *)
LEMMA SeedEnds ==
    ASSUME NEW m, SeedGoesOn(m, <<>>)'
    PROVE  HasSeed(m)'
BY DEF SeedGoesOn, HasSeed

(* A write of the seed is followed by the next one or was the last. *)
LEMMA SeedMoves ==
    ASSUME StoreInv, Next, NEW m \in Nodes, InSeed(m), NEW i \in DOMAIN chain[m], JobStep(m, i)
    PROVE  InSeed(m)' \/ HasSeed(m)'
<1>1. i = 1 /\ chain[m][1].begun
    BY DEF JobStep, Begin, WriteRow, WriteHistory, WriteSeedHistory, StoreImage, PlanPairings,
        WriteChangeSet, RecordChangeSet, Writes, pendingWrite, InSeed
<1>2. PICK s : s = chain[m][1].todo
    OBVIOUS
<1>3. 1 \in DOMAIN chain[m]
    BY <1>1
<1>4. UNCHANGED <<up, pulls>> /\ pulls[m] = {} /\ up[m] = "seeding"
    BY DEF JobStep, Begin, WriteRow, WriteHistory, WriteSeedHistory, AddHistory, StoreImage,
        PlanPairings, WriteChangeSet, RecordChangeSet, InSeed
<1>5. rows[m] \subseteq rows'[m] /\ history[m] \subseteq history'[m]
    BY StoresGrow
<1>6. ASSUME NEW kind, Writes(m, 1, kind)
      PROVE  /\ IsSeq(s) /\ s # <<>> /\ s[1].do = kind /\ Head(s) = s[1]
             /\ kind \notin {"history", "pairings"}
    <2>1. /\ IsSeq(s) /\ s # <<>> /\ 1 \in DOMAIN s /\ s[1].do = kind /\ Head(s) = s[1]
        BY <1>2, <1>3, <1>6, JobWriting DEF StoreInv
    <2>2. QED
        BY <1>2, <2>1 DEF InSeed, SeedGoesOn
<1>7. ASSUME NEW kind, Writes(m, 1, kind), NEW items, Done(m, 1, items),
             kind = "row" => s[1].row \in rows'[m],
             kind = "seed" =>
                HistoryRow(seedTimeId(m, s[1].sequence), s[1].row, {}, "seed") \in history'[m],
             history'[m] \subseteq SeedVersions
      PROVE  InSeed(m)' \/ HasSeed(m)'
    <2>1. IsSeq(s) /\ s # <<>> /\ s[1].do = kind
        BY <1>6, <1>7
    <2>2. SeedGoesOn(m, s)
        BY <1>2 DEF InSeed
    <2>3. SeedGoesOn(m, Tail(s))'
        BY <1>5, <1>7, <2>1, <2>2, SeedShrinks
    <2>4. CASE Tail(s) = <<>>
        BY <2>3, <2>4, SeedEnds
    <2>5. CASE Tail(s) # <<>>
        <3>1. Len(chain[m]) = 1
            BY DEF InSeed
        <3>2. Len(chain'[m]) = 1 /\ chain'[m][1].begun /\ chain'[m][1].todo = Tail(s)
            BY <1>2, <1>3, <1>7, <2>5, <3>1, OnlyJobMoves
        <3>3. SeedGoesOn(m, chain[m][1].todo)'
            BY <2>3, <3>2
        <3>4. QED
            BY <1>4, <1>7, <3>2, <3>3 DEF InSeed
    <2>6. QED
        BY <2>4, <2>5
<1>8. history[m] \subseteq SeedVersions
    BY DEF InSeed
<1>9. CASE WriteRow(m, 1)
    <2>1. PICK items : items = chain[m][1].items \cup {Head(s).row}
        OBVIOUS
    <2>2. /\ Writes(m, 1, "row") /\ Done(m, 1, items)
          /\ rows' = [rows EXCEPT ![m] = @ \cup {Head(s).row}]
          /\ history' = history
        BY <1>2, <1>9, <2>1 DEF WriteRow
    <2>3. s[1].row \in rows'[m]
        BY <1>6, <2>2 DEF StoreInv, Shape
    <2>4. QED
        BY <1>7, <1>8, <2>2, <2>3
<1>10. CASE WriteSeedHistory(m, 1)
    <2>1. PICK v : v = HistoryRow(seedTimeId(m, Head(s).sequence), Head(s).row, {}, "seed")
        OBVIOUS
    <2>2. PICK items : items = chain[m][1].items \cup {v}
        OBVIOUS
    <2>3. /\ Writes(m, 1, "seed") /\ Done(m, 1, items)
          /\ history' = [history EXCEPT ![m] = @ \cup {v}]
        BY <1>2, <1>10, <2>1, <2>2 DEF WriteSeedHistory, AddHistory
    <2>4. Head(s) = s[1]
        BY <1>6, <2>3
    <2>5. v \in SeedVersions
        <3>1. JobWrite(m, s, 1, chain[m][1].items) /\ s[1].do = "seed"
            BY <1>2, <1>3, <2>3, JobWriting DEF StoreInv
        <3>2. QED
            BY <2>1, <2>4, <3>1 DEF JobWrite, FreshWrite
    <2>6. history'[m] = history[m] \cup {v}
        BY <2>3 DEF StoreInv, Shape
    <2>7. QED
        BY <1>7, <1>8, <2>1, <2>3, <2>4, <2>5, <2>6
<1>11. CASE StoreImage(m, 1) \/ WriteChangeSet(m, 1) \/ RecordChangeSet(m, 1)
    <2>1. history' = history
        BY <1>11 DEF StoreImage, WriteChangeSet, RecordChangeSet, tables
    <2>2. PICK kind, items : kind \in {"blob", "changeSet", "held"} /\ Writes(m, 1, kind)
                             /\ Done(m, 1, items)
        BY <1>11 DEF StoreImage, WriteChangeSet, RecordChangeSet
    <2>3. QED
        BY <1>7, <1>8, <2>1, <2>2
<1>12. CASE Begin(m, 1)
    BY <1>1, <1>12 DEF Begin
<1>13. CASE WriteHistory(m, 1)
    BY <1>6, <1>13 DEF WriteHistory
<1>14. CASE PlanPairings(m, 1)
    BY <1>6, <1>14 DEF PlanPairings
<1>15. QED
    BY <1>1, <1>9, <1>10, <1>11, <1>12, <1>13, <1>14 DEF JobStep

(* A node with an empty store that starts begins its seed. *)
LEMMA SeedBegins ==
    ASSUME StoreInv, NEW m \in Nodes, Unseeded(m), NodeStep(m)
    PROVE  InSeed(m)'
<1>1. up[m] = "down" /\ isEmpty(m) /\ chain[m] = <<>> /\ pulls[m] = {}
    BY DEF Unseeded
<1>2. Boot(m)
    BY <1>1 DEF NodeStep, Call, Serves, Crash, PullItems, ReadInvoice, ReadVersion, ReadImage
<1>3. /\ up'[m] = "seeding" /\ pulls'[m] = {}
      /\ chain'[m] = <<SeedJob>>
      /\ history'[m] = {} /\ rows' = rows /\ history' = history
    BY <1>1, <1>2 DEF Boot, tables, isEmpty, StoreInv, Shape, Counters
<1>4. Len(<<SeedJob>>) = 1 /\ <<SeedJob>>[1] = SeedJob
    OBVIOUS
<1>5. SeedJob.begun /\ SeedJob.todo = writeSeedPart
    BY DEF SeedJob, Job
<1>6. SeedGoesOn(m, writeSeedPart)'
    <2>1. SeedGoesOn(m, writeSeedPart)
        BY SeedPlanWrites
    <2>2. QED
        BY <1>3, <2>1 DEF SeedGoesOn
<1>7. Len(chain'[m]) = 1 /\ chain'[m][1] = SeedJob
    BY <1>3, <1>4
<1>8. chain'[m][1].begun /\ SeedGoesOn(m, chain[m][1].todo)'
    BY <1>5, <1>6, <1>7
<1>9. QED
    BY <1>3, <1>7, <1>8 DEF InSeed

(* Every step keeps the seed whole, unless it is a crash in one. *)
LEMMA SeedsKept ==
    ASSUME StoreInv, LineageInv, Next
    PROVE  SeedsWhole'
<1> SUFFICES ASSUME leftOut' # Nodes, NEW m \in Nodes
             PROVE  Unseeded(m)' \/ InSeed(m)' \/ HasSeed(m)'
    BY DEF SeedsWhole, Unseeded, InSeed, HasSeed
<1>1. leftOut # Nodes
    BY LeftOutGrows
<1>2. PICK n \in Nodes : NodeStep(n)
    BY DEF Next, NodeStep
<1>3. CASE HasSeed(m)
    BY <1>3, HasSeedStays
<1>4. CASE m # n
    <2>1. /\ rows'[m] = rows[m] /\ history'[m] = history[m]
          /\ changeSets'[m] = changeSets[m] /\ held'[m] = held[m]
          /\ up'[m] = up[m] /\ chain'[m] = chain[m] /\ pulls'[m] = pulls[m]
        BY <1>2, <1>4, StepsStayHome
    <2>2. CASE Unseeded(m)
        BY <2>1, <2>2 DEF Unseeded, isEmpty
    <2>3. CASE InSeed(m)
        <3>1. SeedGoesOn(m, chain[m][1].todo)'
            BY <2>1, <2>3 DEF InSeed, SeedGoesOn
        <3>2. QED
            BY <2>1, <2>3, <3>1 DEF InSeed
    <2>4. QED
        BY <1>1, <1>3, <2>2, <2>3 DEF LineageInv, SeedsWhole
<1>5. CASE m = n /\ Unseeded(m)
    BY <1>2, <1>5, SeedBegins
<1>6. CASE m = n /\ InSeed(m)
    <2>1. up[m] = "seeding" /\ chain[m] # <<>> /\ pulls[m] = {}
        BY <1>6 DEF InSeed
    <2>2. ~Crash(m)
        BY <2>1 DEF Crash
    <2>3. \E i \in DOMAIN chain[m] : JobStep(m, i)
        BY <1>2, <1>6, <2>1, <2>2
           DEF NodeStep, Call, Boot, Serves, PullItems, ReadInvoice, ReadVersion, ReadImage
    <2>4. QED
        BY <1>6, <2>3, SeedMoves
<1>7. QED
    BY <1>1, <1>3, <1>4, <1>5, <1>6 DEF LineageInv, SeedsWhole

-----------------------------------------------------------------------------
(* What versions name is followed.                                         *)

(* What is found stays found. *)
LEMMA ResolvedStays ==
    ASSUME NEW n, NEW r, Resolved(n, r),
           rows[n] \subseteq rows'[n], history[n] \subseteq history'[n]
    PROVE  Resolved(n, r)'
BY DEF Resolved, Found

(* Following goes on when the walks do, and when what comes is followed. *)
LEMMA FollowedOn ==
    ASSUME NEW n, Followed(n), rows[n] \subseteq rows'[n], history[n] \subseteq history'[n],
           \A pull \in pulls'[n] : pull \in pulls[n] \/ PullFollows(n, pull)',
           \A pull \in pulls[n] : \A r \in pull.walk : Reached(n, r)',
           \A v \in history'[n] : v \in history[n]
                \/ (IsWritten(v) => \A r \in referencesOf(v) : Reached(n, r)')
    PROVE  Followed(n)'
<1>1. ASSUME NEW r, Reached(n, r) PROVE Reached(n, r)'
    <2>1. CASE Resolved(n, r)
        BY <2>1, ResolvedStays DEF Reached
    <2>2. CASE \E pull \in pulls[n] : r \in pull.walk
        BY <2>2
    <2>3. QED
        BY <1>1, <2>1, <2>2 DEF Reached
<1>2. ASSUME NEW v \in history'[n], IsWritten(v), NEW r \in referencesOf(v) PROVE Reached(n, r)'
    <2>1. CASE v \in history[n]
        BY <1>1, <1>2, <2>1 DEF Followed
    <2>2. QED
        BY <1>2, <2>1
<1>3. ASSUME NEW pull \in pulls'[n] PROVE PullFollows(n, pull)'
    <2>1. CASE pull \in pulls[n]
        <3>1. PullFollows(n, pull)
            BY <2>1 DEF Followed
        <3>2. QED
            BY <3>1, ResolvedStays DEF PullFollows
    <2>2. QED
        BY <1>3, <2>1
<1>4. (\A v \in history[n] : IsWritten(v) => \A r \in referencesOf(v) : Reached(n, r))'
    BY <1>2 DEF IsWritten
<1>5. (\A pull \in pulls[n] : PullFollows(n, pull))'
    BY <1>3
<1>6. QED
    BY <1>4, <1>5 DEF Followed

(* The version that a node writes names what it has. *)
LEMMA NextIsResolved ==
    ASSUME StoreInv, ForkInv, NEW n \in Nodes, 1 \in DOMAIN chain[n], WriteHistory(n, 1),
           NEW v, v = NextVersion(n), NEW r \in referencesOf(v)
    PROVE  Resolved(n, r)
<1>1. v.row \in rows[n] /\ Known(n, v.previous)
    BY NextOwnVersion
<1>2. referencesOf(v) = {v.row} \cup v.previous
    <2>1. IsHistoryRow(v)
        BY DEF NextVersion, HistoryRow, IsHistoryRow
    <2>2. QED
        BY <2>1 DEF referencesOf
<1>3. CASE r = v.row
    <2>1. ~IsTimeId(r)
        BY <1>1, <1>3, RowIsNoTime DEF StoreInv, Stored
    <2>2. QED
        BY <1>1, <1>3, <2>1 DEF Resolved, Found
<1>4. CASE r \in v.previous
    <2>1. PICK w \in history[n] : w.timeId = r
        BY <1>1, <1>4 DEF Known
    <2>2. IsVersion(w)
        BY <2>1 DEF StoreInv, Stored
    <2>3. IsTimeId(r)
        BY <2>1, <2>2, VersionReferences
    <2>4. QED
        BY <2>1, <2>3 DEF Resolved, Found
<1>5. QED
    BY <1>2, <1>3, <1>4

(* The items that a pull writes are followed by it. *)
LEMMA ItemsFollowed ==
    ASSUME StoreInv, NEW n \in Nodes, Followed(n),
           NEW others, others \subseteq pulls[n], NEW pull, IsPull(pull),
           pull.stage = "dependencies",
           NEW items, WithItems(n, others, pull, items),
           \A r \in pull.seen : r \in pull.walk \/ Resolved(n, r)',
           \A q \in pulls[n] : q \in others \/ \A r \in q.walk : r \in pull.walk \/ Resolved(n, r)'
    PROVE  Followed(n)'
<1> DEFINE inRows == rows[n] \cup rowsOf(items)
           inHistory == history[n] \cup historyOf(items)
           new == {r \in UNION {referencesOf(item) : item \in items} :
                        r \notin pull.seen /\ Found(inRows, inHistory, r) = {}}
<1>1. /\ rows' = [rows EXCEPT ![n] = inRows]
      /\ history' = [history EXCEPT ![n] = inHistory]
      /\ pulls' = [pulls EXCEPT ![n] = others \cup
                        {WalkSeenSet(pull, pull.walk \cup new, pull.seen \cup new)}]
    BY DEF WithItems, WalkSeenSet
<1> HIDE DEF new
<1>2. PICK after : after = PullRecord(pull.changeSet, pull.walk \cup new, pull.seen \cup new,
                                      pull.pulled, pull.stage)
    OBVIOUS
<1>3. after = WalkSeenSet(pull, pull.walk \cup new, pull.seen \cup new)
    BY <1>2, PullWith
<1>4. /\ rows'[n] = inRows /\ history'[n] = inHistory /\ pulls'[n] = others \cup {after}
    BY <1>1, <1>3 DEF StoreInv, Shape
<1>5. after.walk = pull.walk \cup new /\ after.seen = pull.seen \cup new /\ after.stage = pull.stage
    BY <1>2 DEF PullRecord
<1>6. \A r : Resolved(n, r)' <=> Found(inRows, inHistory, r) # {}
    BY <1>4 DEF Resolved
<1>7. rows[n] \subseteq rows'[n] /\ history[n] \subseteq history'[n]
    BY <1>4
<1>8. after \in pulls'[n] /\ others \subseteq pulls'[n]
    BY <1>4
<1>9. ASSUME NEW item \in items, NEW r \in referencesOf(item) PROVE Reached(n, r)'
    <2>1. r \in new \/ r \in pull.seen \/ Resolved(n, r)'
        BY <1>6, <1>9 DEF new
    <2>2. r \in after.walk \/ Resolved(n, r)'
        BY <1>5, <2>1
    <2>3. QED
        BY <1>8, <2>2 DEF Reached
<1>10. PullFollows(n, after)'
    <2>1. after.stage = "dependencies"
        BY <1>5
    <2>2. \A r \in after.seen : r \in after.walk \/ Resolved(n, r)'
        BY <1>5
    <2>3. QED
        BY <2>1, <2>2 DEF PullFollows
<1>11. \A q \in pulls'[n] : q \in pulls[n] \/ PullFollows(n, q)'
    BY <1>4, <1>10
<1>12. ASSUME NEW q \in pulls[n], NEW r \in q.walk PROVE Reached(n, r)'
    BY <1>5, <1>8, <1>12 DEF Reached
<1>13. ASSUME NEW v \in history'[n] PROVE v \in history[n] \/ \A r \in referencesOf(v) : Reached(n, r)'
    <2>1. v \in history[n] \/ v \in items
        BY <1>4 DEF historyOf
    <2>2. QED
        BY <1>9, <2>1
<1>14. QED
    BY <1>7, <1>11, <1>12, <1>13, FollowedOn

(* So do the items of a change set. *)
LEMMA PullItemsFollows ==
    ASSUME StoreInv, NEW n \in Nodes, Followed(n), PullItems(n)
    PROVE  Followed(n)'
<1>1. PICK changeSet, pull :
        /\ pull = PullRecord(changeSet, {}, {}, 0, "dependencies")
        /\ WithItems(n, pulls[n], pull, changeSet)
    BY DEF PullItems, PullRecord
<1>2. IsPull(pull) /\ pull.stage = "dependencies" /\ pull.seen = {}
    BY <1>1 DEF IsPull, PullRecord
<1>3. PICK others : others = pulls[n]
    OBVIOUS
<1>4. WithItems(n, others, pull, changeSet) /\ others \subseteq pulls[n]
    BY <1>1, <1>3
<1>5. \A q \in pulls[n] : q \in others
    BY <1>3
<1>6. QED
    BY <1>2, <1>4, <1>5, ItemsFollowed

(* What a peer serves for a reference is what the reference names. *)
LEMMA ServedResolves ==
    ASSUME StoreInv, NEW n \in Nodes, NEW p \in Nodes, NEW reference,
           NEW item \in Found(rows[p], history[p], reference),
           NEW items, items = {item},
           rowsOf(items) \subseteq rows'[n], historyOf(items) \subseteq history'[n]
    PROVE  Resolved(n, reference)'
<1>1. CASE IsTimeId(reference)
    <2>1. item \in history[p] /\ item.timeId = reference
        BY <1>1 DEF Found
    <2>2. IsHistoryRow(item)
        BY <2>1, VersionsAreHistory DEF StoreInv, Stored
    <2>3. item \in history'[n]
        BY <2>2 DEF historyOf
    <2>4. QED
        BY <1>1, <2>1, <2>3 DEF Resolved, Found
<1>2. CASE ~IsTimeId(reference)
    <2>1. item \in rows[p] /\ item = reference
        BY <1>2 DEF Found
    <2>2. ~IsHistoryRow(item)
        BY <2>1, RowTables DEF StoreInv, Stored
    <2>3. item \in rows'[n]
        BY <2>2 DEF rowsOf
    <2>4. QED
        BY <1>2, <2>1, <2>3 DEF Resolved, Found
<1>3. QED
    BY <1>1, <1>2

(* A pull whose next reference is found goes on with the others. *)
LEMMA DependencyFollows ==
    ASSUME StoreInv, NEW n \in Nodes, Followed(n), NEW pull \in pulls[n], PullDependency(n, pull)
    PROVE  Followed(n)'
<1> DEFINE reference == NextReference(pull)
           walk == pull.walk \ {reference}
           following == WalkSet(pull, walk)
           served == UNION {Found(rows[p], history[p], reference) : p \in Peers(n)}
           item == (CHOOSE i \in served : TRUE)
<1>1. IsPull(pull) /\ PullFollows(n, pull)
    BY DEF StoreInv, Pulls, PullFits, IsPull, PullRecord, Followed
<1>2. pull.walk # {} /\ pull.stage = "dependencies"
    BY <1>1 DEF PullDependency, PullFollows
<1>3. \/ /\ With(n, pull, following) /\ UNCHANGED <<rows, history>>
         /\ Found(rows[n], history[n], reference) # {}
      \/ /\ served # {}
         /\ WithItems(n, pulls[n] \ {pull}, PulledSet(following, following.pulled + 1), {item})
    BY DEF PullDependency, WalkSet, PulledSet
<1> HIDE DEF reference
<1>4. following = PullRecord(pull.changeSet, walk, pull.seen, pull.pulled, pull.stage)
    BY <1>1, PullWith
<1>5. CASE /\ With(n, pull, following) /\ UNCHANGED <<rows, history>>
           /\ Found(rows[n], history[n], reference) # {}
    <2>1. PICK after : after = following
        OBVIOUS
    <2>2. after.walk = walk /\ after.seen = pull.seen /\ after.stage = pull.stage
        BY <1>4, <2>1 DEF PullRecord
    <2>3. pulls'[n] = (pulls[n] \ {pull}) \cup {after}
        BY <1>5, <2>1 DEF With, StoreInv, Shape
    <2>4. Resolved(n, reference)'
        BY <1>5 DEF Resolved
    <2>5. \A r \in pull.walk : r \in after.walk \/ Resolved(n, r)'
        BY <2>2, <2>4
    <2>6. PullFollows(n, after)'
        <3>1. \A r \in pull.seen : r \in after.walk \/ Resolved(n, r)'
            BY <1>1, <1>5, <2>5 DEF PullFollows, Resolved
        <3>2. QED
            BY <1>2, <2>2, <3>1 DEF PullFollows
    <2>7. ASSUME NEW q \in pulls[n], NEW r \in q.walk PROVE Reached(n, r)'
        <3>1. q \in pulls'[n] \/ q = pull
            BY <2>3, <2>7
        <3>2. after \in pulls'[n]
            BY <2>3
        <3>3. QED
            BY <2>5, <2>7, <3>1, <3>2 DEF Reached
    <2>8. \A q \in pulls'[n] : q \in pulls[n] \/ PullFollows(n, q)'
        BY <2>3, <2>6
    <2>9. rows'[n] = rows[n] /\ history'[n] = history[n]
        BY <1>5
    <2>10. QED
        BY <2>7, <2>8, <2>9, FollowedOn
<1>6. CASE /\ served # {}
           /\ WithItems(n, pulls[n] \ {pull}, PulledSet(following, following.pulled + 1), {item})
    <2>1. PICK p \in Nodes : item \in Found(rows[p], history[p], reference)
        <3>1. item \in served
            BY <1>6
        <3> HIDE DEF item
        <3>2. PICK p \in Peers(n) : item \in Found(rows[p], history[p], reference)
            BY <3>1
        <3>3. p \in Nodes
            BY <3>2 DEF Peers
        <3>4. QED
            BY <3>2, <3>3
    <2>2. PICK items, chosen : chosen = item /\ items = {chosen}
        OBVIOUS
    <2>3. PICK next : next = PulledSet(following, following.pulled + 1)
        OBVIOUS
    <2>4. next = PullRecord(pull.changeSet, walk, pull.seen, pull.pulled + 1, pull.stage)
        <3>1. /\ following.changeSet = pull.changeSet /\ following.walk = walk
              /\ following.seen = pull.seen /\ following.pulled = pull.pulled
              /\ following.stage = pull.stage
            BY <1>4 DEF PullRecord
        <3>2. IsPull(following)
            BY <1>4, <3>1 DEF IsPull
        <3>3. PICK f, w : f = following /\ w = walk
            OBVIOUS
        <3>4. PulledSet(f, f.pulled + 1) =
                PullRecord(f.changeSet, f.walk, f.seen, f.pulled + 1, f.stage)
            BY <3>2, <3>3, PullWith
        <3>5. QED
            BY <2>3, <3>1, <3>3, <3>4
    <2>5. /\ next.walk = walk /\ next.seen = pull.seen
          /\ next.stage = "dependencies" /\ IsPull(next)
        BY <1>2, <2>4 DEF PullRecord, IsPull
    <2>6. PICK others : others = pulls[n] \ {pull}
        OBVIOUS
    <2>7. WithItems(n, others, next, items) /\ others \subseteq pulls[n]
        BY <1>6, <2>2, <2>3, <2>6
    <2>8. /\ rows'[n] = rows[n] \cup rowsOf(items)
          /\ history'[n] = history[n] \cup historyOf(items)
        BY <2>7 DEF WithItems, StoreInv, Shape
    <2>9. Resolved(n, reference)'
        <3>1. chosen \in Found(rows[p], history[p], reference)
            BY <2>1, <2>2
        <3>2. rowsOf(items) \subseteq rows'[n] /\ historyOf(items) \subseteq history'[n]
            BY <2>8
        <3>3. QED
            BY <2>2, <3>1, <3>2, ServedResolves
    <2>10. \A r : Resolved(n, r) => Resolved(n, r)'
        BY <2>8, ResolvedStays
    <2>11. \A r \in pull.walk : r \in next.walk \/ Resolved(n, r)'
        BY <2>5, <2>9
    <2>12. \A r \in next.seen : r \in next.walk \/ Resolved(n, r)'
        BY <1>1, <2>5, <2>10, <2>11 DEF PullFollows
    <2>13. \A q \in pulls[n] : q \in others \/ \A r \in q.walk : r \in next.walk \/ Resolved(n, r)'
        BY <2>6, <2>11
    <2>14. QED
        BY <2>5, <2>7, <2>12, <2>13, ItemsFollowed
<1>7. QED
    BY <1>3, <1>5, <1>6

(* A pull past its dependencies follows nothing, whatever becomes of it. *)
LEMMA StageFollows ==
    ASSUME StoreInv, NEW n \in Nodes, Followed(n), NEW pull \in pulls[n],
           PullBlobs(n, pull) \/ WriteReceived(n, pull) \/ RecordReceived(n, pull)
    PROVE  Followed(n)'
<1>1. IsPull(pull) /\ PullFollows(n, pull)
    BY DEF StoreInv, Pulls, PullFits, IsPull, PullRecord, Followed
<1>2. rows' = rows /\ history' = history
    BY DEF PullBlobs, WriteReceived, RecordReceived, tables
<1>3. pull.walk = {}
    BY <1>1 DEF PullBlobs, WriteReceived, RecordReceived, PullFollows
<1>4. ASSUME NEW stage PROVE PullFollows(n, StageSet(pull, stage))'
    <2>1. PICK after : after = StageSet(pull, stage)
        OBVIOUS
    <2>2. after = PullRecord(pull.changeSet, pull.walk, pull.seen, pull.pulled, stage)
        BY <1>1, <2>1, PullWith
    <2>3. after.walk = {} /\ after.seen = pull.seen
        BY <1>3, <2>2 DEF PullRecord
    <2>4. \A r \in pull.seen : Resolved(n, r)'
        BY <1>1, <1>2, <1>3 DEF PullFollows, Resolved
    <2>5. PullFollows(n, after)'
        BY <2>3, <2>4 DEF PullFollows
    <2>6. QED
        BY <2>1, <2>5
<1>5. \/ pulls'[n] = pulls[n] \ {pull}
      \/ \E stage : pulls'[n] = (pulls[n] \ {pull}) \cup {StageSet(pull, stage)}
    <2>1. CASE PullBlobs(n, pull)
        BY <2>1 DEF PullBlobs, With, StageSet, StoreInv, Shape
    <2>2. CASE WriteReceived(n, pull)
        BY <2>2 DEF WriteReceived, With, StageSet, StoreInv, Shape
    <2>3. CASE RecordReceived(n, pull)
        BY <2>3 DEF RecordReceived, StoreInv, Shape
    <2>4. QED
        BY <2>1, <2>2, <2>3
<1>6. \A q \in pulls'[n] : q \in pulls[n] \/ PullFollows(n, q)'
    BY <1>4, <1>5
<1>7. ASSUME NEW q \in pulls[n], NEW r \in q.walk PROVE Reached(n, r)'
    <2>1. q # pull
        BY <1>3, <1>7
    <2>2. q \in pulls'[n]
        BY <1>5, <2>1
    <2>3. QED
        BY <1>7, <2>2 DEF Reached
<1>8. QED
    BY <1>2, <1>6, <1>7, FollowedOn

-----------------------------------------------------------------------------
(* The invariant and the theorem.                                          *)

(* A node whose pulls and chain a step leaves alone and that writes no      *)
(* version of its own goes on.                                              *)
LEMMA QuietFollows ==
    ASSUME StoreInv, Next, NEW n \in Nodes, Followed(n), pulls'[n] = pulls[n],
           \A v \in history'[n] : v \in history[n] \/ ~IsWritten(v)
                \/ \A r \in referencesOf(v) : Resolved(n, r)
    PROVE  Followed(n)'
<1>1. rows[n] \subseteq rows'[n] /\ history[n] \subseteq history'[n]
    BY StoresGrow
<1>2. \A pull \in pulls[n] : \A r \in pull.walk : Reached(n, r)'
    BY DEF Reached
<1>3. \A r : Resolved(n, r) => Reached(n, r)'
    BY <1>1, ResolvedStays DEF Reached
<1>4. QED
    BY <1>1, <1>2, <1>3, FollowedOn

(* The steps of a node's jobs and reads go on. *)
LEMMA JobFollows ==
    ASSUME StoreInv, ForkInv, Next, NEW n \in Nodes, Followed(n),
           NEW i \in DOMAIN chain[n], JobStep(n, i)
    PROVE  Followed(n)'
<1>1. pulls' = pulls
    BY DEF JobStep, Begin, WriteRow, WriteHistory, WriteSeedHistory, AddHistory, StoreImage,
        PlanPairings, WriteChangeSet, RecordChangeSet
<1>2. CASE WriteHistory(n, i)
    <2>1. i = 1
        BY <1>2 DEF WriteHistory, Writes, pendingWrite
    <2>2. PICK v : v = NextVersion(n)
        OBVIOUS
    <2>3. history'[n] = history[n] \cup {v}
        BY <1>2, <2>1, <2>2 DEF WriteHistory, AddHistory, NextVersion, StoreInv, Shape
    <2>4. \A r \in referencesOf(v) : Resolved(n, r)
        BY <1>2, <2>1, <2>2, NextIsResolved
    <2>5. QED
        BY <1>1, <2>3, <2>4, QuietFollows
<1>3. CASE WriteSeedHistory(n, i)
    <2>1. PICK v : /\ v = HistoryRow(seedTimeId(n, Head(chain[n][i].todo).sequence),
                                     Head(chain[n][i].todo).row, {}, "seed")
                   /\ history' = [history EXCEPT ![n] = @ \cup {v}]
        BY <1>3 DEF WriteSeedHistory, AddHistory
    <2>2. history'[n] = history[n] \cup {v}
        BY <2>1 DEF StoreInv, Shape
    <2>3. ~IsWritten(v)
        BY <2>1 DEF IsWritten, HistoryRow, seedTimeId
    <2>4. QED
        BY <1>1, <2>2, <2>3, QuietFollows
<1>4. CASE ~WriteHistory(n, i) /\ ~WriteSeedHistory(n, i)
    <2>1. history' = history
        BY <1>4 DEF JobStep, Begin, WriteRow, StoreImage, PlanPairings, WriteChangeSet,
            RecordChangeSet, tables
    <2>2. QED
        BY <1>1, <2>1, QuietFollows
<1>5. QED
    BY <1>2, <1>3, <1>4

(* A crash loses the pulls, and with a walk among them the node is left out. *)
LEMMA CrashFollows ==
    ASSUME StoreInv, Next, NEW n \in Nodes, Followed(n), Crash(n), n \notin leftOut'
    PROVE  Followed(n)'
<1>1. \A pull \in pulls[n] : pull.walk = {}
    BY DEF Crash
<1>2. pulls'[n] = {} /\ rows' = rows /\ history' = history
    BY DEF Crash, tables, StoreInv, Shape
<1>3. QED
    BY <1>1, <1>2, FollowedOn

(* Every step keeps what versions name found or followed. *)
LEMMA MissingKept ==
    ASSUME StoreInv, ForkInv, LineageInv, Next
    PROVE  NothingMissing'
<1> SUFFICES ASSUME NEW n \in Nodes, n \notin leftOut' PROVE Followed(n)'
    BY DEF NothingMissing
<1>1. Followed(n)
    BY LeftOutGrows DEF LineageInv, NothingMissing
<1>2. PICK p \in Nodes : NodeStep(p)
    BY DEF Next, NodeStep
<1>3. CASE n # p
    <2>1. rows'[n] = rows[n] /\ history'[n] = history[n] /\ pulls'[n] = pulls[n]
        BY <1>2, <1>3, StepsStayHome
    <2>2. QED
        BY <1>1, <2>1, QuietFollows
<1>4. CASE n = p
    <2>1. CASE Call(n) \/ Boot(n) \/ Serves(n)
        <3>1. pulls' = pulls /\ history' = history
            BY <2>1 DEF Call, Boot, Serves, tables
        <3>2. QED
            BY <1>1, <3>1, QuietFollows
    <2>2. CASE ReadInvoice(n) \/ ReadVersion(n) \/ ReadImage(n)
        <3>1. pulls' = pulls /\ history' = history
            BY <2>2 DEF ReadInvoice, ReadVersion, ReadImage, tables
        <3>2. QED
            BY <1>1, <3>1, QuietFollows
    <2>3. CASE Crash(n)
        BY <1>1, <2>3, CrashFollows
    <2>4. CASE PullItems(n)
        BY <1>1, <2>4, PullItemsFollows
    <2>5. CASE \E i \in DOMAIN chain[n] : JobStep(n, i)
        BY <1>1, <2>5, JobFollows
    <2>6. ASSUME NEW pull \in pulls[n], PullStep(n, pull) PROVE Followed(n)'
        <3>1. ~LeaveDependency(n, pull)
            BY DEF LeaveDependency
        <3>2. QED
            BY <1>1, <2>6, <3>1, DependencyFollows, StageFollows DEF PullStep
    <2>7. QED
        BY <1>2, <1>4, <2>1, <2>2, <2>3, <2>4, <2>5, <2>6 DEF NodeStep
<1>5. QED
    BY <1>3, <1>4

(* LineageInv holds at first. *)
LEMMA LineageStarts == Init => LineageInv
<1> SUFFICES ASSUME Init PROVE LineageInv
    OBVIOUS
<1>1. PICK start \in Starts :
            /\ rows = [n \in Nodes |-> IF n \in start.cold THEN {} ELSE rowsOf(Seeded(n))]
            /\ history = [n \in Nodes |-> IF n \in start.cold THEN {} ELSE historyOf(Seeded(n))]
            /\ changeSets = [n \in Nodes |-> IF n \in start.cold THEN {} ELSE seedChangeSets(n)]
            /\ held = changeSets
            /\ up = [n \in Nodes |-> IF n \in start.cold THEN "down" ELSE "serving"]
            /\ chain = [n \in Nodes |-> <<>>]
            /\ pulls = [n \in Nodes |-> {}]
    BY InitStores
<1>2. ASSUME NEW v \in Versions PROVE v \in SeedVersions
    <2>1. PICK n \in Nodes : v \in history[n]
        BY <1>2 DEF Versions
    <2>2. v \in historyOf(Seeded(n))
        BY <1>1, <2>1
    <2>3. QED
        BY <2>2, SeedItems
<1>3. \A v \in Versions : v.previous = {} /\ ~IsWritten(v)
    BY <1>2, SeedVersionsFit DEF IsWritten
<1>4. SameEntity /\ BegunBySeed
    BY <1>3 DEF SameEntity, BegunBySeed
<1>5. PlansTraced
    BY <1>1, ShortPlans DEF PlansTraced
<1>6. ASSUME NEW n \in Nodes PROVE Unseeded(n) \/ HasSeed(n)
    <2>1. CASE n \in start.cold
        BY <1>1, <2>1 DEF Unseeded, isEmpty
    <2>2. CASE n \notin start.cold
        <3>1. rows[n] = rowsOf(Seeded(n)) /\ history[n] = historyOf(Seeded(n))
            BY <1>1, <2>2
        <3>2. HasSeed(n)
            BY <3>1, SeedContents DEF HasSeed
        <3>3. QED
            BY <3>2
    <2>3. QED
        BY <2>1, <2>2
<1>7. SeedsWhole
    BY <1>6 DEF SeedsWhole
<1>8. NothingMissing
    BY <1>1, <1>3 DEF NothingMissing, Followed, Versions
<1>9. QED
    BY <1>4, <1>5, <1>7, <1>8 DEF LineageInv

(* It stays when nothing happens. *)
LEMMA LineageStays ==
    ASSUME LineageInv, UNCHANGED vars
    PROVE  LineageInv'
<1>1. UNCHANGED <<rows, history, changeSets, held, up, chain, pulls, leftOut>>
    BY DEF vars, tables
<1>2. SameEntity' /\ BegunBySeed'
    BY <1>1 DEF LineageInv, SameEntity, BegunBySeed, Versions, IsWritten
<1>3. PlansTraced'
    BY <1>1 DEF LineageInv, PlansTraced, Traced, Supersedes
<1>4. SeedsWhole'
    BY <1>1 DEF LineageInv, SeedsWhole, Unseeded, isEmpty, InSeed, HasSeed, SeedGoesOn
<1>5. NothingMissing'
    BY <1>1 DEF LineageInv, NothingMissing, Followed, PullFollows, Reached, Resolved, IsWritten
<1>6. QED
    BY <1>2, <1>3, <1>4, <1>5 DEF LineageInv

(* The inductive invariant about where versions come from always holds:    *)
(* what a version supersedes is a version of the same entity somewhere, of *)
(* what the seed holds nothing is begun by a call, and what a version      *)
(* names is in its store, or followed, or the node is known to do without. *)
THEOREM LineageInvariant == Spec => []LineageInv
<1>1. Init => LineageInv
    BY LineageStarts
<1>2. StoreInv /\ ForkInv /\ LineageInv /\ [Next]_vars => LineageInv'
    <2>1. ASSUME StoreInv, ForkInv, LineageInv, Next PROVE LineageInv'
        BY <2>1, LineageKept, TracedKept, SeedsKept, MissingKept DEF LineageInv
    <2>2. QED
        BY <2>1, LineageStays
<1>3. QED
    BY <1>1, <1>2, StoreInvariant, ForkInvariant, PTL DEF Spec

(* A store that left out nothing and follows nothing any more shows a       *)
(* conflict of an entity only where two nodes wrote versions that supersede *)
(* the same one: neither the seed that every node writes for itself nor the *)
(* order in which change sets arrive makes one (conflictingIds).            *)
THEOREM ConflictsAreRealAlways == Spec => []ConflictsAreReal
<1>1. StoreInv /\ ForkInv /\ LineageInv => ConflictsAreReal
    BY ConflictsFork
<1>2. QED
    BY <1>1, StoreInvariant, ForkInvariant, LineageInvariant, PTL
=============================================================================
