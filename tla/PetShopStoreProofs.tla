------------------------- MODULE PetShopStoreProofs -------------------------
(***************************************************************************)
(* Theorems about PetShopStore, for every set of nodes, traits and calls,  *)
(* every start, every dependency bound and every number of crashes and     *)
(* late answers.                                                           *)
(*                                                                         *)
(* StoreInv says what the tables of a node can hold and what its calls and *)
(* pulls still write.  ForkInv adds what a node is about to supersede: it  *)
(* reads its store when a call begins and pulls write while the call runs, *)
(* so the plan has to stay right although what it was read from changes.   *)
(* WholeInv adds that no change set is recorded with an animal but without *)
(* its pairings, which are planned only once the animal is written.        *)
(*                                                                         *)
(* A plan is a sequence that a job takes write by write, so each of the    *)
(* three says for every place of the rest of a plan what is true when the  *)
(* write at that place is done; Fresh, OwnPlan and WholePlan name it.      *)
(***************************************************************************)
EXTENDS PetShopStore, FiniteSetTheorems, SequenceTheorems, TLAPS

-----------------------------------------------------------------------------
(* What the library lacks: least elements, finite images, sequences.       *)

(* A set of natural numbers with 0 and the successor of each is all of Nat. *)
LEMMA NaturalsFromZero ==
    ASSUME NEW A, 0 \in A, \A n \in Nat : n \in A => n + 1 \in A
    PROVE  Nat \subseteq A
<1> SUFFICES ASSUME NEW m \in Nat, m \notin A PROVE FALSE
    OBVIOUS
<1> DEFINE T == Nat \ A
<1>1. T \subseteq Nat /\ T # {}
    OBVIOUS
<1>2. PICK x \in T : \A y \in T : ~(<<y, x>> \in OpToRel(<, Nat))
    BY <1>1, NatLessThanWellFounded, WFMin
<1>3. x \in Nat /\ x \notin A /\ x # 0
    OBVIOUS
<1>4. x - 1 \in Nat
    BY <1>3
<1>5. x - 1 \in A
    <2>1. <<x - 1, x>> \in OpToRel(<, Nat)
        BY <1>3, <1>4 DEF OpToRel
    <2>2. QED
        BY <1>2, <1>4, <2>1
<1>6. QED
    BY <1>3, <1>4, <1>5

(* So is a set of finite sets with the empty one and every larger one. *)
LEMMA FiniteFromEmpty ==
    ASSUME NEW S, IsFiniteSet(S), NEW F, {} \in F,
           \A T \in SUBSET S : \A x \in S : T \in F => T \cup {x} \in F
    PROVE  S \in F
<1> SUFFICES ASSUME S \notin F PROVE FALSE
    OBVIOUS
<1> DEFINE T == (SUBSET S) \ F
<1>1. T \subseteq FiniteSubsetsOf(S) /\ T # {}
    BY FS_FiniteSubsetsOfFinite
<1>2. IsWellFoundedOn(StrictSubsetOrdering(S), FiniteSubsetsOf(S))
    BY FS_StrictSubsetOrderingWellFounded
<1>3. PICK least \in T : \A y \in T : ~(<<y, least>> \in StrictSubsetOrdering(S))
    BY <1>1, <1>2, WFMin
<1>4. PICK x \in least : TRUE
    OBVIOUS
<1>5. least \ {x} \in F
    <2>1. /\ least \ {x} \in SUBSET S /\ least \in SUBSET S
          /\ least \ {x} \subseteq least /\ least \ {x} # least
        BY <1>4
    <2>2. <<least \ {x}, least>> \in StrictSubsetOrdering(S)
        BY <2>1 DEF StrictSubsetOrdering
    <2>3. QED
        BY <1>3, <2>1, <2>2
<1>6. (least \ {x}) \cup {x} = least /\ x \in S /\ least \ {x} \in SUBSET S
    BY <1>4
<1>7. QED
    BY <1>5, <1>6

(* A finite set that a relation orders has a first element. *)
Ranks(R, S) ==
    /\ \A x, y, z \in S : <<x, y>> \in R /\ <<y, z>> \in R => <<x, z>> \in R
    /\ \A x, y \in S : x # y => <<x, y>> \in R \/ <<y, x>> \in R

(* R puts some element of S before all others. *)
HasFirst(R, S) == \E x \in S : \A y \in S \ {x} : <<x, y>> \in R

(* A relation that compares all elements and is transitive puts one first. *)
LEMMA FirstOfFinite ==
    ASSUME NEW S, IsFiniteSet(S), S # {}, NEW R, Ranks(R, S)
    PROVE  HasFirst(R, S)
<1>0. /\ \A x, y, z \in S : <<x, y>> \in R /\ <<y, z>> \in R => <<x, z>> \in R
      /\ \A x, y \in S : x # y => <<x, y>> \in R \/ <<y, x>> \in R
    BY DEF Ranks
<1> DEFINE F == {T \in SUBSET S :
                    T # {} => \E x \in T : \A y \in T \ {x} : <<x, y>> \in R}
<1>1. {} \in F
    OBVIOUS
<1>2. ASSUME NEW T \in SUBSET S, NEW x \in S, T \in F
      PROVE  T \cup {x} \in F
    <2>1. CASE T = {}
        BY <2>1
    <2>2. CASE T # {}
        <3>1. PICK y \in T : \A z \in T \ {y} : <<y, z>> \in R
            BY <1>2, <2>2
        <3>2. CASE x = y \/ <<y, x>> \in R
            <4>1. y \in T \cup {x} /\ \A z \in (T \cup {x}) \ {y} : <<y, z>> \in R
                BY <1>0, <3>1, <3>2
            <4>2. QED
                BY <4>1
        <3>3. CASE x # y /\ <<x, y>> \in R
            <4>1. \A z \in (T \cup {x}) \ {x} : <<x, z>> \in R
                BY <1>0, <3>1, <3>3
            <4>2. QED
                BY <4>1
        <3>4. QED
            BY <1>0, <3>2, <3>3
    <2>3. QED
        BY <2>1, <2>2
<1>3. S \in F
    <2> HIDE DEF F
    <2>1. QED
        BY <1>1, <1>2, FiniteFromEmpty
<1>4. QED
    BY <1>3 DEF HasFirst

(* What a function makes of a finite set is finite. *)
LEMMA FiniteImage ==
    ASSUME NEW S, IsFiniteSet(S), NEW f, DOMAIN f = S
    PROVE  IsFiniteSet({f[x] : x \in S})
<1> DEFINE g == [x \in S |-> f[x]]
           T == {f[x] : x \in S}
<1>1. g \in Surjection(S, T)
    BY DEF Surjection
<1>2. QED
    BY <1>1, FS_Surjection

(* Max and Min *)
LEMMA MaxOfFinite ==
    ASSUME NEW S \in SUBSET Nat, IsFiniteSet(S), S # {}
    PROVE  Max(S) \in S /\ \A x \in S : Max(S) >= x
<1> DEFINE R == {p \in S \X S : p[1] > p[2]}
<1>1. Ranks(R, S)
    BY DEF Ranks
<1>6. IsFiniteSet(S) /\ S # {}
    OBVIOUS
<1> HIDE DEF R
<1>2. HasFirst(R, S)
    BY <1>1, <1>6, FirstOfFinite
<1>3. PICK x \in S : \A y \in S \ {x} : <<x, y>> \in R
    BY <1>2 DEF HasFirst
<1>4. ASSUME NEW y \in S PROVE x >= y
    <2>1. x \in Nat /\ y \in Nat
        OBVIOUS
    <2>2. x = y \/ <<x, y>> \in R
        BY <1>3
    <2>3. QED
        BY <2>1, <2>2 DEF R
<1>5. QED
    BY <1>4 DEF Max

(* Min is a member of the set and no member is below it. *)
LEMMA MinOfNaturals ==
    ASSUME NEW S \in SUBSET Nat, S # {}
    PROVE  Min(S) \in S /\ \A x \in S : Min(S) <= x
<1>1. PICK x \in S : \A y \in S : ~(<<y, x>> \in OpToRel(<, Nat))
    BY NatLessThanWellFounded, WFMin
<1>2. ASSUME NEW y \in S PROVE x <= y
    <2>1. x \in Nat /\ y \in Nat
        OBVIOUS
    <2>2. ~(y < x)
        BY <1>1, <2>1 DEF OpToRel
    <2>3. QED
        BY <2>1, <2>2
<1>3. QED
    BY <1>2 DEF Min

(* What FlattenSeq makes of a list, part by part. *)
LEMMA FlattenExists ==
    ASSUME NEW U, NEW ss \in Seq(Seq(U))
    PROVE  \E f : f = [i \in 1 .. Len(ss) |-> IF i = 1 THEN ss[i] ELSE f[i - 1] \o ss[i]]
<1> DEFINE Part(g, i) == IF i = 1 THEN ss[i] ELSE g[i - 1] \o ss[i]
           A == {n \in Nat : \E g : DOMAIN g = 1 .. n /\ g = [i \in 1 .. n |-> Part(g, i)]}
<1>1. 0 \in A
    <2>1. <<>> = [i \in 1 .. 0 |-> Part(<<>>, i)] /\ DOMAIN <<>> = 1 .. 0
        OBVIOUS
    <2>2. QED
        BY <2>1
<1>2. ASSUME NEW n \in Nat, n \in A PROVE n + 1 \in A
    <2>1. PICK g : DOMAIN g = 1 .. n /\ g = [i \in 1 .. n |-> Part(g, i)]
        BY <1>2
    <2> DEFINE h == [i \in 1 .. n + 1 |-> IF i = n + 1 THEN Part(g, i) ELSE g[i]]
    <2>2. \A i \in 1 .. n + 1 : i - 1 \in 1 .. n \/ i = 1
        OBVIOUS
    <2>3. ASSUME NEW i \in 1 .. n + 1 PROVE Part(h, i) = Part(g, i)
        BY <2>2
    <2>4. ASSUME NEW i \in 1 .. n PROVE g[i] = Part(g, i)
        BY <2>1
    <2>5. ASSUME NEW i \in 1 .. n + 1 PROVE h[i] = Part(h, i)
        <3>1. CASE i = n + 1
            BY <2>3, <3>1
        <3>2. CASE i # n + 1
            <4>1. i \in 1 .. n /\ h[i] = g[i]
                BY <3>2
            <4>2. QED
                BY <2>3, <2>4, <4>1
        <3>3. QED
            BY <3>1, <3>2
    <2>6. h = [i \in 1 .. n + 1 |-> Part(h, i)]
        <3> HIDE DEF Part
        <3>1. QED
            BY <2>5
    <2>7. DOMAIN h = 1 .. n + 1
        OBVIOUS
    <2> HIDE DEF h, Part
    <2>8. QED
        BY <2>6, <2>7
<1>3. Len(ss) \in Nat
    OBVIOUS
<1>4. Len(ss) \in A
    <2> HIDE DEF A
    <2>1. QED
        BY <1>1, <1>2, <1>3, NaturalsFromZero
<1>5. QED
    BY <1>4

(* FlattenSeq appends one sequence after the other. *)
LEMMA FlattenBuilds ==
    ASSUME NEW U, NEW ss \in Seq(Seq(U)), NEW T, <<>> \in T[0],
           \A i \in 1 .. Len(ss) : \A p \in T[i - 1] : p \o ss[i] \in T[i]
    PROVE  FlattenSeq(ss) \in T[Len(ss)]
<1>1. CASE Len(ss) = 0
    <2>1. ss = <<>>
        BY <1>1
    <2>2. QED
        BY <1>1, <2>1 DEF FlattenSeq
<1>2. CASE Len(ss) # 0
    <2> DEFINE f == CHOOSE f : f = [i \in 1 .. Len(ss) |->
                        IF i = 1 THEN ss[i] ELSE f[i - 1] \o ss[i]]
    <2>1. f = [i \in 1 .. Len(ss) |-> IF i = 1 THEN ss[i] ELSE f[i - 1] \o ss[i]]
        BY FlattenExists
    <2>2. FlattenSeq(ss) = f[Len(ss)]
        BY <1>2 DEF FlattenSeq
    <2> HIDE DEF f
    <2> DEFINE A == {n \in Nat : n + 1 \in 1 .. Len(ss) => f[n + 1] \in T[n + 1]}
    <2>3. 0 \in A
        <3>1. 1 \in 1 .. Len(ss) => f[1] = ss[1]
            BY <2>1
        <3>2. 1 \in 1 .. Len(ss) => <<>> \o ss[1] = ss[1]
            OBVIOUS
        <3>3. 1 \in 1 .. Len(ss) => <<>> \o ss[1] \in T[1]
            <4>1. 1 - 1 = 0
                OBVIOUS
            <4>2. QED
                BY <4>1
        <3>4. 0 + 1 = 1
            OBVIOUS
        <3>5. QED
            BY <3>1, <3>2, <3>3, <3>4
    <2>4. ASSUME NEW n \in Nat, n \in A PROVE n + 1 \in A
        <3> SUFFICES ASSUME n + 2 \in 1 .. Len(ss) PROVE f[n + 2] \in T[n + 2]
            OBVIOUS
        <3>0. n + 2 # 1 /\ n + 2 - 1 = n + 1
            OBVIOUS
        <3>1. f[n + 2] = f[n + 1] \o ss[n + 2]
            <4>1. ASSUME NEW i \in 1 .. Len(ss), i # 1, NEW j, j = i - 1
                  PROVE  f[i] = f[j] \o ss[i]
                BY <2>1, <4>1
            <4> HIDE DEF A
            <4>2. PICK i, j : /\ i = n + 2 /\ j = n + 1
                              /\ i \in 1 .. Len(ss) /\ i # 1 /\ j = i - 1
                BY <3>0
            <4>3. f[i] = f[j] \o ss[i]
                BY <4>1, <4>2
            <4>4. QED
                BY <4>2, <4>3
        <3>2. f[n + 1] \in T[n + 1]
            BY <2>4
        <3>3. n + 2 - 1 = n + 1
            OBVIOUS
        <3>4. QED
            BY <3>1, <3>2, <3>3
    <2>5. Len(ss) - 1 \in Nat
        BY <1>2
    <2>6. Len(ss) - 1 \in A
        <3> HIDE DEF A
        <3>1. QED
            BY <2>3, <2>4, <2>5, NaturalsFromZero
    <2>7. QED
        BY <1>2, <2>2, <2>6
<1>3. QED
    BY <1>1, <1>2

(* A sequence, whatever its elements. *)
IsSeq(s) == s \in Seq(Range(s))

(* A sequence over any set is one. *)
LEMMA RangeSeq ==
    ASSUME NEW S, NEW s \in Seq(S)
    PROVE  IsSeq(s)
BY SeqOfRange DEF IsSeq

(* The domain of a sequence and its length. *)
LEMMA SeqFacts ==
    ASSUME NEW s, IsSeq(s)
    PROVE  /\ Len(s) \in Nat
           /\ DOMAIN s = 1 .. Len(s)
           /\ s = <<>> <=> Len(s) = 0
BY DEF IsSeq

(* Head and Tail, place by place. *)
LEMMA TailFacts ==
    ASSUME NEW s, IsSeq(s), s # <<>>
    PROVE  /\ IsSeq(Tail(s))
           /\ Len(Tail(s)) = Len(s) - 1
           /\ 1 \in DOMAIN s /\ Head(s) = s[1]
           /\ \A k \in DOMAIN Tail(s) :
                k \in Nat \ {0} /\ k + 1 \in DOMAIN s /\ Tail(s)[k] = s[k + 1]
<1> DEFINE S == Range(s)
<1>1. s \in Seq(S)
    BY DEF IsSeq
<1> HIDE DEF S
<1>2. /\ Tail(s) \in Seq(S)
      /\ Len(Tail(s)) = Len(s) - 1
      /\ 1 \in DOMAIN s /\ Head(s) = s[1]
      /\ \A k \in DOMAIN Tail(s) :
                k \in Nat \ {0} /\ k + 1 \in DOMAIN s /\ Tail(s)[k] = s[k + 1]
    BY <1>1
<1>3. QED
    BY <1>2, RangeSeq

(* \o, place by place. *)
LEMMA ConcatFacts ==
    ASSUME NEW s, NEW t, IsSeq(s), IsSeq(t)
    PROVE  /\ IsSeq(s \o t)
           /\ Len(s \o t) = Len(s) + Len(t)
           /\ \A k \in DOMAIN (s \o t) :
                \/ k \in DOMAIN s /\ (s \o t)[k] = s[k]
                \/ k - Len(s) \in DOMAIN t /\ (s \o t)[k] = t[k - Len(s)]
           /\ \A k \in DOMAIN s : k \in DOMAIN (s \o t) /\ (s \o t)[k] = s[k]
           /\ \A k \in DOMAIN t :
                k + Len(s) \in DOMAIN (s \o t) /\ (s \o t)[k + Len(s)] = t[k]
<1> DEFINE S == Range(s) \cup Range(t)
<1>1. s \in Seq(S) /\ t \in Seq(S)
    BY DEF IsSeq
<1> HIDE DEF S
<1>2. s \o t \in Seq(S)
    BY <1>1
<1>3. IsSeq(s \o t)
    BY <1>2, RangeSeq
<1>4. QED
    BY <1>1, <1>2, <1>3

(* Append, place by place. *)
LEMMA AppendFacts ==
    ASSUME NEW s, NEW e, IsSeq(s)
    PROVE  /\ IsSeq(Append(s, e))
           /\ \A k \in DOMAIN Append(s, e) :
                \/ k \in DOMAIN s /\ Append(s, e)[k] = s[k]
                \/ k = Len(s) + 1 /\ Append(s, e)[k] = e
<1> DEFINE S == Range(s) \cup {e}
<1>1. s \in Seq(S) /\ e \in S
    BY DEF IsSeq
<1> HIDE DEF S
<1>2. Append(s, e) \in Seq(S)
    BY <1>1
<1>3. IsSeq(Append(s, e))
    BY <1>2, RangeSeq
<1>4. QED
    BY <1>1, <1>2, <1>3

(* To remove the first element is to take the tail. *)
LEMMA RemoveAtFirst ==
    ASSUME NEW s, IsSeq(s), s # <<>>
    PROVE  RemoveAt(s, 1) = Tail(s)
<1> DEFINE S == Range(s)
<1>1. s \in Seq(S)
    BY DEF IsSeq
<1> HIDE DEF S
<1>2. SubSeq(s, 1, 0) = <<>>
    BY SubSeqEmpty, 0 < 1
<1>3. SubSeq(s, 2, Len(s)) = Tail(s)
    BY <1>1, TailIsSubSeq
<1>4. Tail(s) \in Seq(S)
    BY <1>1
<1>5. <<>> \o Tail(s) = Tail(s)
    BY <1>4
<1>6. 1 - 1 = 0 /\ 1 + 1 = 2
    OBVIOUS
<1>7. QED
    BY <1>2, <1>3, <1>5, <1>6 DEF RemoveAt

(* EXCEPT at the first place leaves the others. *)
LEMMA ReplaceFirst ==
    ASSUME NEW s, NEW e, IsSeq(s), s # <<>>
    PROVE  /\ IsSeq([s EXCEPT ![1] = e])
           /\ DOMAIN [s EXCEPT ![1] = e] = DOMAIN s
           /\ [s EXCEPT ![1] = e][1] = e
           /\ \A k \in DOMAIN s : k # 1 => [s EXCEPT ![1] = e][k] = s[k]
<1> DEFINE S == Range(s) \cup {e}
<1>1. s \in Seq(S) /\ e \in S /\ Len(s) # 0
    BY DEF IsSeq
<1> HIDE DEF S
<1>2. [s EXCEPT ![1] = e] \in Seq(S)
    BY <1>1
<1>3. QED
    BY <1>1, <1>2, RangeSeq

(* The elements of a finite set in some order, each once. *)
LEMMA SetToSeqFacts ==
    ASSUME NEW S, IsFiniteSet(S)
    PROVE  /\ SetToSeq(S) \in Seq(S)
           /\ \A x \in S : \E i \in DOMAIN SetToSeq(S) : SetToSeq(S)[i] = x
           /\ \A i, j \in DOMAIN SetToSeq(S) :
                SetToSeq(S)[i] = SetToSeq(S)[j] => i = j
<1>1. \E f : f \in Bijection(1 .. Cardinality(S), S)
    BY FS_CardinalityType DEF ExistsBijection
<1>2. PICK f \in [1 .. Cardinality(S) -> S] :
        IsInjective(f) /\ \A x \in S : \E i \in 1 .. Cardinality(S) : f[i] = x
    BY <1>1 DEF Bijection, Injection, Surjection, IsInjective
<1> DEFINE g == SetToSeq(S)
<1>3. g \in [1 .. Cardinality(S) -> S] /\ IsInjective(g)
    BY <1>2 DEF SetToSeq
<1>4. Cardinality(S) \in Nat
    BY FS_CardinalityType
<1> HIDE DEF g
<1>5. \A x \in S : \E i \in 1 .. Cardinality(S) : g[i] = x
    <2>1. /\ IsFiniteSet(1 .. Cardinality(S))
          /\ Cardinality(1 .. Cardinality(S)) = Cardinality(S)
        BY <1>4, FS_Interval
    <2>2. g \in Injection(1 .. Cardinality(S), S)
        BY <1>3 DEF Injection
    <2>3. g \in Surjection(1 .. Cardinality(S), S)
        BY <2>1, <2>2, FS_Injection, Zenon
    <2>4. QED
        BY <2>3 DEF Surjection
<1>6. QED
    BY <1>3, <1>4, <1>5 DEF IsInjective, g

(* A pair after a sequence of pairs. *)
LEMMA PairAppended ==
    ASSUME NEW U, NEW p \in Seq(U), NEW x \in U, NEW y \in U
    PROVE  /\ p \o <<x, y>> \in Seq(U)
           /\ Len(p \o <<x, y>>) = Len(p) + 2
           /\ (p \o <<x, y>>)[Len(p) + 1] = x
           /\ (p \o <<x, y>>)[Len(p) + 2] = y
           /\ \A k \in 1 .. Len(p) : (p \o <<x, y>>)[k] = p[k]
OBVIOUS

(* Pairs one after the other. *)
Paired(a, b, m, s) ==
    /\ IsSeq(s)
    /\ Len(s) = 2 * m
    /\ \A j \in 1 .. m : s[2 * j - 1] = a[j] /\ s[2 * j] = b[j]

(* The pairs that a plan of two writes for each row is flattened from. *)
Zipped(a, b, m) == [i \in 1 .. m |-> <<a[i], b[i]>>]

(* The flattened sequence of the pairs has them at its odd and even places. *)
LEMMA PairsFlattened ==
    ASSUME NEW m, m \in Nat, NEW a, NEW b, DOMAIN a = 1 .. m, DOMAIN b = 1 .. m
    PROVE  Paired(a, b, m, FlattenSeq(Zipped(a, b, m)))
<1> DEFINE f == Zipped(a, b, m)
<1>0. f = [i \in 1 .. m |-> <<a[i], b[i]>>]
    BY DEF Zipped
<1> HIDE DEF f
<1> DEFINE U == Range(a) \cup Range(b)
           Pairs(i, p) == /\ Len(p) = 2 * i
                          /\ \A j \in 1 .. i : p[2 * j - 1] = a[j] /\ p[2 * j] = b[j]
           T == [i \in 0 .. m |-> {p \in Seq(U) : Pairs(i, p)}]
<1>1. \A i \in 1 .. m : a[i] \in U /\ b[i] \in U
    BY DEF Range
<1> HIDE DEF U
<1>2. \A i \in 1 .. m : <<a[i], b[i]>> \in Seq(U)
    BY <1>1
<1>3. f \in Seq(Seq(U)) /\ Len(f) = m
    <2> DEFINE S == Seq(U)
    <2>1. \A i \in 1 .. m : <<a[i], b[i]>> \in S
        BY <1>2
    <2> HIDE DEF S
    <2>2. f \in [1 .. m -> S]
        BY <1>0, <2>1
    <2>3. f \in Seq(S) /\ Len(f) = m
        BY <2>2, SeqDef
    <2>4. QED
        BY <2>3 DEF S
<1>4. <<>> \in T[0]
    BY EmptySeq
<1>5. ASSUME NEW i \in 1 .. Len(f), NEW p \in T[i - 1] PROVE p \o f[i] \in T[i]
    <2>1. /\ i \in 1 .. m /\ i - 1 \in 0 .. m /\ i \in 0 .. m /\ 2 * (i - 1) = 2 * i - 2
          /\ 2 * i - 2 \in Nat
        BY <1>3
    <2>2. p \in Seq(U) /\ Pairs(i - 1, p)
        BY <2>1
    <2>3. f[i] = <<a[i], b[i]>> /\ a[i] \in U /\ b[i] \in U
        BY <1>0, <1>1, <2>1
    <2> HIDE DEF T
    <2>4. PICK q : q = p \o f[i]
        OBVIOUS
    <2>5. /\ q \in Seq(U)
          /\ Len(q) = Len(p) + 2
          /\ q[Len(p) + 1] = a[i]
          /\ q[Len(p) + 2] = b[i]
          /\ \A k \in 1 .. Len(p) : q[k] = p[k]
        <3>1. q = p \o <<a[i], b[i]>>
            BY <2>3, <2>4
        <3>2. PICK x, y : x = a[i] /\ y = b[i]
            OBVIOUS
        <3>3. p \in Seq(U) /\ x \in U /\ y \in U /\ q = p \o <<x, y>>
            BY <2>2, <2>3, <3>1, <3>2
        <3> HIDE DEF Pairs
        <3>4. QED
            BY <3>2, <3>3, PairAppended
    <2>6. Len(p) = 2 * i - 2
        BY <2>1, <2>2
    <2>7. ASSUME NEW j \in 1 .. i
          PROVE  q[2 * j - 1] = a[j] /\ q[2 * j] = b[j]
        <3>1. CASE j = i
            <4>1. Len(p) + 1 = 2 * j - 1 /\ Len(p) + 2 = 2 * j
                BY <2>6, <3>1
            <4>2. QED
                BY <2>5, <4>1, <3>1
        <3>2. CASE j # i
            <4>1. j \in 1 .. i - 1
                BY <3>2, <2>1
            <4>2. 2 * j - 1 \in 1 .. Len(p) /\ 2 * j \in 1 .. Len(p)
                BY <2>6, <4>1
            <4>3. QED
                BY <2>2, <2>5, <4>1, <4>2
        <3>3. QED
            BY <3>1, <3>2
    <2>8. Len(q) = 2 * i
        BY <2>1, <2>5, <2>6
    <2>9. Pairs(i, q)
        BY <2>7, <2>8
    <2> HIDE DEF Pairs
    <2>10. q \in T[i]
        BY <2>1, <2>5, <2>9 DEF T
    <2>11. QED
        BY <2>4, <2>10
<1>6. FlattenSeq(f) \in T[Len(f)]
    <2> HIDE DEF T
    <2>1. QED
        BY <1>3, <1>4, <1>5, FlattenBuilds
<1>7. FlattenSeq(f) \in Seq(U) /\ Pairs(m, FlattenSeq(f))
    <2> HIDE DEF Pairs
    <2>1. QED
        BY <1>3, <1>6
<1>8. QED
    BY <1>7, RangeSeq DEF Paired, f

(* A set of sequences that holds the empty one and is closed under adding  *)
(* one of the parts holds their concatenation. *)
LEMMA FlattenStays ==
    ASSUME NEW U, NEW ss \in Seq(Seq(U)), NEW P \in SUBSET Seq(U), <<>> \in P,
           \A i \in 1 .. Len(ss) : \A p \in P : p \o ss[i] \in P
    PROVE  FlattenSeq(ss) \in P
<1> DEFINE T == [i \in 0 .. Len(ss) |-> P]
<1>1. Len(ss) \in Nat
    OBVIOUS
<1>2. <<>> \in T[0] /\ \A i \in 1 .. Len(ss) : \A p \in T[i - 1] : p \o ss[i] \in T[i]
    BY <1>1
<1>3. FlattenSeq(ss) \in T[Len(ss)]
    <2> HIDE DEF T
    <2>1. QED
        BY <1>2, FlattenBuilds
<1>4. QED
    BY <1>1, <1>3

(* What a version must be for the choice of the newest one. *)
Comparable(S) ==
    /\ IsFiniteSet(S)
    /\ \A v \in S : /\ v.timeId = [ms |-> v.timeId.ms, unique |-> v.timeId.unique]
                    /\ v.timeId.ms \in Nat
                    /\ v.timeId.unique \in Nat
    /\ \A v, w \in S : v.timeId = w.timeId => v = w

(* Of comparable versions one is newest by depth and timeId. *)
LEMMA NewestExists ==
    ASSUME NEW S, Comparable(S), S # {}, NEW depths, \A v \in S : depths[v] \in Nat
    PROVE  newest(S, depths) \in S
<1> DEFINE First(v, w) ==
                \/ depths[v] > depths[w]
                \/ depths[v] = depths[w] /\ compareTimeIdsNewestFirst(v.timeId, w.timeId)
           R == {p \in S \X S : First(p[1], p[2])}
<1>1. \A v \in S : v.timeId.ms \in Nat /\ v.timeId.unique \in Nat /\ depths[v] \in Nat
    BY DEF Comparable
<1>2. \A v, w \in S : v # w =>
            v.timeId.ms # w.timeId.ms \/ v.timeId.unique # w.timeId.unique
    BY DEF Comparable
<1>3. \A v, w \in S : v # w => First(v, w) \/ First(w, v)
    BY <1>1, <1>2 DEF compareTimeIdsNewestFirst
<1>4. \A u, v, w \in S : First(u, v) /\ First(v, w) => First(u, w)
    BY <1>1 DEF compareTimeIdsNewestFirst
<1> HIDE DEF First
<1>5. Ranks(R, S)
    BY <1>3, <1>4 DEF Ranks
<1>6. IsFiniteSet(S)
    BY DEF Comparable
<1> HIDE DEF R
<1>7. HasFirst(R, S)
    BY <1>5, <1>6, FirstOfFinite
<1>10. PICK x \in S : \A y \in S \ {x} : <<x, y>> \in R
    BY <1>7 DEF HasFirst
<1>8. \A y \in S \ {x} : First(x, y)
    BY <1>10 DEF R
<1>9. QED
    BY <1>8 DEF newest, First

(* Whatever the rounds resolve, a depth is a round or 0. *)
LEMMA DepthsAreNumbers ==
    ASSUME NEW S, IsFiniteSet(S)
    PROVE  \A v \in S : depthsOf(S)[v] \in Nat
<1>1. Cardinality(S) \in Nat
    BY FS_CardinalityType
<1> DEFINE timeIds == {v.timeId : v \in S}
           rounds == 0 .. Cardinality(S)
           resolved == CHOOSE r : r = [round \in rounds |->
                IF round = 0 THEN {}
                ELSE {v \in S : v.previous \cap timeIds
                                    \subseteq {before.timeId : before \in r[round - 1]}}]
           In(v) == {round \in rounds : v \in resolved[round]}
<1>2. depthsOf(S) = [v \in S |-> IF In(v) = {} THEN 0 ELSE Min(In(v))]
    BY DEF depthsOf
<1>3. \A v \in S : In(v) \in SUBSET Nat
    BY <1>1
<1> HIDE DEF In
<1>4. \A v \in S : In(v) # {} => Min(In(v)) \in Nat
    BY <1>3, MinOfNaturals
<1>5. QED
    BY <1>2, <1>4

(* The current version is one of the versions; where any is superseded by  *)
(* none, so is it. *)
LEMMA CurrentOf ==
    ASSUME NEW S, Comparable(S), S # {}
    PROVE  /\ currentVersion(S) \in S
           /\ (\E v \in S : \A w \in S : v.timeId \notin w.previous) =>
                \A w \in S : currentVersion(S).timeId \notin w.previous
<1> DEFINE superseded == UNION {version.previous : version \in S}
           tips == {version \in S : version.timeId \notin superseded}
           T == tipsOf(S)
<1>1. \A v \in S : depthsOf(S)[v] \in Nat
    BY DepthsAreNumbers DEF Comparable
<1>2. newest(S, depthsOf(S)) \in S
    BY <1>1, NewestExists
<1>3. T = IF tips = {} THEN {newest(S, depthsOf(S))} ELSE tips
    BY DEF tipsOf
<1>4. T \subseteq S /\ T # {}
    <2> HIDE DEF T
    <2>1. QED
        BY <1>2, <1>3
<1>5. Comparable(T)
    <2> HIDE DEF T
    <2>1. IsFiniteSet(T)
        BY <1>4, FS_Subset DEF Comparable
    <2>2. QED
        BY <1>4, <2>1 DEF Comparable
<1>6. newest(T, depthsOf(S)) \in T
    <2> HIDE DEF T
    <2>1. QED
        BY <1>1, <1>4, <1>5, NewestExists
<1>7. currentVersion(S) \in T
    BY <1>6 DEF currentVersion
<1>8. ASSUME NEW v \in S, \A w \in S : v.timeId \notin w.previous
      PROVE  \A w \in S : currentVersion(S).timeId \notin w.previous
    <2>1. v \in tips
        BY <1>8
    <2>2. T = tips
        BY <1>3, <2>1
    <2>3. QED
        <3> HIDE DEF T
        <3>1. QED
            BY <1>7, <2>2
<1>9. QED
    <2> HIDE DEF T
    <2>1. QED
        BY <1>4, <1>7, <1>8

(* The rows of each table, with what they refer to. *)
IsSpecies(row) == table(row) = "species" /\ row = SpeciesRow(row.image)
IsTrait(row) ==
    /\ table(row) = "traits"
    /\ row = TraitRow(row.id[2])
    /\ row.id[2] \in TraitIds
IsCustomer(row) == row = CustomerRow
IsAnimal(row) ==
    /\ table(row) = "animals"
    /\ row = AnimalRow(row.name, row.species, row.traits)
    /\ IsSpecies(row.species)
    /\ IsFiniteSet(row.traits)
    /\ \A trait \in row.traits : IsTrait(trait)
IsPairing(row) ==
    /\ table(row) = "animalTraits"
    /\ row = AnimalTraitRow(row.animal, row.trait)
    /\ IsAnimal(row.animal)
    /\ row.trait \in row.animal.traits
IsInvoice(row) ==
    /\ table(row) = "invoices"
    /\ row = InvoiceRow(row.id[2], row.customer)
    /\ row.id[2] \in Nat
    /\ IsCustomer(row.customer)
IsInvoiceItem(row) ==
    /\ table(row) = "invoiceItems"
    /\ row = InvoiceItemRow(row.invoice, 1, row.animal)
    /\ IsInvoice(row.invoice)
    /\ IsAnimal(row.animal)

(* A row of any table. *)
IsRow(row) ==
    \/ IsSpecies(row) \/ IsTrait(row) \/ IsCustomer(row) \/ IsAnimal(row)
    \/ IsPairing(row) \/ IsInvoice(row) \/ IsInvoiceItem(row)

(* What the row makers of the domain make. *)
LEMMA RowsMade ==
    /\ \A image : IsSpecies(SpeciesRow(image))
    /\ \A traitId \in TraitIds : IsTrait(TraitRow(traitId))
    /\ IsCustomer(CustomerRow)
    /\ \A name, species, traits :
        IsSpecies(species) /\ IsFiniteSet(traits) /\ (\A trait \in traits : IsTrait(trait))
            => IsAnimal(AnimalRow(name, species, traits))
    /\ \A animal, trait : IsAnimal(animal) /\ trait \in animal.traits
            => IsPairing(AnimalTraitRow(animal, trait))
    /\ \A sequence \in Nat : \A customer : IsCustomer(customer)
            => IsInvoice(InvoiceRow(sequence, customer))
    /\ \A invoice, animal : IsInvoice(invoice) /\ IsAnimal(animal)
            => IsInvoiceItem(InvoiceItemRow(invoice, 1, animal))
<1>1. \A image : IsSpecies(SpeciesRow(image))
    BY DEF IsSpecies, SpeciesRow, table
<1>2. \A traitId \in TraitIds : IsTrait(TraitRow(traitId))
    BY DEF IsTrait, TraitRow, table
<1>3. IsCustomer(CustomerRow)
    BY DEF IsCustomer
<1>4. ASSUME NEW name, NEW species, NEW traits, IsSpecies(species), IsFiniteSet(traits),
             \A trait \in traits : IsTrait(trait)
      PROVE  IsAnimal(AnimalRow(name, species, traits))
    BY <1>4 DEF IsAnimal, AnimalRow, table
<1>5. ASSUME NEW animal, NEW trait, IsAnimal(animal), trait \in animal.traits
      PROVE  IsPairing(AnimalTraitRow(animal, trait))
    BY <1>5 DEF IsPairing, AnimalTraitRow, table
<1>6. ASSUME NEW sequence \in Nat, NEW customer, IsCustomer(customer)
      PROVE  IsInvoice(InvoiceRow(sequence, customer))
    BY <1>6 DEF IsInvoice, InvoiceRow, table
<1>7. ASSUME NEW invoice, NEW animal, IsInvoice(invoice), IsAnimal(animal)
      PROVE  IsInvoiceItem(InvoiceItemRow(invoice, 1, animal))
    BY <1>7 DEF IsInvoiceItem, InvoiceItemRow, table
<1>8. QED
    BY <1>1, <1>2, <1>3, <1>4, <1>5, <1>6, <1>7

(* Which row is of which table, and that no row passes for a history row. *)
LEMMA RowTables ==
    ASSUME NEW row, IsRow(row)
    PROVE  /\ IsSpecies(row) <=> table(row) = "species"
           /\ IsTrait(row) <=> table(row) = "traits"
           /\ IsCustomer(row) <=> table(row) = "customers"
           /\ IsAnimal(row) <=> table(row) = "animals"
           /\ IsAnimal(row) <=> "species" \in DOMAIN row
           /\ IsPairing(row) <=> table(row) = "animalTraits"
           /\ IsInvoice(row) <=> table(row) = "invoices"
           /\ IsInvoiceItem(row) <=> table(row) = "invoiceItems"
           /\ ~IsHistoryRow(row)
           /\ table(row) # "species" => blobReferencesOf(row) = {}
           /\ table(row) = "species" => blobReferencesOf(row) = {row.image}
<1>1. CASE IsSpecies(row)
    BY <1>1 DEF IsRow, IsSpecies, IsTrait, IsCustomer, IsAnimal, IsPairing, IsInvoice,
        IsInvoiceItem, SpeciesRow, CustomerRow, IsHistoryRow, blobReferencesOf, table
<1>2. CASE IsTrait(row)
    BY <1>2 DEF IsRow, IsSpecies, IsTrait, IsCustomer, IsAnimal, IsPairing, IsInvoice,
        IsInvoiceItem, TraitRow, CustomerRow, IsHistoryRow, blobReferencesOf, table
<1>3. CASE IsCustomer(row)
    BY <1>3 DEF IsRow, IsSpecies, IsTrait, IsCustomer, IsAnimal, IsPairing, IsInvoice,
        IsInvoiceItem, CustomerRow, IsHistoryRow, blobReferencesOf, table
<1>4. CASE IsAnimal(row)
    BY <1>4 DEF IsRow, IsSpecies, IsTrait, IsCustomer, IsAnimal, IsPairing, IsInvoice,
        IsInvoiceItem, AnimalRow, CustomerRow, IsHistoryRow, blobReferencesOf, table
<1>5. CASE IsPairing(row)
    BY <1>5 DEF IsRow, IsSpecies, IsTrait, IsCustomer, IsAnimal, IsPairing, IsInvoice,
        IsInvoiceItem, AnimalTraitRow, CustomerRow, IsHistoryRow, blobReferencesOf, table
<1>6. CASE IsInvoice(row)
    BY <1>6 DEF IsRow, IsSpecies, IsTrait, IsCustomer, IsAnimal, IsPairing, IsInvoice,
        IsInvoiceItem, InvoiceRow, CustomerRow, IsHistoryRow, blobReferencesOf, table
<1>7. CASE IsInvoiceItem(row)
    BY <1>7 DEF IsRow, IsSpecies, IsTrait, IsCustomer, IsAnimal, IsPairing, IsInvoice,
        IsInvoiceItem, InvoiceItemRow, CustomerRow, IsHistoryRow, blobReferencesOf, table
<1>8. QED
    BY <1>1, <1>2, <1>3, <1>4, <1>5, <1>6, <1>7 DEF IsRow

(* The traits of the seed in the order of its entities. *)
seedTraits == SetToSeq(TraitIds)

(* Each trait once. *)
LEMMA SeedTraits ==
    /\ IsSeq(seedTraits)
    /\ Len(seedTraits) \in Nat
    /\ DOMAIN seedTraits = 1 .. Len(seedTraits)
    /\ \A i \in DOMAIN seedTraits : seedTraits[i] \in TraitIds
    /\ \A t \in TraitIds : \E i \in DOMAIN seedTraits : seedTraits[i] = t
    /\ \A i, j \in DOMAIN seedTraits : seedTraits[i] = seedTraits[j] => i = j
<1>1. seedTraits \in Seq(TraitIds)
    BY TraitAssumption, SetToSeqFacts DEF seedTraits
<1>2. /\ \A t \in TraitIds : \E i \in DOMAIN seedTraits : seedTraits[i] = t
      /\ \A i, j \in DOMAIN seedTraits : seedTraits[i] = seedTraits[j] => i = j
    BY TraitAssumption, SetToSeqFacts DEF seedTraits
<1>3. IsSeq(seedTraits)
    BY <1>1, RangeSeq
<1>4. QED
    BY <1>1, <1>2, <1>3

(* A function on 1 .. m is a sequence of length m. *)
LEMMA SequenceByIndex ==
    ASSUME NEW m \in Nat, NEW s, DOMAIN s = 1 .. m, s = [i \in 1 .. m |-> s[i]]
    PROVE  IsSeq(s) /\ Len(s) = m
<1> DEFINE R == Range(s)
<1>1. s \in [1 .. m -> R]
    BY DEF Range
<1> HIDE DEF R
<1>2. s \in Seq(R) /\ Len(s) = m
    BY <1>1, SeqDef
<1>3. QED
    BY <1>2, RangeSeq

(* Sequences of one and of two. *)
LEMMA ShortSequences ==
    /\ \A x : IsSeq(<<x>>) /\ Len(<<x>>) = 1 /\ <<x>>[1] = x
    /\ \A x, y : IsSeq(<<x, y>>) /\ Len(<<x, y>>) = 2 /\ <<x, y>>[1] = x /\ <<x, y>>[2] = y
<1>1. ASSUME NEW x PROVE IsSeq(<<x>>)
    <2>1. <<x>> \in Seq({x})
        OBVIOUS
    <2>2. QED
        BY <2>1, RangeSeq
<1>2. ASSUME NEW x, NEW y PROVE IsSeq(<<x, y>>)
    <2>1. <<x, y>> \in Seq({x, y})
        OBVIOUS
    <2>2. QED
        BY <2>1, RangeSeq
<1>3. QED
    BY <1>1, <1>2

(* st is s followed by t, by place; m and n are their lengths. *)
Joined(s, t, m, n, st) ==
    /\ m \in Nat /\ n \in Nat
    /\ IsSeq(st)
    /\ Len(st) = m + n
    /\ \A i \in 1 .. m : st[i] = s[i]
    /\ \A i \in 1 .. n : st[i + m] = t[i]

(* What \o makes is joined. *)
LEMMA ConcatAt ==
    ASSUME NEW s, NEW t, IsSeq(s), IsSeq(t), NEW m, NEW n, m = Len(s), n = Len(t)
    PROVE  Joined(s, t, m, n, s \o t)
<1>1. m \in Nat /\ n \in Nat /\ DOMAIN s = 1 .. m /\ DOMAIN t = 1 .. n
    BY SeqFacts
<1>2. QED
    BY <1>1, ConcatFacts DEF Joined

(* The parts of the seed: the species, a part for each trait, the customer, *)
(* and the animal with its pairings. *)
LEMMA SeedParts ==
    /\ IsSeq(seedPart)
    /\ Len(seedPart) = Len(seedTraits) + 3
    /\ seedPart[1] = <<SpeciesRow(SeedImage)>>
    /\ \A i \in DOMAIN seedTraits : seedPart[i + 1] = <<TraitRow(seedTraits[i])>>
    /\ seedPart[Len(seedTraits) + 2] = <<CustomerRow>>
    /\ IsSeq(seedPart[Len(seedTraits) + 3])
    /\ Len(seedPart[Len(seedTraits) + 3]) = Len(seedTraits) + 1
    /\ seedPart[Len(seedTraits) + 3][1] = SeedAnimal
    /\ \A i \in DOMAIN seedTraits :
        seedPart[Len(seedTraits) + 3][i + 1] =
            AnimalTraitRow(SeedAnimal, TraitRow(seedTraits[i]))
<1> DEFINE m == Len(seedTraits)
           a == <<<<SpeciesRow(SeedImage)>>>>
           b == [i \in DOMAIN seedTraits |-> <<TraitRow(seedTraits[i])>>]
           d == [i \in DOMAIN seedTraits |->
                    AnimalTraitRow(SeedAnimal, TraitRow(seedTraits[i]))]
           e == <<SeedAnimal>>
           c == <<<<CustomerRow>>, e \o d>>
<1>1. m \in Nat /\ DOMAIN seedTraits = 1 .. m
    BY SeedTraits
<1>2. seedPart = (a \o b) \o c
    BY DEF seedPart, seedTraits
<1>3. /\ IsSeq(b) /\ Len(b) = m /\ DOMAIN b = 1 .. m
      /\ \A i \in 1 .. m : b[i] = <<TraitRow(seedTraits[i])>>
    BY <1>1, SequenceByIndex
<1>4. /\ IsSeq(d) /\ Len(d) = m /\ DOMAIN d = 1 .. m
      /\ \A i \in 1 .. m : d[i] = AnimalTraitRow(SeedAnimal, TraitRow(seedTraits[i]))
    BY <1>1, SequenceByIndex
<1> HIDE DEF m, b, d
<1>5. IsSeq(e) /\ Len(e) = 1 /\ e[1] = SeedAnimal
    BY ShortSequences
<1>6. IsSeq(a) /\ Len(a) = 1 /\ a[1] = <<SpeciesRow(SeedImage)>>
    BY ShortSequences
<1>7. IsSeq(c) /\ Len(c) = 2 /\ c[1] = <<CustomerRow>> /\ c[2] = e \o d
    <2> HIDE DEF e
    <2>1. QED
        BY ShortSequences
<1> HIDE DEF a, c, e
<1>8. PICK ab : ab = a \o b
    OBVIOUS
<1>9. /\ IsSeq(ab) /\ Len(ab) = m + 1
      /\ \A i \in 1 .. 1 : ab[i] = a[i]
      /\ \A i \in 1 .. m : ab[i + 1] = b[i]
    <2>1. Len(a) = 1 /\ Len(b) = m
        BY <1>3, <1>6
    <2>2. Joined(a, b, 1, m, ab)
        BY <1>3, <1>6, <1>8, <2>1, ConcatAt
    <2>3. QED
        BY <1>1, <2>2 DEF Joined
<1>10. /\ IsSeq(seedPart) /\ Len(seedPart) = m + 1 + 2
       /\ \A i \in 1 .. m + 1 : seedPart[i] = ab[i]
       /\ \A i \in 1 .. 2 : seedPart[i + (m + 1)] = c[i]
    <2>1. seedPart = ab \o c
        BY <1>2, <1>8
    <2>2. Joined(ab, c, m + 1, 2, seedPart)
        BY <1>7, <1>9, <2>1, ConcatAt
    <2>3. QED
        BY <2>2 DEF Joined
<1>11. /\ IsSeq(e \o d) /\ Len(e \o d) = 1 + m
       /\ \A i \in 1 .. 1 : (e \o d)[i] = e[i]
       /\ \A i \in 1 .. m : (e \o d)[i + 1] = d[i]
    <2>1. Joined(e, d, 1, m, e \o d)
        BY <1>4, <1>5, ConcatAt
    <2>2. QED
        BY <2>1 DEF Joined
<1>12. /\ 1 \in 1 .. m + 1 /\ 1 \in 1 .. 1 /\ 1 \in 1 .. 2 /\ 2 \in 1 .. 2
       /\ 1 + (m + 1) = m + 2 /\ 2 + (m + 1) = m + 3 /\ m + 1 + 2 = m + 3
       /\ 1 + m = m + 1
       /\ \A i \in 1 .. m : i + 1 \in 1 .. m + 1
    BY <1>1
<1>13. seedPart[1] = a[1] /\ \A i \in 1 .. m : seedPart[i + 1] = b[i]
    BY <1>9, <1>10, <1>12
<1>14. seedPart[m + 2] = c[1] /\ seedPart[m + 3] = c[2]
    BY <1>10, <1>12
<1>15. IsSeq(seedPart[m + 3]) /\ Len(seedPart[m + 3]) = m + 1
    BY <1>7, <1>11, <1>12, <1>14
<1>16. seedPart[m + 3][1] = SeedAnimal /\ \A i \in 1 .. m : seedPart[m + 3][i + 1] = d[i]
    BY <1>5, <1>7, <1>11, <1>12, <1>14
<1>17. Len(seedPart) = m + 3
    BY <1>10, <1>12
<1>18. seedPart[m + 2] = <<CustomerRow>> /\ seedPart[1] = <<SpeciesRow(SeedImage)>>
    BY <1>6, <1>7, <1>13, <1>14
<1>19. \A i \in 1 .. m : seedPart[i + 1] = <<TraitRow(seedTraits[i])>>
    BY <1>3, <1>13
<1>20. \A i \in 1 .. m :
            seedPart[m + 3][i + 1] = AnimalTraitRow(SeedAnimal, TraitRow(seedTraits[i]))
    BY <1>4, <1>16
<1>21. IsSeq(seedPart) /\ seedPart[m + 3][1] = SeedAnimal
    BY <1>10, <1>16
<1>22. QED
    BY <1>1, <1>15, <1>17, <1>18, <1>19, <1>20, <1>21 DEF m

(* The i-th row of the k-th entity of the seed. *)
SeedRow(k, i) == seedPart[k][i]

(* The animal of the seed is an animal with all traits. *)
LEMMA SeedAnimalMade == IsAnimal(SeedAnimal) /\ SeedAnimal.traits = {TraitRow(t) : t \in TraitIds}
<1> DEFINE T == {TraitRow(t) : t \in TraitIds}
           f == [t \in TraitIds |-> TraitRow(t)]
           U == {f[t] : t \in TraitIds}
<1>1. IsFiniteSet(U)
    <2> HIDE DEF f
    <2>1. DOMAIN f = TraitIds
        BY DEF f
    <2>2. QED
        BY <2>1, TraitAssumption, FiniteImage
<1>2. U = T
    OBVIOUS
<1>3. \A trait \in T : IsTrait(trait)
    BY RowsMade
<1>4. SeedAnimal = AnimalRow(SeedName, SpeciesRow(SeedImage), T)
    BY DEF SeedAnimal
<1> HIDE DEF T, U
<1>5. IsAnimal(SeedAnimal)
    BY <1>1, <1>2, <1>3, <1>4, RowsMade
<1>6. SeedAnimal.traits = T
    BY <1>4 DEF AnimalRow
<1>7. QED
    BY <1>5, <1>6 DEF T

(* The entities of the seed: the species, the traits, the customer, the animal. *)
LEMMA SeedCases ==
    ASSUME NEW k \in DOMAIN seedPart
    PROVE  /\ k \in 1 .. Len(seedTraits) + 3
           /\ IsSeq(seedPart[k])
           /\ \/ k = 1 /\ seedPart[k] = <<SpeciesRow(SeedImage)>>
              \/ \E j \in DOMAIN seedTraits :
                    k = j + 1 /\ seedPart[k] = <<TraitRow(seedTraits[j])>>
              \/ k = Len(seedTraits) + 2 /\ seedPart[k] = <<CustomerRow>>
              \/ k = Len(seedTraits) + 3
<1> DEFINE m == Len(seedTraits)
<1>1. m \in Nat /\ DOMAIN seedTraits = 1 .. m /\ k \in 1 .. m + 3
    BY SeedTraits, SeedParts, SeqFacts
<1>2. CASE k = 1
    BY <1>1, <1>2, SeedParts, ShortSequences
<1>3. CASE k \in 2 .. m + 1
    <2>1. k - 1 \in DOMAIN seedTraits /\ k = (k - 1) + 1
        BY <1>1, <1>3
    <2>2. seedPart[k] = <<TraitRow(seedTraits[k - 1])>>
        BY <2>1, SeedParts
    <2>3. QED
        BY <1>1, <2>1, <2>2, ShortSequences
<1>4. CASE k = m + 2
    BY <1>1, <1>4, SeedParts, ShortSequences
<1>5. CASE k = m + 3
    BY <1>1, <1>5, SeedParts
<1>6. QED
    BY <1>1, <1>2, <1>3, <1>4, <1>5

(* Which row is at which place. *)
LEMMA SeedPlaces ==
    ASSUME NEW k \in DOMAIN seedPart, NEW i \in DOMAIN seedPart[k]
    PROVE  /\ k \in Nat /\ i \in Nat \ {0}
           /\ IsRow(SeedRow(k, i))
           /\ \/ k = 1 /\ i = 1 /\ SeedRow(k, i) = SpeciesRow(SeedImage)
              \/ \E j \in DOMAIN seedTraits :
                    k = j + 1 /\ i = 1 /\ SeedRow(k, i) = TraitRow(seedTraits[j])
              \/ k = Len(seedTraits) + 2 /\ i = 1 /\ SeedRow(k, i) = CustomerRow
              \/ k = Len(seedTraits) + 3 /\ i = 1 /\ SeedRow(k, i) = SeedAnimal
              \/ \E j \in DOMAIN seedTraits :
                    /\ k = Len(seedTraits) + 3 /\ i = j + 1
                    /\ SeedRow(k, i) = AnimalTraitRow(SeedAnimal, TraitRow(seedTraits[j]))
<1> DEFINE m == Len(seedTraits)
<1>1. m \in Nat /\ DOMAIN seedTraits = 1 .. m
    BY SeedTraits
<1>2. k \in Nat /\ DOMAIN seedPart[k] = 1 .. Len(seedPart[k]) /\ Len(seedPart[k]) \in Nat
    BY <1>1, SeedCases, SeqFacts
<1>3. CASE k = 1 /\ seedPart[k] = <<SpeciesRow(SeedImage)>>
    <2>1. i = 1
        BY <1>3, <1>2, ShortSequences
    <2>2. SeedRow(k, i) = SpeciesRow(SeedImage)
        BY <1>3, <2>1 DEF SeedRow
    <2>3. QED
        BY <1>2, <1>3, <2>1, <2>2, RowsMade DEF IsRow
<1>4. ASSUME NEW j \in DOMAIN seedTraits, k = j + 1, seedPart[k] = <<TraitRow(seedTraits[j])>>
      PROVE  /\ i = 1 /\ SeedRow(k, i) = TraitRow(seedTraits[j])
             /\ IsRow(SeedRow(k, i))
    <2>1. i = 1
        BY <1>4, <1>2, ShortSequences
    <2>2. SeedRow(k, i) = TraitRow(seedTraits[j])
        BY <1>4, <2>1 DEF SeedRow
    <2>3. QED
        BY <1>4, <2>1, <2>2, SeedTraits, RowsMade DEF IsRow
<1>5. CASE k = m + 2 /\ seedPart[k] = <<CustomerRow>>
    <2>1. i = 1
        BY <1>5, <1>2, ShortSequences
    <2>2. SeedRow(k, i) = CustomerRow
        BY <1>5, <2>1 DEF SeedRow
    <2>3. QED
        BY <1>2, <1>5, <2>1, <2>2, RowsMade DEF IsRow
<1>6. CASE k = m + 3
    <2>1. i \in 1 .. m + 1
        BY <1>6, <1>2, SeedParts
    <2>2. CASE i = 1
        <3>1. SeedRow(k, i) = SeedAnimal
            BY <1>6, <2>2, SeedParts DEF SeedRow
        <3>2. QED
            BY <1>2, <1>6, <2>2, <3>1, SeedAnimalMade DEF IsRow
    <2>3. CASE i # 1
        <3>1. i - 1 \in DOMAIN seedTraits /\ i = (i - 1) + 1
            BY <1>1, <2>1, <2>3
        <3>2. SeedRow(k, i) = AnimalTraitRow(SeedAnimal, TraitRow(seedTraits[i - 1]))
            BY <1>6, <3>1, SeedParts DEF SeedRow
        <3>3. TraitRow(seedTraits[i - 1]) \in SeedAnimal.traits
            BY <3>1, SeedTraits, SeedAnimalMade
        <3>4. IsRow(SeedRow(k, i))
            BY <3>2, <3>3, SeedAnimalMade, RowsMade DEF IsRow
        <3>5. QED
            BY <1>2, <1>6, <3>1, <3>2, <3>4
    <2>4. QED
        BY <2>2, <2>3
<1>7. \/ k = 1 /\ seedPart[k] = <<SpeciesRow(SeedImage)>>
      \/ \E j \in DOMAIN seedTraits : k = j + 1 /\ seedPart[k] = <<TraitRow(seedTraits[j])>>
      \/ k = m + 2 /\ seedPart[k] = <<CustomerRow>>
      \/ k = m + 3
    BY SeedCases
<1>8. CASE \E j \in DOMAIN seedTraits : k = j + 1 /\ seedPart[k] = <<TraitRow(seedTraits[j])>>
    <2>1. PICK j \in DOMAIN seedTraits : k = j + 1 /\ seedPart[k] = <<TraitRow(seedTraits[j])>>
        BY <1>8
    <2>2. i = 1 /\ SeedRow(k, i) = TraitRow(seedTraits[j]) /\ IsRow(SeedRow(k, i))
        BY <1>4, <2>1
    <2>3. i \in Nat \ {0}
        BY <1>2
    <2>4. QED
        BY <1>2, <2>1, <2>2, <2>3
<1>9. QED
    BY <1>3, <1>5, <1>6, <1>7, <1>8

(* The seed names every entity once. *)
LEMMA SeedOnce ==
    ASSUME NEW k \in DOMAIN seedPart, NEW i \in DOMAIN seedPart[k],
           NEW l \in DOMAIN seedPart, NEW j \in DOMAIN seedPart[l],
           SeedRow(k, i).id = SeedRow(l, j).id
    PROVE  k = l /\ i = j
<1> DEFINE Place(x, y, id) ==
                \/ x = 1 /\ y = 1 /\ id = <<"species", "s">>
                \/ \E t \in DOMAIN seedTraits :
                    x = t + 1 /\ y = 1 /\ id = <<"traits", seedTraits[t]>>
                \/ x = Len(seedTraits) + 2 /\ y = 1 /\ id = <<"customers", "c">>
                \/ x = Len(seedTraits) + 3 /\ y = 1 /\ id = <<"animals", "a">>
                \/ \E t \in DOMAIN seedTraits :
                    /\ x = Len(seedTraits) + 3 /\ y = t + 1
                    /\ id = <<"animalTraits", "a", seedTraits[t]>>
<1>1. /\ SpeciesRow(SeedImage).id = <<"species", "s">>
      /\ CustomerRow.id = <<"customers", "c">>
      /\ SeedAnimal.id = <<"animals", "a">>
      /\ \A t : TraitRow(t).id = <<"traits", t>>
      /\ \A t : AnimalTraitRow(SeedAnimal, TraitRow(t)).id = <<"animalTraits", "a", t>>
    BY DEF SpeciesRow, CustomerRow, SeedAnimal, AnimalRow, TraitRow, AnimalTraitRow
<1>2. ASSUME NEW x \in DOMAIN seedPart, NEW y \in DOMAIN seedPart[x]
      PROVE  Place(x, y, SeedRow(x, y).id)
    <2>1. PICK r : r = SeedRow(x, y)
        OBVIOUS
    <2>2. \/ x = 1 /\ y = 1 /\ r = SpeciesRow(SeedImage)
          \/ \E t \in DOMAIN seedTraits :
                x = t + 1 /\ y = 1 /\ r = TraitRow(seedTraits[t])
          \/ x = Len(seedTraits) + 2 /\ y = 1 /\ r = CustomerRow
          \/ x = Len(seedTraits) + 3 /\ y = 1 /\ r = SeedAnimal
          \/ \E t \in DOMAIN seedTraits :
                /\ x = Len(seedTraits) + 3 /\ y = t + 1
                /\ r = AnimalTraitRow(SeedAnimal, TraitRow(seedTraits[t]))
        BY <2>1, SeedPlaces
    <2>3. Place(x, y, r.id)
        BY <1>1, <2>2
    <2>4. QED
        BY <2>1, <2>3
<1>3. Place(k, i, SeedRow(k, i).id) /\ Place(l, j, SeedRow(k, i).id)
    BY <1>2
<1> HIDE DEF Place
<1>4. ASSUME NEW id, Place(k, i, id), Place(l, j, id)
      PROVE  k = l /\ i = j
    <2>1. \A t, u \in DOMAIN seedTraits : seedTraits[t] = seedTraits[u] => t = u
        BY SeedTraits
    <2>2. QED
        BY <1>4, <2>1 DEF Place
<1>5. QED
    BY <1>3, <1>4

(* The history rows of the seed, on whichever node. *)
SeedVersions == historyOf(Seeded(SeedUnique))

(* The history row of the i-th row of the k-th entity. *)
SeedVersion(k, i) == HistoryRow(seedTimeId(SeedUnique, rowsBefore(k) + i), SeedRow(k, i), {}, "seed")

(* The rows before an entity are counted by a number. *)
LEMMA SeedCounts ==
    ASSUME NEW k \in 1 .. Len(seedPart) + 1
    PROVE  rowsBefore(k) \in Nat
<1> DEFINE U == {SeedRow(l[1], l[2]) : l \in Nat \X Nat}
           s == SubSeq(seedPart, 1, k - 1)
           W == Seq(U)
<1>1. IsSeq(seedPart) /\ Len(seedPart) \in Nat /\ DOMAIN seedPart = 1 .. Len(seedPart)
    BY SeedParts, SeqFacts
<1>2. ASSUME NEW l \in DOMAIN seedPart PROVE seedPart[l] \in Seq(U)
    <2>1. IsSeq(seedPart[l]) /\ l \in Nat
        BY SeedCases, <1>1
    <2>2. \A i \in DOMAIN seedPart[l] : seedPart[l][i] = SeedRow(l, i) /\ i \in Nat
        BY <2>1, SeqFacts DEF SeedRow
    <2>3. \A i \in DOMAIN seedPart[l] : seedPart[l][i] \in U
        <3>1. ASSUME NEW i \in DOMAIN seedPart[l] PROVE seedPart[l][i] \in U
            <4>1. <<l, i>> \in Nat \X Nat /\ seedPart[l][i] = SeedRow(<<l, i>>[1], <<l, i>>[2])
                BY <2>1, <2>2
            <4>2. QED
                BY <4>1
        <3>2. QED
            BY <3>1
    <2> HIDE DEF U
    <2>4. Range(seedPart[l]) \subseteq U
        BY <2>3 DEF Range
    <2>5. QED
        BY <2>1, <2>4, SeqMonotonic DEF IsSeq
<1> HIDE DEF U
<1>3. s \in Seq(W)
    <2>1. \A i \in 1 .. k - 1 : seedPart[i] \in W
        BY <1>1, <1>2
    <2> HIDE DEF W
    <2>2. 1 \in Int /\ k - 1 \in Int
        BY <1>1
    <2>3. QED
        BY <2>1, <2>2, SubSeqProperties
<1>4. FlattenSeq(s) \in W
    <2>1. <<>> \in W
        BY EmptySeq
    <2>2. \A i \in 1 .. Len(s) : s[i] \in W
        BY <1>3, ElementOfSeq
    <2>3. \A i \in 1 .. Len(s) : \A p \in W : p \o s[i] \in W
        BY <2>2, ConcatProperties
    <2> HIDE DEF s
    <2>4. QED
        BY <1>3, <2>1, <2>3, FlattenStays
<1>5. Len(FlattenSeq(s)) \in Nat
    BY <1>4, LenProperties
<1>6. QED
    BY <1>5 DEF rowsBefore

(* The seed has a number of rows. *)
LEMMA SeedLengthIsNumber == SeedLength \in Nat
<1>1. Len(seedPart) \in Nat
    BY SeedParts, SeqFacts
<1>2. QED
    BY <1>1, SeedCounts DEF SeedLength

(* Each is a history row with a timeId of no node. *)
LEMMA SeedVersionMade ==
    ASSUME NEW k \in DOMAIN seedPart, NEW i \in DOMAIN seedPart[k]
    PROVE  LET v == SeedVersion(k, i)
           IN  /\ IsHistoryRow(v)
               /\ v = HistoryRow(v.timeId, v.row, v.previous, v.origin)
               /\ v.timeId = [ms |-> v.timeId.ms, unique |-> v.timeId.unique]
               /\ v.timeId.ms \in Nat
               /\ v.timeId.unique = SeedUnique
               /\ v.row = SeedRow(k, i)
               /\ v.previous = {}
               /\ v.origin = "seed"
<1>1. rowsBefore(k) \in Nat
    BY SeedCounts, SeedParts, SeqFacts
<1>2. i \in Nat
    BY SeedPlaces
<1>3. rowsBefore(k) + i \in Nat
    BY <1>1, <1>2
<1>4. QED
    BY <1>3 DEF SeedVersion, HistoryRow, seedTimeId, IsHistoryRow

(* A seeded store holds these rows and history rows and no others. *)
LEMMA SeedContents ==
    ASSUME NEW n
    PROVE  /\ \A row \in rowsOf(Seeded(n)) :
                \E k \in DOMAIN seedPart : \E i \in DOMAIN seedPart[k] : row = SeedRow(k, i)
           /\ \A v \in historyOf(Seeded(n)) :
                \E k \in DOMAIN seedPart : \E i \in DOMAIN seedPart[k] : v = SeedVersion(k, i)
           /\ \A k \in DOMAIN seedPart : \A i \in DOMAIN seedPart[k] :
                /\ SeedRow(k, i) \in rowsOf(Seeded(n))
                /\ SeedVersion(k, i) \in historyOf(Seeded(n))
<1>1. ASSUME NEW k \in DOMAIN seedPart, NEW i \in DOMAIN seedPart[k]
      PROVE  /\ ~IsHistoryRow(SeedRow(k, i))
             /\ IsHistoryRow(SeedVersion(k, i))
    BY SeedPlaces, RowTables, SeedVersionMade
<1>2. \A k, i : SeedVersion(k, i) = HistoryRow(seedTimeId(n, rowsBefore(k) + i), seedPart[k][i], {}, "seed")
    BY DEF SeedVersion, SeedRow, seedTimeId
<1>3. Seeded(n) = UNION {seedChangeSet(n, seedPart[k], rowsBefore(k)) : k \in DOMAIN seedPart}
    BY DEF Seeded, seedChangeSets
<1>4. ASSUME NEW k \in DOMAIN seedPart
      PROVE  seedChangeSet(n, seedPart[k], rowsBefore(k)) =
                {SeedRow(k, i) : i \in DOMAIN seedPart[k]}
                \cup {SeedVersion(k, i) : i \in DOMAIN seedPart[k]}
    BY <1>2 DEF seedChangeSet, SeedRow
<1>5. \A x : x \in Seeded(n) <=>
        \E k \in DOMAIN seedPart : \E i \in DOMAIN seedPart[k] :
            x = SeedRow(k, i) \/ x = SeedVersion(k, i)
    BY <1>3, <1>4
<1>6. QED
    BY <1>1, <1>5 DEF rowsOf, historyOf

(* Each is a history row of the seed, and no two are of one entity. *)
LEMMA SeedVersionsFit ==
    /\ \A v \in SeedVersions :
        /\ IsHistoryRow(v)
        /\ v = HistoryRow(v.timeId, v.row, v.previous, v.origin)
        /\ v.timeId = [ms |-> v.timeId.ms, unique |-> v.timeId.unique]
        /\ v.timeId.ms \in Nat
        /\ v.timeId.unique = SeedUnique
        /\ IsRow(v.row)
        /\ v.previous = {}
        /\ v.origin = "seed"
    /\ \A v, w \in SeedVersions : v.row.id = w.row.id => v = w
<1>1. ASSUME NEW v \in SeedVersions
      PROVE  \E k \in DOMAIN seedPart : \E i \in DOMAIN seedPart[k] : v = SeedVersion(k, i)
    BY SeedContents DEF SeedVersions
<1>2. ASSUME NEW v \in SeedVersions
      PROVE  /\ IsHistoryRow(v)
             /\ v = HistoryRow(v.timeId, v.row, v.previous, v.origin)
             /\ v.timeId = [ms |-> v.timeId.ms, unique |-> v.timeId.unique]
             /\ v.timeId.ms \in Nat
             /\ v.timeId.unique = SeedUnique
             /\ IsRow(v.row)
             /\ v.previous = {}
             /\ v.origin = "seed"
    <2>1. PICK k \in DOMAIN seedPart : \E i \in DOMAIN seedPart[k] : v = SeedVersion(k, i)
        BY <1>1
    <2>2. PICK i \in DOMAIN seedPart[k] : v = SeedVersion(k, i)
        BY <2>1
    <2>3. IsRow(SeedRow(k, i))
        BY SeedPlaces
    <2>4. QED
        BY <2>2, <2>3, SeedVersionMade
<1>3. ASSUME NEW v \in SeedVersions, NEW w \in SeedVersions, v.row.id = w.row.id
      PROVE  v = w
    <2>1. PICK k \in DOMAIN seedPart : \E i \in DOMAIN seedPart[k] : v = SeedVersion(k, i)
        BY <1>1
    <2>2. PICK i \in DOMAIN seedPart[k] : v = SeedVersion(k, i)
        BY <2>1
    <2>3. PICK l \in DOMAIN seedPart : \E i_1 \in DOMAIN seedPart[l] : w = SeedVersion(l, i_1)
        BY <1>1
    <2>4. PICK j \in DOMAIN seedPart[l] : w = SeedVersion(l, j)
        BY <2>3
    <2>5. SeedRow(k, i).id = SeedRow(l, j).id
        BY <1>3, <2>2, <2>4, SeedVersionMade
    <2>6. k = l /\ i = j
        BY <2>5, SeedOnce
    <2>7. QED
        BY <2>2, <2>4, <2>6
<1>4. QED
    BY <1>2, <1>3

(* The seed is finite. *)
LEMMA SeedIsFinite ==
    ASSUME NEW n
    PROVE  IsFiniteSet(Seeded(n))
<1>1. ASSUME NEW k \in DOMAIN seedPart
      PROVE  IsFiniteSet(seedChangeSet(n, seedPart[k], rowsBefore(k)))
    <2> DEFINE p == seedPart[k]
               D == DOMAIN p
               h == [i \in D |-> HistoryRow(seedTimeId(n, rowsBefore(k) + i), p[i], {}, "seed")]
    <2>1. IsSeq(p)
        BY SeedCases
    <2> HIDE DEF p
    <2>2. IsFiniteSet(D)
        BY <2>1, SeqFacts, FS_Interval
    <2>3. IsFiniteSet({p[i] : i \in D})
        BY <2>2, FiniteImage
    <2>4. IsFiniteSet({h[i] : i \in D})
        <3>1. DOMAIN h = D
            OBVIOUS
        <3> HIDE DEF h, D
        <3>2. QED
            BY <2>2, <3>1, FiniteImage
    <2>5. {h[i] : i \in D} = {HistoryRow(seedTimeId(n, rowsBefore(k) + i), p[i], {}, "seed") : i \in D}
        OBVIOUS
    <2> HIDE DEF h
    <2>6. seedChangeSet(n, p, rowsBefore(k)) = {p[i] : i \in D} \cup {h[i] : i \in D}
        BY <2>5 DEF seedChangeSet
    <2>7. IsFiniteSet(seedChangeSet(n, p, rowsBefore(k)))
        BY <2>3, <2>4, <2>6, FS_Union
    <2>8. QED
        BY <2>7 DEF p
<1> DEFINE f == [k \in DOMAIN seedPart |-> seedChangeSet(n, seedPart[k], rowsBefore(k))]
<1>2. IsFiniteSet(DOMAIN seedPart)
    BY SeedParts, SeqFacts, FS_Interval
<1>3. IsFiniteSet({f[k] : k \in DOMAIN seedPart})
    <2>1. DOMAIN f = DOMAIN seedPart
        OBVIOUS
    <2> HIDE DEF f
    <2>2. QED
        BY <1>2, <2>1, FiniteImage
<1>4. \A k \in DOMAIN seedPart : IsFiniteSet(f[k])
    BY <1>1
<1>5. Seeded(n) = UNION {f[k] : k \in DOMAIN seedPart}
    BY DEF Seeded, seedChangeSets
<1> HIDE DEF f
<1>6. QED
    BY <1>3, <1>4, <1>5, FS_UNION

(* A history row as some store can hold it: the seed's, or one a node wrote in a call of its *)
(* API.                                                                                      *)
IsVersion(v) ==
    /\ v = HistoryRow(v.timeId, v.row, v.previous, v.origin)
    /\ v.timeId = [ms |-> v.timeId.ms, unique |-> v.timeId.unique]
    /\ v.timeId.ms \in Nat
    /\ v.timeId.unique \in Nodes \cup {SeedUnique}
    /\ IsRow(v.row)
    /\ IF v.timeId.unique = SeedUnique THEN v \in SeedVersions ELSE v.origin = "api"

(* The versions a node has that it has written itself. *)
OwnVersions(n) == {v \in history[n] : v.timeId.unique = n}

(* The versions of all stores. *)
Versions == UNION {history[n] : n \in Nodes}

(* Every variable that is a function has a value for each node. *)
Shape ==
    /\ DOMAIN rows = Nodes
    /\ DOMAIN history = Nodes
    /\ DOMAIN changeSets = Nodes
    /\ DOMAIN held = Nodes
    /\ DOMAIN blobs = Nodes
    /\ DOMAIN chain = Nodes
    /\ DOMAIN pulls = Nodes
    /\ DOMAIN clock = Nodes

(* The tables are finite and hold rows and versions. *)
Stored ==
    \A n \in Nodes :
        /\ IsFiniteSet(rows[n])
        /\ IsFiniteSet(history[n])
        /\ \A row \in rows[n] : IsRow(row)
        /\ \A v \in history[n] : IsVersion(v)

(* A node has every version it ever wrote: nothing removes one, and what a peer has of it was *)
(* pulled.                                                                                    *)
OwnKnown == \A n \in Nodes : \A v \in history[n] :
    v.timeId.unique # SeedUnique => v \in history[v.timeId.unique]

(* The timeIds of a node's own versions are before its clock and tell them apart. *)
OwnTimes == \A n \in Nodes :
    /\ \A v \in OwnVersions(n) : v.timeId.ms <= SeedLength + clock[n]
    /\ \A v, w \in OwnVersions(n) : v.timeId = w.timeId => v = w

(* The unique part of the seed is that of no node. *)
LEMMA SeedIsNoNode ==
    /\ Nodes \cup {SeedUnique} \subseteq Nat
    /\ SeedUnique \notin Nodes
BY StoreAssumption DEF SeedUnique

(* A version passes for a history row. *)
LEMMA VersionsAreHistory ==
    ASSUME NEW v, IsVersion(v)
    PROVE  IsHistoryRow(v)
BY DEF IsVersion, HistoryRow, IsHistoryRow

(* Two versions of one entity differ in their timeIds. *)
LEMMA TimesTellApart ==
    ASSUME Stored, OwnKnown, OwnTimes,
           NEW n \in Nodes, NEW v \in history[n], NEW m \in Nodes, NEW w \in history[m],
           v.row.id = w.row.id, v.timeId = w.timeId
    PROVE  v = w
<1>1. IsVersion(v) /\ IsVersion(w)
    BY DEF Stored
<1>2. CASE v.timeId.unique = SeedUnique
    <2>1. v \in SeedVersions /\ w \in SeedVersions
        BY <1>1, <1>2 DEF IsVersion
    <2>2. QED
        BY <2>1, SeedVersionsFit
<1>3. CASE v.timeId.unique # SeedUnique
    <2> DEFINE p == v.timeId.unique
    <2>1. p \in Nodes /\ w.timeId.unique = p
        BY <1>1, <1>3 DEF IsVersion
    <2>2. v \in OwnVersions(p) /\ w \in OwnVersions(p)
        BY <1>3, <2>1 DEF OwnKnown, OwnVersions
    <2>3. QED
        BY <2>1, <2>2 DEF OwnTimes
<1>4. QED
    BY <1>2, <1>3

(* The versions of an entity can be compared, as currentVersion needs. *)
LEMMA VersionsOf ==
    ASSUME Stored, OwnKnown, OwnTimes, NEW n \in Nodes, NEW id
    PROVE  /\ Comparable(versionsOf(n, id))
           /\ \A v \in versionsOf(n, id) :
                v \in history[n] /\ v.row \in rows[n] /\ v.row.id = id /\ IsVersion(v)
           /\ \A v \in history[n] : v.row \in rows[n] => v \in versionsOf(n, v.row.id)
<1> DEFINE S == versionsOf(n, id)
<1>1. S = {v \in history[n] : v.row \in rows[n] /\ v.row.id = id}
    BY DEF versionsOf, versionsByEntity
<1>2. S \subseteq history[n]
    BY <1>1
<1>3. IsFiniteSet(S)
    <2> HIDE DEF S
    <2>1. IsFiniteSet(history[n])
        BY DEF Stored
    <2>2. QED
        BY <1>2, <2>1, FS_Subset
<1> HIDE DEF S
<1>4. \A v \in S : IsVersion(v)
    BY <1>2 DEF Stored
<1>5. \A v \in S : /\ v.timeId = [ms |-> v.timeId.ms, unique |-> v.timeId.unique]
                   /\ v.timeId.ms \in Nat
                   /\ v.timeId.unique \in Nat
    <2>1. ASSUME NEW v \in S
          PROVE  /\ v.timeId = [ms |-> v.timeId.ms, unique |-> v.timeId.unique]
                 /\ v.timeId.ms \in Nat
                 /\ v.timeId.unique \in Nodes \cup {SeedUnique}
        BY <1>4 DEF IsVersion
    <2>2. QED
        BY <2>1, SeedIsNoNode
<1>6. ASSUME NEW v \in S, NEW w \in S, v.timeId = w.timeId PROVE v = w
    <2>1. v \in history[n] /\ w \in history[n] /\ v.row.id = w.row.id
        BY <1>1
    <2>2. QED
        BY <1>6, <2>1, TimesTellApart
<1>7. Comparable(S)
    BY <1>3, <1>5, <1>6 DEF Comparable
<1>8. \A v \in history[n] : v.row \in rows[n] => v \in versionsOf(n, v.row.id)
    BY DEF versionsOf, versionsByEntity
<1>9. QED
    BY <1>1, <1>4, <1>7, <1>8 DEF S

(* An entity that has versions has a current one among them. *)
LEMMA CurrentStored ==
    ASSUME Stored, OwnKnown, OwnTimes, NEW n \in Nodes, NEW id, versionsOf(n, id) # {}
    PROVE  /\ currentVersion(versionsOf(n, id)) \in versionsOf(n, id)
           /\ (\E v \in versionsOf(n, id) : \A w \in versionsOf(n, id) :
                    v.timeId \notin w.previous) =>
                \A w \in versionsOf(n, id) :
                    currentVersion(versionsOf(n, id)).timeId \notin w.previous
<1> DEFINE S == versionsOf(n, id)
<1>1. Comparable(S) /\ S # {}
    BY VersionsOf
<1> HIDE DEF S
<1>2. /\ currentVersion(S) \in S
      /\ (\E v \in S : \A w \in S : v.timeId \notin w.previous) =>
            \A w \in S : currentVersion(S).timeId \notin w.previous
    BY <1>1, CurrentOf
<1>3. QED
    BY <1>2 DEF S

(* The current rows of a table are rows of the store. *)
LEMMA CurrentRows ==
    ASSUME Stored, OwnKnown, OwnTimes, NEW n \in Nodes, NEW tableKey
    PROVE  /\ IsFiniteSet(current(n, tableKey))
           /\ \A row \in current(n, tableKey) :
                row \in rows[n] /\ IsRow(row) /\ table(row) = tableKey
<1>1. ASSUME NEW row \in current(n, tableKey)
      PROVE  row \in rows[n] /\ IsRow(row) /\ table(row) = tableKey
    <2>1. PICK id \in entitiesOf(rows[n], history[n], tableKey) :
                row = currentVersion(versionsOf(n, id)).row
        BY DEF current, currentRows, versionsOf
    <2>2. PICK v \in history[n] : v.row \in rows[n] /\ v.row.id[1] = tableKey /\ id = v.row.id
        BY DEF entitiesOf
    <2>3. v \in versionsOf(n, id)
        BY <2>2, VersionsOf
    <2>4. PICK x : x = currentVersion(versionsOf(n, id))
        OBVIOUS
    <2>5. x \in versionsOf(n, id)
        BY <2>3, <2>4, CurrentStored
    <2>6. x.row \in rows[n] /\ x.row.id = id
        BY <2>5, VersionsOf
    <2>7. row = x.row
        BY <2>1, <2>4
    <2>8. QED
        BY <2>2, <2>6, <2>7 DEF Stored, table
<1>2. current(n, tableKey) \subseteq rows[n]
    BY <1>1
<1>3. IsFiniteSet(rows[n])
    BY DEF Stored
<1>4. QED
    BY <1>1, <1>2, <1>3, FS_Subset

(* The number of a new invoice is none of an invoice in the store. *)
LEMMA NumberIsNew ==
    ASSUME Stored, NEW n \in Nodes
    PROVE  /\ nextInvoiceSequence(readRows(n, "invoices")) \in Nat
           /\ \A row \in rows[n] :
                row.id # <<"invoices", nextInvoiceSequence(readRows(n, "invoices"))>>
<1> DEFINE invoices == readRows(n, "invoices")
           f == [row \in invoices |-> row.id[2]]
           N == {0} \cup {row.id[2] : row \in invoices}
<1>1. invoices \subseteq rows[n] /\ \A row \in rows[n] : table(row) = "invoices" => row \in invoices
    BY DEF readRows
<1>2. IsFiniteSet(invoices)
    <2> HIDE DEF invoices
    <2>1. QED
        BY <1>1, FS_Subset DEF Stored
<1>3. \A row \in invoices : row.id[2] \in Nat /\ table(row) = "invoices"
    BY RowTables DEF Stored, readRows, IsInvoice
<1> HIDE DEF invoices
<1>4. IsFiniteSet(N)
    <2>1. DOMAIN f = invoices
        OBVIOUS
    <2>2. {f[row] : row \in invoices} = {row.id[2] : row \in invoices}
        OBVIOUS
    <2> HIDE DEF f
    <2>3. IsFiniteSet({f[row] : row \in invoices})
        BY <1>2, <2>1, FiniteImage
    <2>4. IsFiniteSet({0})
        BY FS_Singleton
    <2>5. QED
        BY <2>2, <2>3, <2>4, FS_Union
<1>5. N \in SUBSET Nat /\ N # {}
    BY <1>3
<1>6. \A row \in invoices : row.id[2] \in N
    OBVIOUS
<1> HIDE DEF N
<1>7. Max(N) \in N /\ \A x \in N : Max(N) >= x
    BY <1>4, <1>5, MaxOfFinite
<1>8. Max(N) \in Nat
    BY <1>5, <1>7
<1>9. nextInvoiceSequence(invoices) = Max(N) + 1
    BY DEF nextInvoiceSequence, N
<1>10. ASSUME NEW row \in rows[n], row.id = <<"invoices", Max(N) + 1>> PROVE FALSE
    <2>1. row \in invoices
        BY <1>1, <1>10 DEF table
    <2>2. row.id[2] = Max(N) + 1
        BY <1>10
    <2>3. Max(N) >= Max(N) + 1
        BY <1>6, <1>7, <2>1, <2>2
    <2>4. QED
        BY <1>8, <2>3
<1>11. QED
    BY <1>8, <1>9, <1>10 DEF invoices

-----------------------------------------------------------------------------
(* What the calls plan. *)

(* What updateAnimal plans: nothing, or an animal, its history row and the pairings. *)
LEMMA AnimalPlanned ==
    ASSUME Stored, OwnKnown, OwnTimes, NEW n \in Nodes, NEW call
    PROVE  \/ updateAnimalNow(n, call) = <<>>
           \/ \E animal : /\ IsAnimal(animal)
                          /\ updateAnimalNow(n, call) =
                                writeRow(animal, currentTimeIds(n, animal.id))
                                \o <<PutPairings(animal)>>
<1> DEFINE versions == versionsOf(n, <<"animals", "a">>)
           before == currentVersion(versions).row
           kept == {trait.id[2] : trait \in traitsOf(rows[n], Mode[n], before)}
           traitIds == IF call.traits = Keep THEN kept ELSE call.traits
           traits == {trait \in current(n, "traits") : trait.id[2] \in traitIds}
           species == IF call.species THEN current(n, "species") ELSE {before.species}
           name == IF call.name = Keep THEN before.name ELSE call.name
           animal == AnimalRow(name, CHOOSE s \in species : TRUE, traits)
           nothing == \/ call.name = Keep /\ call.traits = Keep /\ ~call.species
                      \/ versions = {}
                      \/ {trait.id[2] : trait \in traits} # traitIds
                      \/ species = {}
<1>1. updateAnimalNow(n, call) =
        IF nothing THEN <<>>
        ELSE writeRow(animal, currentTimeIds(n, animal.id)) \o <<PutPairings(animal)>>
    BY DEF updateAnimalNow
<1>2. CASE nothing
    BY <1>1, <1>2
<1>3. CASE ~nothing
    <2>1. versions # {} /\ species # {}
        BY <1>3
    <2>2. currentVersion(versions) \in versions
        BY <2>1, CurrentStored
    <2>3. IsAnimal(before)
        <3> DEFINE x == currentVersion(versions)
        <3>1. x.row \in rows[n] /\ x.row.id = <<"animals", "a">>
            BY <2>2, VersionsOf
        <3>2. IsRow(x.row) /\ table(x.row) = "animals"
            BY <3>1 DEF Stored, table
        <3>3. QED
            BY <3>2, RowTables
    <2>4. IsSpecies(before.species)
        BY <2>3 DEF IsAnimal
    <2>5. \A s \in current(n, "species") : IsSpecies(s)
        BY CurrentRows, RowTables
    <2>6. \A s \in species : IsSpecies(s)
        BY <2>4, <2>5
    <2>7. IsFiniteSet(traits)
        <3>1. IsFiniteSet(current(n, "traits")) /\ traits \subseteq current(n, "traits")
            BY CurrentRows
        <3> HIDE DEF traits
        <3>2. QED
            BY <3>1, FS_Subset
    <2>8. \A trait \in traits : IsTrait(trait)
        BY CurrentRows, RowTables
    <2> HIDE DEF versions, before, kept, traitIds, traits, species, name
    <2>9. IsSpecies(CHOOSE s \in species : TRUE)
        BY <2>1, <2>6
    <2>10. IsAnimal(animal)
        BY <2>7, <2>8, <2>9, RowsMade
    <2>11. QED
        BY <1>1, <1>3, <2>10
<1>4. QED
    BY <1>2, <1>3

(* What updateSpeciesImage plans: nothing, the blob alone, or the blob before the row. *)
LEMMA ImagePlanned ==
    ASSUME Stored, OwnKnown, OwnTimes, NEW n \in Nodes, NEW call
    PROVE  \/ updateSpeciesImageNow(n, call) = <<>>
           \/ updateSpeciesImageNow(n, call) = <<PutBlob(call.image)>>
           \/ updateSpeciesImageNow(n, call) =
                imageAndRow(call.image, currentTimeIds(n, <<"species", "s">>))
BY DEF updateSpeciesImageNow, currentTimeIds

(* What issueInvoice plans: nothing, or the invoice with the next number and its item. *)
LEMMA InvoicePlanned ==
    ASSUME Stored, OwnKnown, OwnTimes, NEW n \in Nodes
    PROVE  \/ writeInvoiceNow(n) = <<>>
           \/ \E sequence \in Nat, customer \in rows[n], animal \in rows[n] :
                /\ IsCustomer(customer)
                /\ IsAnimal(animal)
                /\ \A row \in rows[n] : row.id # <<"invoices", sequence>>
                /\ writeInvoiceNow(n) =
                    writeRow(InvoiceRow(sequence, customer), {})
                    \o writeRow(InvoiceItemRow(InvoiceRow(sequence, customer), 1, animal), {})
                    \o recordChangeSet
<1> DEFINE sequence == nextInvoiceSequence(readRows(n, "invoices"))
           customers == current(n, "customers")
           animals == current(n, "animals")
           customer == CHOOSE c \in customers : TRUE
           animal == CHOOSE a \in animals : TRUE
           planned == invoiceRows(sequence, customer, animal)
<1>1. writeInvoiceNow(n) =
        IF customers = {} \/ animals = {} THEN <<>>
        ELSE writeRow(planned[1], {}) \o writeRow(planned[2], {}) \o recordChangeSet
    BY DEF writeInvoiceNow
<1>2. sequence \in Nat /\ \A row \in rows[n] : row.id # <<"invoices", sequence>>
    BY NumberIsNew
<1>3. /\ \A c \in customers : c \in rows[n] /\ IsCustomer(c)
      /\ \A a \in animals : a \in rows[n] /\ IsAnimal(a)
    BY CurrentRows, RowTables
<1> HIDE DEF sequence, customers, animals
<1>4. CASE customers = {} \/ animals = {}
    BY <1>1, <1>4
<1>5. CASE ~(customers = {} \/ animals = {})
    <2>1. customer \in customers /\ animal \in animals
        BY <1>5
    <2>2. /\ planned[1] = InvoiceRow(sequence, customer)
          /\ planned[2] = InvoiceItemRow(InvoiceRow(sequence, customer), 1, animal)
        BY DEF invoiceRows
    <2> HIDE DEF customer, animal, planned
    <2>3. writeInvoiceNow(n) =
                    writeRow(InvoiceRow(sequence, customer), {})
                    \o writeRow(InvoiceItemRow(InvoiceRow(sequence, customer), 1, animal), {})
                    \o recordChangeSet
        BY <1>1, <1>5, <2>2
    <2>4. QED
        BY <1>2, <1>3, <2>1, <2>3
<1>6. QED
    BY <1>4, <1>5

(* The pairings of an animal: row and history row of one trait after the   *)
(* other, each trait once. *)
PairingPlan(n, animal, order, s) ==
    LET m == Len(order)
        pairing(j) == AnimalTraitRow(animal, order[j])
    IN  /\ m \in Nat
        /\ DOMAIN order = 1 .. m
        /\ \A j \in 1 .. m : order[j] \in animal.traits
        /\ \A trait \in animal.traits : \E j \in 1 .. m : order[j] = trait
        /\ \A i, j \in 1 .. m : order[i] = order[j] => i = j
        /\ IsSeq(s)
        /\ Len(s) = 2 * m
        /\ \A j \in 1 .. m : /\ s[2 * j - 1] = PutRow(pairing(j))
                             /\ s[2 * j] = PutHistory(pairing(j), currentTimeIds(n, pairing(j).id))

(* What writePairings plans: two writes for each trait of the animal. *)
LEMMA PairingsPlanned ==
    ASSUME NEW n, NEW animal, IsFiniteSet(animal.traits)
    PROVE  PairingPlan(n, animal, SetToSeq(animal.traits), writePairings(n, animal))
<1> DEFINE order == SetToSeq(animal.traits)
           m == Len(order)
           pairing(j) == AnimalTraitRow(animal, order[j])
           a == [j \in 1 .. m |-> PutRow(pairing(j))]
           b == [j \in 1 .. m |-> PutHistory(pairing(j), currentTimeIds(n, pairing(j).id))]
           f == [i \in DOMAIN order |-> writeRow(pairing(i), currentTimeIds(n, pairing(i).id))]
<1>1. /\ order \in Seq(animal.traits)
      /\ \A x \in animal.traits : \E i \in DOMAIN order : order[i] = x
      /\ \A i, j \in DOMAIN order : order[i] = order[j] => i = j
    BY SetToSeqFacts
<1> HIDE DEF order
<1>2. m \in Nat /\ DOMAIN order = 1 .. m /\ \A j \in 1 .. m : order[j] \in animal.traits
    BY <1>1
<1>3. f = [i \in 1 .. m |-> <<a[i], b[i]>>]
    BY <1>2 DEF writeRow
<1>4. writePairings(n, animal) = FlattenSeq(f)
    BY DEF writePairings, order
<1>5. DOMAIN a = 1 .. m /\ DOMAIN b = 1 .. m
    OBVIOUS
<1>6. /\ \A j \in 1 .. m : a[j] = PutRow(pairing(j))
      /\ \A j \in 1 .. m : b[j] = PutHistory(pairing(j), currentTimeIds(n, pairing(j).id))
    OBVIOUS
<1>7. /\ IsSeq(FlattenSeq(f))
      /\ Len(FlattenSeq(f)) = 2 * m
      /\ \A j \in 1 .. m : FlattenSeq(f)[2 * j - 1] = a[j] /\ FlattenSeq(f)[2 * j] = b[j]
    <2>1. f = Zipped(a, b, m)
        BY <1>3 DEF Zipped
    <2> HIDE DEF a, b, f, m
    <2>2. Paired(a, b, m, FlattenSeq(f))
        BY <1>2, <1>5, <2>1, PairsFlattened
    <2>3. QED
        BY <2>2 DEF Paired
<1>8. QED
    <2> HIDE DEF a, b, f
    <2>1. PairingPlan(n, animal, order, FlattenSeq(f))
        BY <1>1, <1>2, <1>6, <1>7 DEF PairingPlan
    <2>2. QED
        BY <1>4, <2>1 DEF order

(* A write that a plan may hold at k whatever the job has written so far. *)
FreshWrite(n, s, k) ==
    \/ s[k].do = "row" /\ IsRow(s[k].row)
    \/ /\ s[k].do = "history"
       /\ IsRow(s[k].row)
       /\ \/ blobReferencesOf(s[k].row) \subseteq blobs[n]
          \/ \E j \in 1 .. k - 1 : s[j].do = "blob" /\ blobReferencesOf(s[k].row) = {s[j].image}
    \/ /\ s[k].do = "seed"
       /\ HistoryRow(seedTimeId(n, s[k].sequence), s[k].row, {}, "seed") \in SeedVersions
    \/ s[k].do = "blob"
    \/ s[k].do = "pairings" /\ IsAnimal(s[k].animal)
    \/ s[k].do = "changeSet"
    \/ s[k].do = "held" /\ k > 1 /\ s[k - 1].do = "changeSet"

(* A plan of such writes. *)
Fresh(n, s) == IsSeq(s) /\ \A k \in DOMAIN s : FreshWrite(n, s, k)

(* One such plan after another is one. *)
LEMMA FreshConcat ==
    ASSUME NEW n, NEW s, NEW t, Fresh(n, s), Fresh(n, t)
    PROVE  Fresh(n, s \o t)
<1> DEFINE m == Len(s)
           st == s \o t
<1>1. IsSeq(s) /\ IsSeq(t) /\ m \in Nat /\ DOMAIN s = 1 .. m /\ DOMAIN t = 1 .. Len(t)
    BY SeqFacts DEF Fresh
<1>2. Joined(s, t, m, Len(t), st)
    BY <1>1, ConcatAt
<1> HIDE DEF st, m
<1>3. ASSUME NEW k \in DOMAIN st PROVE FreshWrite(n, st, k)
    <2>0. DOMAIN st = 1 .. m + Len(t)
        BY <1>2, SeqFacts DEF Joined
    <2>1. CASE k \in 1 .. m
        <3>1. FreshWrite(n, s, k)
            BY <1>1, <2>1 DEF Fresh
        <3>2. st[k] = s[k] /\ \A j \in 1 .. k - 1 : st[j] = s[j]
            BY <1>1, <1>2, <2>1 DEF Joined
        <3>3. k > 1 => k - 1 \in 1 .. k - 1
            BY <1>1, <2>1
        <3>4. QED
            BY <3>1, <3>2, <3>3 DEF FreshWrite
    <2>2. CASE k \notin 1 .. m
        <3> DEFINE l == k - m
        <3>1. l \in 1 .. Len(t) /\ k = l + m
            BY <1>1, <1>2, <2>0, <2>2 DEF Joined
        <3>2. FreshWrite(n, t, l)
            BY <1>1, <3>1 DEF Fresh
        <3>3. st[k] = t[l] /\ \A j \in 1 .. l - 1 : j + m \in 1 .. k - 1 /\ st[j + m] = t[j]
            BY <1>1, <1>2, <3>1 DEF Joined
        <3>4. l > 1 => k > 1 /\ st[k - 1] = t[l - 1]
            <4>1. SUFFICES ASSUME l > 1 PROVE k > 1 /\ st[k - 1] = t[l - 1]
                OBVIOUS
            <4>2. l - 1 \in 1 .. l - 1 /\ l - 1 + m = k - 1 /\ k > 1
                BY <1>1, <3>1, <4>1
            <4>3. QED
                BY <3>3, <4>2
        <3> HIDE DEF l
        <3>5. QED
            BY <3>2, <3>3, <3>4 DEF FreshWrite
    <2>3. QED
        BY <2>1, <2>2
<1>4. QED
    BY <1>2, <1>3 DEF Fresh, Joined, st

(* The short plans. *)
LEMMA FreshShort ==
    ASSUME NEW n
    PROVE  /\ Fresh(n, <<>>)
           /\ \A image : Fresh(n, <<PutBlob(image)>>)
           /\ \A animal : IsAnimal(animal) => Fresh(n, <<PutPairings(animal)>>)
           /\ Fresh(n, recordChangeSet)
           /\ \A row, previous : IsRow(row) /\ ~IsSpecies(row) => Fresh(n, writeRow(row, previous))
<1>1. Fresh(n, <<>>)
    <2>1. IsSeq(<<>>)
        BY EmptySeq DEF IsSeq
    <2>2. QED
        BY <2>1 DEF Fresh
<1>2. ASSUME NEW image PROVE Fresh(n, <<PutBlob(image)>>)
    BY ShortSequences, SeqFacts DEF Fresh, FreshWrite, PutBlob
<1>3. ASSUME NEW animal, IsAnimal(animal) PROVE Fresh(n, <<PutPairings(animal)>>)
    BY <1>3, ShortSequences, SeqFacts DEF Fresh, FreshWrite, PutPairings
<1>4. Fresh(n, recordChangeSet)
    BY ShortSequences, SeqFacts DEF Fresh, FreshWrite, recordChangeSet, PutChangeSet, PutHeld
<1>5. ASSUME NEW row, NEW previous, IsRow(row), ~IsSpecies(row)
      PROVE  Fresh(n, writeRow(row, previous))
    <2>1. blobReferencesOf(row) = {}
        BY <1>5, RowTables
    <2>2. QED
        BY <1>5, <2>1, ShortSequences, SeqFacts
            DEF Fresh, FreshWrite, writeRow, PutRow, PutHistory
<1>6. QED
    BY <1>1, <1>2, <1>3, <1>4, <1>5

(* The plan of an uploaded image writes the blob before the row that names it. *)
LEMMA FreshImage ==
    ASSUME NEW n, NEW image, NEW previous
    PROVE  Fresh(n, imageAndRow(image, previous))
<1> DEFINE row == SpeciesRow(image)
           s == <<PutBlob(image)>> \o writeRow(row, previous)
<1>1. IsRow(row) /\ blobReferencesOf(row) = {image}
    <2>1. IsSpecies(row)
        BY RowsMade
    <2>2. IsRow(row) /\ table(row) = "species"
        BY <2>1 DEF IsRow, IsSpecies
    <2>3. row.image = image
        BY DEF SpeciesRow
    <2> HIDE DEF row
    <2>4. QED
        BY <2>2, <2>3, RowTables
<1>2. s = <<PutBlob(image), PutRow(row), PutHistory(row, previous)>>
    <2>1. ASSUME NEW x, NEW y, NEW z PROVE <<x>> \o <<y, z>> = <<x, y, z>>
        <3> DEFINE U == {x, y, z}
                   p == <<x>> \o <<y, z>>
                   q == <<x, y, z>>
        <3>1. p \in Seq(U) /\ Len(p) = 3 /\ p[1] = x /\ p[2] = y /\ p[3] = z
            <4>1. <<x>> \in Seq(U) /\ y \in U /\ z \in U /\ Len(<<x>>) = 1 /\ <<x>>[1] = x
                OBVIOUS
            <4> HIDE DEF U
            <4>2. PICK s1 : s1 = <<x>>
                OBVIOUS
            <4>3. /\ s1 \o <<y, z>> \in Seq(U)
                  /\ Len(s1 \o <<y, z>>) = 3
                  /\ (s1 \o <<y, z>>)[1] = x
                  /\ (s1 \o <<y, z>>)[2] = y
                  /\ (s1 \o <<y, z>>)[3] = z
                BY <4>1, <4>2, PairAppended
            <4>4. QED
                BY <4>2, <4>3
        <3>2. q \in Seq(U) /\ Len(q) = 3 /\ q[1] = x /\ q[2] = y /\ q[3] = z
            OBVIOUS
        <3> HIDE DEF p, q, U
        <3>3. \A i \in 1 .. Len(p) : p[i] = q[i]
            BY <3>1, <3>2
        <3>4. p = q
            BY <3>1, <3>2, <3>3, SeqEqual
        <3>5. QED
            BY <3>4 DEF p, q
    <2>2. s = <<PutBlob(image)>> \o <<PutRow(row), PutHistory(row, previous)>>
        BY DEF writeRow
    <2> HIDE DEF row, s
    <2>3. QED
        BY <2>1, <2>2
<1>3. IsSeq(s) /\ DOMAIN s = 1 .. 3
    <2> HIDE DEF row
    <2>1. IsSeq(<<PutBlob(image)>>) /\ IsSeq(writeRow(row, previous))
        BY ShortSequences DEF writeRow
    <2>2. IsSeq(s)
        BY <2>1, ConcatFacts
    <2>3. DOMAIN s = 1 .. 3
        BY <1>2
    <2>4. QED
        BY <2>2, <2>3
<1>4. /\ s[1].do = "blob" /\ s[1].image = image
      /\ s[2].do = "row" /\ s[2].row = row
      /\ s[3].do = "history" /\ s[3].row = row
    <2> HIDE DEF s, row
    <2>1. s[1] = PutBlob(image) /\ s[2] = PutRow(row) /\ s[3] = PutHistory(row, previous)
        BY <1>2
    <2>2. QED
        BY <2>1 DEF PutBlob, PutRow, PutHistory
<1> HIDE DEF s, row
<1>5. Fresh(n, s)
    <2>1. ASSUME NEW k \in 1 .. 3 PROVE FreshWrite(n, s, k)
        <3>1. k = 3 => 1 \in 1 .. k - 1
            OBVIOUS
        <3>2. k = 1 \/ k = 2 \/ k = 3
            OBVIOUS
        <3>3. QED
            BY <1>1, <1>4, <3>1, <3>2 DEF FreshWrite
    <2>2. QED
        BY <1>3, <2>1 DEF Fresh
<1>6. imageAndRow(image, previous) = s \o recordChangeSet
    BY DEF imageAndRow, s, row
<1>7. QED
    BY <1>5, <1>6, FreshConcat, FreshShort

(* The plan of the pairings is such a plan. *)
LEMMA FreshPairings ==
    ASSUME NEW n, NEW animal, IsAnimal(animal)
    PROVE  Fresh(n, writePairings(n, animal))
<1> DEFINE order == SetToSeq(animal.traits)
           s == writePairings(n, animal)
           m == Len(order)
<1>1. PairingPlan(n, animal, order, s)
    BY PairingsPlanned DEF IsAnimal
<1> HIDE DEF order, s
<1>2. m \in Nat /\ IsSeq(s) /\ DOMAIN s = 1 .. 2 * m
    BY <1>1, SeqFacts DEF PairingPlan
<1>3. ASSUME NEW j \in 1 .. m
      PROVE  IsRow(AnimalTraitRow(animal, order[j]))
             /\ blobReferencesOf(AnimalTraitRow(animal, order[j])) = {}
    <2>1. IsPairing(AnimalTraitRow(animal, order[j]))
        BY <1>1, RowsMade DEF PairingPlan
    <2>2. QED
        BY <2>1, RowTables DEF IsRow, IsPairing
<1>4. ASSUME NEW j \in 1 .. m
      PROVE  FreshWrite(n, s, 2 * j - 1) /\ FreshWrite(n, s, 2 * j)
    <2> DEFINE p == AnimalTraitRow(animal, order[j])
    <2>1. /\ s[2 * j - 1] = PutRow(p)
          /\ s[2 * j] = PutHistory(p, currentTimeIds(n, p.id))
        BY <1>1 DEF PairingPlan
    <2>2. IsRow(p) /\ blobReferencesOf(p) = {}
        BY <1>3
    <2> HIDE DEF p
    <2>3. QED
        BY <2>1, <2>2 DEF FreshWrite, PutRow, PutHistory
<1>5. ASSUME NEW k \in 1 .. 2 * m
      PROVE  \E j \in 1 .. m : k = 2 * j - 1 \/ k = 2 * j
    <2> DEFINE j == (k + 1) \div 2
    <2>1. j \in 1 .. m /\ (k = 2 * j - 1 \/ k = 2 * j)
        BY <1>2
    <2>2. QED
        BY <2>1
<1>6. QED
    BY <1>2, <1>4, <1>5 DEF Fresh, s

(* Whatever a call plans is fresh. *)
LEMMA FreshPlans ==
    ASSUME Stored, OwnKnown, OwnTimes, NEW n \in Nodes, NEW call \in Calls
    PROVE  Fresh(n, plan(n, call))
<1>1. Fresh(n, updateAnimalNow(n, call))
    <2>1. CASE updateAnimalNow(n, call) = <<>>
        BY <2>1, FreshShort
    <2>2. ASSUME NEW animal, IsAnimal(animal),
                 updateAnimalNow(n, call) = writeRow(animal, currentTimeIds(n, animal.id))
                                \o <<PutPairings(animal)>>
          PROVE  Fresh(n, updateAnimalNow(n, call))
        <3>1. IsRow(animal) /\ ~IsSpecies(animal)
            BY <2>2, RowTables DEF IsRow, IsAnimal
        <3>2. QED
            BY <2>2, <3>1, FreshShort, FreshConcat
    <2>3. QED
        BY <2>1, <2>2, AnimalPlanned
<1>2. Fresh(n, updateSpeciesImageNow(n, call))
    BY ImagePlanned, FreshShort, FreshImage
<1>3. Fresh(n, writeInvoiceNow(n))
    <2>1. CASE writeInvoiceNow(n) = <<>>
        BY <2>1, FreshShort
    <2>2. ASSUME NEW sequence \in Nat, NEW customer, NEW animal,
                 IsCustomer(customer), IsAnimal(animal),
                 writeInvoiceNow(n) =
                    writeRow(InvoiceRow(sequence, customer), {})
                    \o writeRow(InvoiceItemRow(InvoiceRow(sequence, customer), 1, animal), {})
                    \o recordChangeSet
          PROVE  Fresh(n, writeInvoiceNow(n))
        <3> DEFINE invoice == InvoiceRow(sequence, customer)
                   item == InvoiceItemRow(invoice, 1, animal)
        <3>1. IsInvoice(invoice) /\ IsInvoiceItem(item)
            BY <2>2, RowsMade
        <3> HIDE DEF invoice, item
        <3>2. IsRow(invoice) /\ IsRow(item) /\ ~IsSpecies(invoice) /\ ~IsSpecies(item)
            BY <3>1 DEF IsRow, IsInvoice, IsInvoiceItem, IsSpecies
        <3>3. Fresh(n, writeRow(invoice, {})) /\ Fresh(n, writeRow(item, {}))
            BY <3>2, FreshShort
        <3>4. Fresh(n, writeRow(invoice, {}) \o writeRow(item, {}))
            BY <3>3, FreshConcat
        <3>5. Fresh(n, (writeRow(invoice, {}) \o writeRow(item, {})) \o recordChangeSet)
            BY <3>4, FreshConcat, FreshShort
        <3>6. QED
            BY <2>2, <3>5 DEF invoice, item
    <2>3. QED
        BY <2>1, <2>2, InvoicePlanned
<1>4. call.op \in {"updateAnimal", "updateSpeciesImage", "issueInvoice"}
    BY StoreAssumption
<1>5. QED
    BY <1>1, <1>2, <1>3, <1>4 DEF plan

(* The elements of the sequences in a sequence. *)
Elements(ss) == UNION {Range(ss[k]) : k \in DOMAIN ss}

(* A sequence of sequences is one over the sequences of its elements. *)
LEMMA SequencesOfSequences ==
    ASSUME NEW ss, IsSeq(ss), \A k \in DOMAIN ss : IsSeq(ss[k])
    PROVE  ss \in Seq(Seq(Elements(ss)))
<1> DEFINE U == Elements(ss)
           W == Seq(U)
<1>1. ASSUME NEW k \in DOMAIN ss PROVE ss[k] \in W
    <2>1. Range(ss[k]) \subseteq U
        BY DEF Elements
    <2>2. ss[k] \in Seq(Range(ss[k]))
        BY DEF IsSeq
    <2> HIDE DEF U
    <2>3. QED
        BY <2>1, <2>2, SeqMonotonic
<1> HIDE DEF W
<1>2. Range(ss) \subseteq W
    BY <1>1 DEF Range
<1>3. ss \in Seq(W)
    BY <1>2, SeqMonotonic DEF IsSeq
<1>4. QED
    BY <1>3 DEF W

(* The writes of one part of the seed. *)
SeedEntity(k) == writeSeedEntity(seedPart[k], rowsBefore(k))

(* The plan of one entity of the seed, place by place. *)
LEMMA SeedEntities ==
    ASSUME NEW k \in DOMAIN seedPart
    PROVE  LET s == SeedEntity(k)
               m == Len(seedPart[k])
           IN  /\ m \in Nat
               /\ DOMAIN seedPart[k] = 1 .. m
               /\ IsSeq(s)
               /\ Len(s) = 2 * m + 2
               /\ \A i \in 1 .. m :
                    /\ s[2 * i - 1] = PutRow(SeedRow(k, i))
                    /\ s[2 * i] = PutSeedHistory(SeedRow(k, i), rowsBefore(k) + i)
               /\ s[2 * m + 1] = PutChangeSet
               /\ s[2 * m + 2] = PutHeld
<1> DEFINE m == Len(seedPart[k])
           a == [i \in 1 .. m |-> PutRow(SeedRow(k, i))]
           b == [i \in 1 .. m |-> PutSeedHistory(SeedRow(k, i), rowsBefore(k) + i)]
           f == FlattenSeq([i \in DOMAIN seedPart[k] |->
                    <<PutRow(seedPart[k][i]), PutSeedHistory(seedPart[k][i], rowsBefore(k) + i)>>])
<1>1. m \in Nat /\ DOMAIN seedPart[k] = 1 .. m
    BY SeedCases, SeqFacts
<1>2. f = FlattenSeq(Zipped(a, b, m))
    <2>1. [i \in DOMAIN seedPart[k] |->
            <<PutRow(seedPart[k][i]), PutSeedHistory(seedPart[k][i], rowsBefore(k) + i)>>]
            = Zipped(a, b, m)
        BY <1>1 DEF Zipped, SeedRow
    <2>2. QED
        BY <2>1
<1>3. DOMAIN a = 1 .. m /\ DOMAIN b = 1 .. m
    OBVIOUS
<1>4. /\ \A i \in 1 .. m : a[i] = PutRow(SeedRow(k, i))
      /\ \A i \in 1 .. m : b[i] = PutSeedHistory(SeedRow(k, i), rowsBefore(k) + i)
    OBVIOUS
<1>5. SeedEntity(k) = f \o recordChangeSet
    BY DEF SeedEntity, writeSeedEntity
<1> HIDE DEF a, b, f, m
<1>6. Paired(a, b, m, f)
    BY <1>1, <1>2, <1>3, PairsFlattened
<1>7. /\ IsSeq(recordChangeSet) /\ Len(recordChangeSet) = 2
      /\ recordChangeSet[1] = PutChangeSet /\ recordChangeSet[2] = PutHeld
    BY ShortSequences DEF recordChangeSet
<1>8. PICK s : s = SeedEntity(k)
    OBVIOUS
<1>9. Joined(f, recordChangeSet, 2 * m, 2, s)
    BY <1>5, <1>6, <1>7, <1>8, ConcatAt DEF Paired
<1>10. /\ IsSeq(s) /\ Len(s) = 2 * m + 2
       /\ \A i \in 1 .. 2 * m : s[i] = f[i]
       /\ s[1 + 2 * m] = PutChangeSet
       /\ s[2 + 2 * m] = PutHeld
    BY <1>7, <1>9 DEF Joined
<1>11. \A i \in 1 .. m : 2 * i - 1 \in 1 .. 2 * m /\ 2 * i \in 1 .. 2 * m
    BY <1>1
<1>12. \A i \in 1 .. m : /\ s[2 * i - 1] = PutRow(SeedRow(k, i))
                         /\ s[2 * i] = PutSeedHistory(SeedRow(k, i), rowsBefore(k) + i)
    BY <1>4, <1>6, <1>10, <1>11 DEF Paired
<1>13. 1 + 2 * m = 2 * m + 1 /\ 2 + 2 * m = 2 * m + 2
    BY <1>1
<1>14. QED
    BY <1>1, <1>8, <1>10, <1>12, <1>13 DEF m

(* The plan of one entity with the image of the species, and the plans of all. *)
SeedSegment(k) == SeedEntity(k) \o IF k = 1 THEN <<PutBlob(SeedImage)>> ELSE <<>>
SeedSegments == [k \in DOMAIN seedPart |-> SeedSegment(k)]

(* The plan of the seed is these one after the other. *)
LEMMA SeedPlan ==
    /\ writeSeedPart = FlattenSeq(SeedSegments)
    /\ IsSeq(SeedSegments)
    /\ DOMAIN SeedSegments = DOMAIN seedPart
    /\ DOMAIN seedPart = 1 .. Len(SeedSegments)
    /\ \A k \in DOMAIN seedPart : IsSeq(SeedSegment(k)) /\ SeedSegments[k] = SeedSegment(k)
<1>1. writeSeedPart = FlattenSeq(SeedSegments)
    BY DEF writeSeedPart, SeedSegments, SeedSegment, SeedEntity
<1>2. ASSUME NEW k \in DOMAIN seedPart PROVE IsSeq(SeedSegment(k))
    <2>1. IsSeq(SeedEntity(k))
        BY SeedEntities
    <2>2. IsSeq(<<PutBlob(SeedImage)>>) /\ IsSeq(<<>>)
        BY ShortSequences, EmptySeq DEF IsSeq
    <2>3. QED
        BY <2>1, <2>2, ConcatFacts DEF SeedSegment
<1>3. DOMAIN seedPart = 1 .. Len(seedPart) /\ Len(seedPart) \in Nat
    BY SeedParts, SeqFacts
<1>4. IsSeq(SeedSegments) /\ Len(SeedSegments) = Len(seedPart)
    <2>1. DOMAIN SeedSegments = 1 .. Len(seedPart)
        BY <1>3 DEF SeedSegments
    <2>2. SeedSegments = [i \in 1 .. Len(seedPart) |-> SeedSegments[i]]
        BY <1>3 DEF SeedSegments
    <2>3. QED
        BY <1>3, <2>1, <2>2, SequenceByIndex
<1>5. QED
    BY <1>1, <1>2, <1>3, <1>4 DEF SeedSegments

(* The plan of the seed is such a plan. *)
LEMMA FreshSeed ==
    ASSUME NEW n
    PROVE  Fresh(n, writeSeedPart)
<1>1. ASSUME NEW k \in DOMAIN seedPart PROVE Fresh(n, SeedEntity(k))
    <2> DEFINE s == SeedEntity(k)
               m == Len(seedPart[k])
    <2>1. /\ m \in Nat
          /\ DOMAIN seedPart[k] = 1 .. m
          /\ IsSeq(s)
          /\ Len(s) = 2 * m + 2
          /\ \A i \in 1 .. m :
                /\ s[2 * i - 1] = PutRow(SeedRow(k, i))
                /\ s[2 * i] = PutSeedHistory(SeedRow(k, i), rowsBefore(k) + i)
          /\ s[2 * m + 1] = PutChangeSet
          /\ s[2 * m + 2] = PutHeld
        BY SeedEntities
    <2> HIDE DEF s, m
    <2>2. ASSUME NEW i \in 1 .. m
          PROVE  FreshWrite(n, s, 2 * i - 1) /\ FreshWrite(n, s, 2 * i)
        <3>1. IsRow(SeedRow(k, i))
            BY <2>1, SeedPlaces
        <3>2. HistoryRow(seedTimeId(n, rowsBefore(k) + i), SeedRow(k, i), {}, "seed")
                = SeedVersion(k, i)
            BY DEF SeedVersion, seedTimeId
        <3>3. SeedVersion(k, i) \in SeedVersions
            BY <2>1, SeedContents DEF SeedVersions
        <3>4. FreshWrite(n, s, 2 * i - 1)
            <4>1. s[2 * i - 1] = PutRow(SeedRow(k, i))
                BY <2>1
            <4>2. s[2 * i - 1].do = "row" /\ s[2 * i - 1].row = SeedRow(k, i)
                BY <4>1 DEF PutRow
            <4>3. QED
                BY <3>1, <4>2 DEF FreshWrite
        <3>5. FreshWrite(n, s, 2 * i)
            <4>1. s[2 * i] = PutSeedHistory(SeedRow(k, i), rowsBefore(k) + i)
                BY <2>1
            <4>2. /\ s[2 * i].do = "seed"
                  /\ s[2 * i].row = SeedRow(k, i)
                  /\ s[2 * i].sequence = rowsBefore(k) + i
                BY <4>1 DEF PutSeedHistory
            <4>3. HistoryRow(seedTimeId(n, s[2 * i].sequence), s[2 * i].row, {}, "seed")
                    \in SeedVersions
                BY <3>2, <3>3, <4>2
            <4>4. QED
                BY <4>2, <4>3 DEF FreshWrite
        <3>6. QED
            BY <3>4, <3>5
    <2>3. FreshWrite(n, s, 2 * m + 1)
        BY <2>1 DEF FreshWrite, PutChangeSet
    <2>4. FreshWrite(n, s, 2 * m + 2)
        <3>1. 2 * m + 2 > 1 /\ 2 * m + 2 - 1 = 2 * m + 1
            BY <2>1
        <3>2. QED
            BY <2>1, <3>1 DEF FreshWrite, PutChangeSet, PutHeld
    <2>5. ASSUME NEW l \in 1 .. 2 * m + 2
          PROVE  l = 2 * m + 1 \/ l = 2 * m + 2 \/ \E i \in 1 .. m : l = 2 * i - 1 \/ l = 2 * i
        <3> DEFINE i == (l + 1) \div 2
        <3>1. l = 2 * m + 1 \/ l = 2 * m + 2 \/ (i \in 1 .. m /\ (l = 2 * i - 1 \/ l = 2 * i))
            BY <2>1
        <3>2. QED
            BY <3>1
    <2>6. ASSUME NEW l \in DOMAIN s PROVE FreshWrite(n, s, l)
        <3>1. l \in 1 .. 2 * m + 2
            BY <2>1, SeqFacts
        <3>2. QED
            BY <2>2, <2>3, <2>4, <2>5, <3>1
    <2>7. QED
        BY <2>1, <2>6 DEF Fresh, s
<1>2. ASSUME NEW k \in DOMAIN seedPart PROVE Fresh(n, SeedSegment(k))
    BY <1>1, FreshConcat, FreshShort DEF SeedSegment
<1> DEFINE ss == SeedSegments
           U == Elements(ss)
           P == {p \in Seq(U) : Fresh(n, p)}
<1>3. ss \in Seq(Seq(U))
    BY SeedPlan, SequencesOfSequences
<1> HIDE DEF U
<1>4. <<>> \in P
    BY EmptySeq, FreshShort
<1>5. ASSUME NEW k \in 1 .. Len(ss), NEW p \in P PROVE p \o ss[k] \in P
    <2>1. ss[k] \in Seq(U)
        BY <1>3, ElementOfSeq
    <2>2. k \in DOMAIN seedPart /\ ss[k] = SeedSegment(k)
        BY SeedPlan
    <2>3. Fresh(n, ss[k])
        BY <1>2, <2>2
    <2>4. Fresh(n, p \o ss[k])
        BY <2>3, FreshConcat
    <2>5. p \o ss[k] \in Seq(U)
        BY <2>1, ConcatProperties
    <2>6. QED
        BY <2>4, <2>5
<1>6. FlattenSeq(ss) \in P
    <2>1. P \in SUBSET Seq(U)
        OBVIOUS
    <2> HIDE DEF P, ss
    <2>2. QED
        BY <1>3, <1>4, <1>5, <2>1, FlattenStays
<1>7. QED
    BY <1>6, SeedPlan

(* What a job still has to write. *)
JobWrite(n, s, k, items) ==
    FreshWrite(n, s, k) \/ (k = 1 /\ s[k].do = "held" /\ items \in changeSets[n])

(* A call that waits for the ones before it. *)
Waiting(job) ==
    /\ job = [call |-> job.call, begun |-> FALSE, todo |-> <<>>, items |-> {}]
    /\ job.call \in Calls

(* A call that has begun and has writes left. *)
Running(n, job) ==
    /\ job = [call |-> job.call, begun |-> TRUE, todo |-> job.todo, items |-> job.items]
    /\ job.call \in Calls \cup {SeedCall}
    /\ job.items \subseteq rows[n] \cup history[n]
    /\ IsSeq(job.todo)
    /\ job.todo # <<>>
    /\ \A k \in DOMAIN job.todo : JobWrite(n, job.todo, k, job.items)

(* Only the first call of a chain has begun. *)
JobFits(n, i, job) == Waiting(job) \/ (i = 1 /\ Running(n, job))

(* A pull: the items of its change set are in the store from its beginning on, and its history *)
(* row is written after the change set.                                                        *)
PullFits(n, pull) ==
    /\ pull = [changeSet |-> pull.changeSet, walk |-> pull.walk, seen |-> pull.seen,
               pulled |-> pull.pulled, stage |-> pull.stage]
    /\ pull.changeSet \subseteq rows[n] \cup history[n]
    /\ pull.walk \subseteq pull.seen
    /\ pull.pulled \in 0 .. DependencyBound[n]
    /\ pull.stage = "held" => pull.changeSet \in changeSets[n]

(* A change set is recorded when its rows are in the store, and held when it is recorded. *)
Kept(n) ==
    /\ held[n] \subseteq changeSets[n]
    /\ \A changeSet \in changeSets[n] : changeSet \subseteq rows[n] \cup history[n]

(* The calls of a node. *)
Jobs(n) == IsSeq(chain[n]) /\ \A i \in DOMAIN chain[n] : JobFits(n, i, chain[n][i])

(* The pulls of a node. *)
Pulls(n) == \A pull \in pulls[n] : PullFits(n, pull)

(* The types of what is no table. *)
Counters ==
    /\ up \in [Nodes -> {"down", "seeding", "serving"}]
    /\ clock \in [Nodes -> Nat]
    /\ calls \in Nat
    /\ faults \in Nat
    /\ leftOut \subseteq Nodes

(* The inductive invariant of the stores. *)
StoreInv ==
    /\ Counters /\ Shape /\ Stored /\ OwnKnown /\ OwnTimes
    /\ \A n \in Nodes : Kept(n) /\ Jobs(n) /\ Pulls(n)

(* It has the types. *)
LEMMA StoreInvTypes == StoreInv => TypeOK
<1> SUFFICES ASSUME StoreInv PROVE TypeOK
    OBVIOUS
<1>1. ASSUME NEW n \in Nodes
      PROVE  /\ \A version \in history[n] : version.timeId.unique \in Nodes \cup {SeedUnique}
             /\ held[n] \subseteq changeSets[n]
             /\ \A i \in DOMAIN chain[n] : chain[n][i].call \in Calls \cup {SeedCall}
             /\ \A pull \in pulls[n] :
                  /\ pull.walk \subseteq pull.seen
                  /\ pull.pulled \in 0 .. DependencyBound[n]
    <2>1. \A version \in history[n] : version.timeId.unique \in Nodes \cup {SeedUnique}
        BY DEF StoreInv, Stored, IsVersion
    <2>2. held[n] \subseteq changeSets[n]
        BY DEF StoreInv, Kept
    <2>3. \A i \in DOMAIN chain[n] : chain[n][i].call \in Calls \cup {SeedCall}
        BY DEF StoreInv, Jobs, JobFits, Waiting, Running
    <2>4. \A pull \in pulls[n] : /\ pull.walk \subseteq pull.seen
                                 /\ pull.pulled \in 0 .. DependencyBound[n]
        BY DEF StoreInv, Pulls, PullFits
    <2>5. QED
        BY <2>1, <2>2, <2>3, <2>4
<1>2. QED
    BY <1>1 DEF TypeOK, StoreInv, Counters

(* A step of a node that leaves the others alone. *)
Elsewhere(n) ==
    \A m \in Nodes \ {n} :
        /\ rows'[m] = rows[m] /\ history'[m] = history[m]
        /\ changeSets'[m] = changeSets[m] /\ held'[m] = held[m]
        /\ blobs'[m] = blobs[m] /\ chain'[m] = chain[m] /\ pulls'[m] = pulls[m]

(* What a store has it keeps. *)
Grows(n) ==
    /\ rows[n] \subseteq rows'[n] /\ history[n] \subseteq history'[n]
    /\ changeSets[n] \subseteq changeSets'[n] /\ blobs[n] \subseteq blobs'[n]

(* A pull fits a store that has grown. *)
LEMMA PullStaysFit ==
    ASSUME NEW n, Grows(n), NEW pull, PullFits(n, pull)
    PROVE  PullFits(n, pull)'
BY DEF Grows, PullFits

(* A write of a plan does. *)
LEMMA WriteStaysFresh ==
    ASSUME NEW n, Grows(n), NEW s, NEW k, FreshWrite(n, s, k)
    PROVE  FreshWrite(n, s, k)'
BY DEF Grows, FreshWrite

(* A job does. *)
LEMMA JobStaysFit ==
    ASSUME NEW n, Grows(n), NEW i, NEW job, JobFits(n, i, job)
    PROVE  JobFits(n, i, job)'
<1>1. CASE Waiting(job)
    BY <1>1 DEF JobFits, Waiting
<1>2. CASE i = 1 /\ Running(n, job)
    <2>1. ASSUME NEW k \in DOMAIN job.todo PROVE JobWrite(n, job.todo, k, job.items)'
        <3>1. JobWrite(n, job.todo, k, job.items)
            BY <1>2 DEF Running
        <3>2. QED
            BY <3>1, WriteStaysFresh DEF JobWrite, Grows
    <2>2. job.items \subseteq rows'[n] \cup history'[n]
        BY <1>2 DEF Running, Grows
    <2>3. QED
        BY <1>2, <2>1, <2>2 DEF JobFits, Running
<1>3. QED
    BY <1>1, <1>2 DEF JobFits

(* The calls of a node do. *)
LEMMA ChainStaysFit ==
    ASSUME NEW n, Grows(n), Jobs(n), chain'[n] = chain[n]
    PROVE  Jobs(n)'
<1>1. \A i \in DOMAIN chain[n] : JobFits(n, i, chain[n][i])'
    BY JobStaysFit DEF Jobs
<1>2. QED
    BY <1>1 DEF Jobs, JobFits, Running, Waiting, JobWrite, FreshWrite

(* The pulls of a node do. *)
LEMMA PullsStayFit ==
    ASSUME NEW n, Grows(n), Pulls(n), pulls'[n] = pulls[n]
    PROVE  Pulls(n)'
<1>1. \A pull \in pulls[n] : PullFits(n, pull)'
    BY PullStaysFit DEF Pulls
<1>2. QED
    BY <1>1 DEF Pulls, PullFits

(* A node that a step leaves alone keeps what the invariant says of it. *)
LEMMA ElsewhereKept ==
    ASSUME NEW n \in Nodes, Elsewhere(n), NEW m \in Nodes, m # n,
           Kept(m), Jobs(m), Pulls(m)
    PROVE  Kept(m)' /\ Jobs(m)' /\ Pulls(m)'
<1>1. /\ rows'[m] = rows[m] /\ history'[m] = history[m]
      /\ changeSets'[m] = changeSets[m] /\ held'[m] = held[m]
      /\ blobs'[m] = blobs[m] /\ chain'[m] = chain[m] /\ pulls'[m] = pulls[m]
    BY DEF Elsewhere
<1>2. Grows(m)
    BY <1>1 DEF Grows
<1>3. Kept(m)'
    BY <1>1 DEF Kept
<1>4. QED
    BY <1>1, <1>2, <1>3, ChainStaysFit, PullsStayFit

(* The chain after the first job moved on. *)
Moved(n, s, job) ==
    /\ IsSeq(s)
    /\ \A i \in DOMAIN s : \/ Waiting(s[i])
                           \/ i = 1 /\ s[i] = job /\ (job.begun => job.todo # <<>>)

(* WithJob takes the first job on, or out when it is done. *)
LEMMA JobMoves ==
    ASSUME NEW n \in Nodes, Shape, Jobs(n), 1 \in DOMAIN chain[n], NEW job, WithJob(n, 1, job)
    PROVE  /\ Moved(n, chain'[n], job)
           /\ \A m \in Nodes \ {n} : chain'[m] = chain[m]
<1> DEFINE s == chain[n]
<1>1. IsSeq(s) /\ s # <<>> /\ \A i \in DOMAIN s : i # 1 => Waiting(s[i])
    <2>1. IsSeq(s)
        BY DEF Jobs
    <2>2. s # <<>>
        <3>1. DOMAIN s = 1 .. Len(s) /\ Len(s) \in Nat /\ (s = <<>> <=> Len(s) = 0)
            BY <2>1, SeqFacts
        <3> HIDE DEF s
        <3>2. 1 \in DOMAIN s
            BY DEF s
        <3>3. QED
            BY <3>1, <3>2
    <2>3. QED
        BY <2>1, <2>2 DEF Jobs, JobFits
<1>2. chain'[n] = IF job.begun /\ job.todo = <<>> THEN RemoveAt(s, 1) ELSE [s EXCEPT ![1] = job]
    BY DEF WithJob, Shape
<1>3. \A m \in Nodes \ {n} : chain'[m] = chain[m]
    BY DEF WithJob, Shape
<1> HIDE DEF s
<1>4. CASE job.begun /\ job.todo = <<>>
    <2>1. chain'[n] = Tail(s)
        BY <1>1, <1>2, <1>4, RemoveAtFirst
    <2>2. /\ IsSeq(Tail(s))
          /\ \A k \in DOMAIN Tail(s) :
                k \in Nat \ {0} /\ k + 1 \in DOMAIN s /\ Tail(s)[k] = s[k + 1]
        BY <1>1, TailFacts
    <2>3. ASSUME NEW k \in DOMAIN Tail(s) PROVE Waiting(Tail(s)[k])
        <3>1. k + 1 \in DOMAIN s /\ k + 1 # 1 /\ Tail(s)[k] = s[k + 1]
            BY <2>2
        <3>2. QED
            BY <1>1, <3>1
    <2>4. Moved(n, Tail(s), job)
        BY <2>2, <2>3 DEF Moved
    <2>5. QED
        BY <1>3, <2>1, <2>4
<1>5. CASE ~(job.begun /\ job.todo = <<>>)
    <2> DEFINE t == [s EXCEPT ![1] = job]
    <2>1. /\ IsSeq(t) /\ DOMAIN t = DOMAIN s
          /\ t[1] = job
          /\ \A k \in DOMAIN s : k # 1 => t[k] = s[k]
        BY <1>1, ReplaceFirst
    <2>2. chain'[n] = t
        BY <1>2, <1>5
    <2> HIDE DEF t
    <2>3. Moved(n, t, job)
        BY <1>1, <1>5, <2>1 DEF Moved
    <2>4. QED
        BY <1>3, <2>2, <2>3
<1>6. QED
    BY <1>4, <1>5

(* The job that does a write, and what is left of it. *)
LEMMA JobWriting ==
    ASSUME NEW n \in Nodes, Jobs(n), 1 \in DOMAIN chain[n], NEW kind, Writes(n, 1, kind)
    PROVE  /\ Running(n, chain[n][1])
           /\ IsSeq(chain[n][1].todo)
           /\ chain[n][1].todo # <<>>
           /\ 1 \in DOMAIN chain[n][1].todo
           /\ Head(chain[n][1].todo) = chain[n][1].todo[1]
           /\ chain[n][1].todo[1].do = kind
           /\ JobWrite(n, chain[n][1].todo, 1, chain[n][1].items)
<1>1. Running(n, chain[n][1])
    <2>1. PICK job : job = chain[n][1]
        OBVIOUS
    <2>2. Waiting(job) \/ Running(n, job)
        BY <2>1 DEF Jobs, JobFits
    <2>3. Waiting(job) => job.begun = FALSE
        BY DEF Waiting
    <2>4. job.begun
        BY <2>1 DEF Writes
    <2>5. Running(n, job)
        BY <2>2, <2>3, <2>4
    <2>6. QED
        BY <2>1, <2>5
<1>2. IsSeq(chain[n][1].todo) /\ chain[n][1].todo # <<>>
    BY <1>1 DEF Running
<1>3. 1 \in DOMAIN chain[n][1].todo /\ Head(chain[n][1].todo) = chain[n][1].todo[1]
    BY <1>2, TailFacts
<1>4. Head(chain[n][1].todo).do = kind
    BY DEF Writes
<1>5. JobWrite(n, chain[n][1].todo, 1, chain[n][1].items)
    BY <1>1, <1>3 DEF Running
<1>6. QED
    BY <1>1, <1>2, <1>3, <1>4, <1>5

(* What is left of a running job after its first write fits. *)
LEMMA RestFits ==
    ASSUME NEW n, Grows(n), NEW s, IsSeq(s), s # <<>>, NEW items, NEW more,
           \A k \in DOMAIN s : JobWrite(n, s, k, items),
           s[1].do = "blob" => s[1].image \in blobs'[n],
           s[1].do = "changeSet" => more \in changeSets'[n]
    PROVE  \A k \in DOMAIN Tail(s) :
                FreshWrite(n, Tail(s), k)'
                \/ (k = 1 /\ Tail(s)[k].do = "held" /\ more \in changeSets'[n])
<1> DEFINE t == Tail(s)
<1>1. \A k \in DOMAIN t : k \in Nat \ {0} /\ k + 1 \in DOMAIN s /\ t[k] = s[k + 1]
    BY TailFacts
<1>2. IsSeq(t) /\ DOMAIN t = 1 .. Len(t) /\ Len(t) \in Nat
    BY TailFacts, SeqFacts
<1> HIDE DEF t
<1> SUFFICES ASSUME NEW k \in DOMAIN t
             PROVE  FreshWrite(n, t, k)'
                    \/ (k = 1 /\ t[k].do = "held" /\ more \in changeSets'[n])
    BY DEF t
<1>3. k \in Nat \ {0} /\ k + 1 \in DOMAIN s /\ t[k] = s[k + 1] /\ k + 1 # 1
    BY <1>1
<1>4. FreshWrite(n, s, k + 1)
    BY <1>3 DEF JobWrite
<1>5. FreshWrite(n, s, k + 1)'
    BY <1>4, WriteStaysFresh
<1>6. \A j \in 1 .. k - 1 : t[j] = s[j + 1]
    BY <1>1, <1>2, <1>3
<1>7. CASE t[k].do = "history"
    <2>1. \/ blobReferencesOf(s[k + 1].row) \subseteq blobs'[n]
          \/ \E j \in 1 .. k : s[j].do = "blob" /\ blobReferencesOf(s[k + 1].row) = {s[j].image}
        <3>1. k + 1 - 1 = k
            BY <1>3
        <3>2. QED
            BY <1>3, <1>5, <1>7, <3>1 DEF FreshWrite
    <2>2. IsRow(t[k].row)
        BY <1>3, <1>5, <1>7 DEF FreshWrite
    <2>3. ASSUME NEW j \in 1 .. k, s[j].do = "blob", blobReferencesOf(s[k + 1].row) = {s[j].image}
          PROVE  \/ blobReferencesOf(t[k].row) \subseteq blobs'[n]
                 \/ \E l \in 1 .. k - 1 : t[l].do = "blob" /\ blobReferencesOf(t[k].row) = {t[l].image}
        <3>1. CASE j = 1
            BY <1>3, <2>3, <3>1
        <3>2. CASE j # 1
            <4>1. j - 1 \in 1 .. k - 1 /\ j - 1 + 1 = j
                BY <1>3, <3>2
            <4>2. t[j - 1] = s[j]
                BY <1>6, <4>1
            <4>3. QED
                BY <1>3, <2>3, <4>1, <4>2
        <3>3. QED
            BY <3>1, <3>2
    <2>4. QED
        BY <1>3, <1>7, <2>1, <2>2, <2>3 DEF FreshWrite
<1>8. CASE t[k].do = "held"
    <2>1. s[k].do = "changeSet"
        <3>1. k + 1 - 1 = k
            BY <1>3
        <3>2. QED
            BY <1>3, <1>5, <1>8, <3>1 DEF FreshWrite
    <2>2. CASE k = 1
        BY <1>8, <2>1, <2>2
    <2>3. CASE k # 1
        <3>1. k - 1 \in 1 .. k - 1 /\ k - 1 + 1 = k /\ k > 1
            BY <1>3, <2>3
        <3>2. t[k - 1] = s[k]
            BY <1>6, <3>1
        <3>3. QED
            BY <1>8, <2>1, <3>1, <3>2 DEF FreshWrite
    <2>4. QED
        BY <2>2, <2>3
<1>9. CASE t[k].do # "history" /\ t[k].do # "held"
    BY <1>3, <1>5, <1>9 DEF FreshWrite
<1>10. QED
    BY <1>7, <1>8, <1>9

(* The fields of a job. *)
JobRecord(call, begun, todo, items) ==
    [call |-> call, begun |-> begun, todo |-> todo, items |-> items]

(* A job of which several fields are replaced, one field at a time. *)
TodoSet(job, todo) == [job EXCEPT !.todo = todo]
TodoItemsSet(job, todo, items) == [job EXCEPT !.todo = todo, !.items = items]
BegunTodoSet(job, begun, todo) == [job EXCEPT !.begun = begun, !.todo = todo]

(* What these make of a job, field by field. *)
LEMMA JobWith ==
    ASSUME NEW job, NEW b, job = JobRecord(job.call, b, job.todo, job.items), NEW x, NEW y
    PROVE  /\ TodoSet(job, x) = JobRecord(job.call, b, x, job.items)
           /\ TodoItemsSet(job, x, y) = JobRecord(job.call, b, x, y)
           /\ BegunTodoSet(job, x, y) = JobRecord(job.call, x, y, job.items)
<1>1. ASSUME NEW c, NEW t, NEW i
      PROVE  /\ TodoSet(JobRecord(c, b, t, i), x) = JobRecord(c, b, x, i)
             /\ TodoItemsSet(JobRecord(c, b, t, i), x, y) = JobRecord(c, b, x, y)
             /\ BegunTodoSet(JobRecord(c, b, t, i), x, y) = JobRecord(c, x, y, i)
    <2>1. [JobRecord(c, b, t, i) EXCEPT !.todo = x] = JobRecord(c, b, x, i)
        BY DEF JobRecord
    <2>2. [JobRecord(c, b, x, i) EXCEPT !.items = y] = JobRecord(c, b, x, y)
        BY DEF JobRecord
    <2>3. [JobRecord(c, b, t, i) EXCEPT !.begun = x] = JobRecord(c, x, t, i)
        BY DEF JobRecord
    <2>4. [JobRecord(c, x, t, i) EXCEPT !.todo = y] = JobRecord(c, x, y, i)
        BY DEF JobRecord
    <2>5. QED
        BY <2>1, <2>2, <2>3, <2>4 DEF TodoSet, TodoItemsSet, BegunTodoSet
<1>2. PICK c, t, i : c = job.call /\ t = job.todo /\ i = job.items
    OBVIOUS
<1>3. job = JobRecord(c, b, t, i)
    BY <1>2
<1>4. QED
    BY <1>1, <1>2, <1>3

(* A job after its first write. *)
Rest(job, items) == JobRecord(job.call, TRUE, Tail(job.todo), items)

(* A write takes the running job on to the rest of its plan. *)
LEMMA WriteMoves ==
    ASSUME NEW n \in Nodes, Shape, Jobs(n), 1 \in DOMAIN chain[n], NEW kind, Writes(n, 1, kind),
           NEW items, Done(n, 1, items)
    PROVE  /\ Moved(n, chain'[n], Rest(chain[n][1], items))
           /\ \A m \in Nodes \ {n} : chain'[m] = chain[m]
<1>1. Running(n, chain[n][1])
    BY JobWriting
<1>2. PICK job : job = chain[n][1]
    OBVIOUS
<1>3. TodoItemsSet(job, Tail(job.todo), items) = Rest(job, items)
    <2>1. PICK b : b = TRUE
        OBVIOUS
    <2>2. job = JobRecord(job.call, b, job.todo, job.items)
        BY <1>1, <1>2, <2>1 DEF Running, JobRecord
    <2>3. TodoItemsSet(job, Tail(job.todo), items) = JobRecord(job.call, b, Tail(job.todo), items)
        BY <2>2, JobWith
    <2>4. QED
        BY <2>1, <2>3 DEF Rest
<1>4. WithJob(n, 1, Rest(job, items))
    <2>1. WithJob(n, 1, TodoItemsSet(chain[n][1], Tail(chain[n][1].todo), items))
        BY DEF Done, TodoItemsSet
    <2>2. QED
        BY <1>2, <1>3, <2>1
<1>5. /\ Moved(n, chain'[n], Rest(job, items))
      /\ \A m \in Nodes \ {n} : chain'[m] = chain[m]
    BY <1>4, JobMoves
<1>6. QED
    BY <1>2, <1>5

(* The chain with that job fits. *)
LEMMA MovedFits ==
    ASSUME NEW n, NEW job, Moved(n, chain'[n], job),
           job.begun => (job.todo # <<>> => Running(n, job)'),
           ~job.begun => Waiting(job)
    PROVE  Jobs(n)'
<1>1. IsSeq(chain'[n])
    BY DEF Moved
<1>2. ASSUME NEW i \in DOMAIN chain'[n] PROVE JobFits(n, i, chain[n][i])'
    <2>1. CASE Waiting(chain'[n][i])
        BY <2>1 DEF JobFits, Waiting
    <2>2. CASE i = 1 /\ chain'[n][i] = job /\ (job.begun => job.todo # <<>>)
        <3>1. CASE job.begun
            <4>1. Running(n, job)'
                BY <2>2, <3>1
            <4>2. JobFits(n, i, job)'
                BY <2>2, <4>1 DEF JobFits
            <4>3. QED
                BY <2>2, <4>2 DEF JobFits, Running, Waiting
        <3>2. CASE ~job.begun
            BY <2>2, <3>2 DEF JobFits, Waiting
        <3>3. QED
            BY <3>1, <3>2
    <2>3. QED
        BY <2>1, <2>2 DEF Moved
<1>3. IsSeq(chain[n])'
    BY <1>1 DEF IsSeq
<1>4. QED
    BY <1>2, <1>3 DEF Jobs

(* So does the chain of the node after a write of it. *)
LEMMA WriteDone ==
    ASSUME NEW n \in Nodes, Shape, Jobs(n), 1 \in DOMAIN chain[n], NEW kind, Writes(n, 1, kind),
           NEW items, Done(n, 1, items), Grows(n), items \subseteq rows'[n] \cup history'[n],
           kind = "blob" => Head(chain[n][1].todo).image \in blobs'[n],
           kind = "changeSet" => items \in changeSets'[n]
    PROVE  /\ Jobs(n)'
           /\ \A m \in Nodes \ {n} : chain'[m] = chain[m]
<1>1. /\ Moved(n, chain'[n], Rest(chain[n][1], items))
      /\ \A m \in Nodes \ {n} : chain'[m] = chain[m]
    BY WriteMoves
<1>2. PICK job : job = chain[n][1]
    OBVIOUS
<1>3. /\ Running(n, job)
      /\ IsSeq(job.todo) /\ job.todo # <<>>
      /\ Head(job.todo) = job.todo[1] /\ job.todo[1].do = kind
    BY <1>2, JobWriting
<1> DEFINE new == Rest(job, items)
<1>4. ASSUME new.todo # <<>> PROVE Running(n, new)'
    <2>1. new = [call |-> new.call, begun |-> TRUE, todo |-> new.todo, items |-> new.items]
          /\ new.call = job.call /\ new.todo = Tail(job.todo) /\ new.items = items
        BY DEF Rest, JobRecord
    <2>2. IsSeq(Tail(job.todo))
        BY <1>3, TailFacts
    <2>3. \A k \in DOMAIN Tail(job.todo) :
                FreshWrite(n, Tail(job.todo), k)'
                \/ (k = 1 /\ Tail(job.todo)[k].do = "held" /\ items \in changeSets'[n])
        <3>1. PICK s, old : s = job.todo /\ old = job.items
            OBVIOUS
        <3>2. \A k \in DOMAIN s : JobWrite(n, s, k, old)
            BY <1>3, <3>1 DEF Running
        <3>3. /\ s[1].do = "blob" => s[1].image \in blobs'[n]
              /\ s[1].do = "changeSet" => items \in changeSets'[n]
            BY <1>2, <1>3, <3>1
        <3>4. IsSeq(s) /\ s # <<>>
            BY <1>3, <3>1
        <3>5. \A k \in DOMAIN Tail(s) :
                FreshWrite(n, Tail(s), k)'
                \/ (k = 1 /\ Tail(s)[k].do = "held" /\ items \in changeSets'[n])
            BY <3>2, <3>3, <3>4, RestFits
        <3>6. QED
            BY <3>1, <3>5
    <2>4. job.call \in Calls \cup {SeedCall}
        BY <1>3 DEF Running
    <2> HIDE DEF new
    <2>5. QED
        BY <1>4, <2>1, <2>2, <2>3, <2>4 DEF Running, JobWrite
<1>5. new.begun
    BY DEF Rest, JobRecord
<1> HIDE DEF new
<1>6. Jobs(n)'
    <2>1. Moved(n, chain'[n], new)
        BY <1>1, <1>2 DEF new
    <2>2. QED
        BY <1>4, <1>5, <2>1, MovedFits
<1>7. QED
    BY <1>1, <1>6

-----------------------------------------------------------------------------
(* What a step may add to a store without writing a version of its own. *)
Copies(n, R, H) ==
    /\ IsFiniteSet(R) /\ IsFiniteSet(H)
    /\ \A row \in R : IsRow(row)
    /\ \A v \in H : /\ IsVersion(v)
                    /\ v.timeId.unique # SeedUnique => v \in history[v.timeId.unique]

(* A step that adds such rows and versions to the store of a node. *)
Adds(n, R, H) ==
    /\ Shape'
    /\ \A m \in Nodes : /\ rows'[m] = IF m = n THEN rows[m] \cup R ELSE rows[m]
                        /\ history'[m] = IF m = n THEN history[m] \cup H ELSE history[m]

(* A store that only grows by rows and by versions of others keeps the invariant. *)
LEMMA CopiesKept ==
    ASSUME Stored, OwnKnown, OwnTimes, NEW n \in Nodes, NEW R, NEW H,
           Copies(n, R, H), Adds(n, R, H), UNCHANGED clock
    PROVE  Stored' /\ OwnKnown' /\ OwnTimes'
<1>1. ASSUME NEW m \in Nodes
      PROVE  /\ IsFiniteSet(rows'[m]) /\ IsFiniteSet(history'[m])
             /\ \A row \in rows'[m] : IsRow(row)
             /\ \A v \in history'[m] :
                    IsVersion(v) /\ (v.timeId.unique # SeedUnique => v \in history[v.timeId.unique])
    <2>1. /\ IsFiniteSet(rows[m]) /\ IsFiniteSet(history[m])
          /\ \A row \in rows[m] : IsRow(row)
          /\ \A v \in history[m] :
                    IsVersion(v) /\ (v.timeId.unique # SeedUnique => v \in history[v.timeId.unique])
        BY DEF Stored, OwnKnown
    <2>2. IsFiniteSet(rows[m] \cup R) /\ IsFiniteSet(history[m] \cup H)
        BY <2>1, FS_Union DEF Copies
    <2>3. QED
        BY <2>1, <2>2 DEF Adds, Copies
<1>2. Stored'
    BY <1>1 DEF Stored, IsVersion
<1>3. ASSUME NEW m \in Nodes, NEW v \in history'[m], v.timeId.unique # SeedUnique
      PROVE  v \in history'[v.timeId.unique] /\ v \in history[v.timeId.unique]
    <2>1. v \in history[v.timeId.unique] /\ v.timeId.unique \in Nodes
        BY <1>1, <1>3 DEF IsVersion
    <2>2. QED
        BY <2>1 DEF Adds
<1>4. OwnKnown'
    BY <1>3 DEF OwnKnown
<1>5. ASSUME NEW m \in Nodes, NEW v \in OwnVersions(m)' PROVE v \in OwnVersions(m)
    <2>1. v \in history'[m] /\ v.timeId.unique = m
        BY DEF OwnVersions
    <2>2. m # SeedUnique
        BY SeedIsNoNode
    <2>3. QED
        BY <1>3, <2>1, <2>2 DEF OwnVersions
<1>6. OwnTimes'
    BY <1>5 DEF OwnTimes
<1>7. QED
    BY <1>2, <1>4, <1>6

(* The invariant from its parts: the node that steps and the ones it leaves alone. *)
LEMMA Assembled ==
    ASSUME StoreInv, NEW n \in Nodes, Elsewhere(n), Kept(n)', Jobs(n)', Pulls(n)',
           Counters', Shape', Stored', OwnKnown', OwnTimes'
    PROVE  StoreInv'
<1>1. ASSUME NEW m \in Nodes PROVE Kept(m)' /\ Jobs(m)' /\ Pulls(m)'
    <2>1. CASE m = n
        BY <2>1
    <2>2. CASE m # n
        BY <2>2, ElsewhereKept DEF StoreInv
    <2>3. QED
        BY <2>1, <2>2
<1>2. QED
    BY <1>1 DEF StoreInv

(* A step that writes no row adds none. *)
LEMMA StoresSame ==
    ASSUME Stored, OwnKnown, OwnTimes, rows' = rows, history' = history, clock' = clock
    PROVE  Stored' /\ OwnKnown' /\ OwnTimes'
BY DEF Stored, OwnKnown, OwnTimes, OwnVersions, IsVersion

(* To add nothing is to add such rows and versions. *)
LEMMA NothingAdded ==
    ASSUME NEW n
    PROVE  Copies(n, {}, {})
BY FS_EmptySet DEF Copies

(* So is to add one row. *)
LEMMA OneRowAdded ==
    ASSUME NEW n, NEW row, IsRow(row)
    PROVE  Copies(n, {row}, {})
BY FS_EmptySet, FS_Singleton DEF Copies

(* So is to add one version that the node that wrote it has. *)
LEMMA OneVersionAdded ==
    ASSUME NEW n, NEW v, IsVersion(v),
           v.timeId.unique # SeedUnique => v \in history[v.timeId.unique]
    PROVE  Copies(n, {}, {v})
BY FS_EmptySet, FS_Singleton DEF Copies

(* A history row of the seed is a version. *)
LEMMA SeedVersionsAreVersions ==
    ASSUME NEW v \in SeedVersions
    PROVE  IsVersion(v) /\ v.timeId.unique = SeedUnique
BY SeedVersionsFit DEF IsVersion

(* The write of a row (Db.insert) keeps the invariant. *)
LEMMA WriteRowKeeps ==
    ASSUME StoreInv, NEW n \in Nodes, NEW i \in DOMAIN chain[n], WriteRow(n, i)
    PROVE  StoreInv'
<1>1. i = 1 /\ Writes(n, 1, "row")
    BY DEF WriteRow, Writes, pendingWrite
<1>2. PICK row : row = Head(chain[n][1].todo).row
    OBVIOUS
<1>3. IsRow(row)
    BY <1>1, <1>2, JobWriting DEF StoreInv, JobWrite, FreshWrite
<1>4. PICK items : items = chain[n][1].items \cup {row}
    OBVIOUS
<1>5. Done(n, 1, items)
    BY <1>1, <1>2, <1>4 DEF WriteRow
<1>6. /\ rows' = [rows EXCEPT ![n] = @ \cup {row}]
      /\ UNCHANGED <<history, changeSets, held, blobs, up, pulls, clock, calls, faults, leftOut>>
    BY <1>1, <1>2 DEF WriteRow
<1>7. Grows(n) /\ rows'[n] = rows[n] \cup {row} /\ history'[n] = history[n]
    BY <1>6 DEF Grows, StoreInv, Shape
<1>8. items \subseteq rows'[n] \cup history'[n]
    <2>1. chain[n][1].items \subseteq rows[n] \cup history[n]
        BY <1>1, JobWriting DEF StoreInv, Running
    <2>2. QED
        BY <1>4, <1>7, <2>1
<1>9. Jobs(n)' /\ \A m \in Nodes \ {n} : chain'[m] = chain[m]
    BY <1>1, <1>5, <1>7, <1>8, WriteDone DEF StoreInv
<1>10. Shape'
    BY <1>5, <1>6 DEF StoreInv, Shape, Done, WithJob
<1>11. Adds(n, {row}, {})
    BY <1>6, <1>10 DEF Adds, StoreInv, Shape
<1>12. Stored' /\ OwnKnown' /\ OwnTimes'
    BY <1>3, <1>6, <1>11, OneRowAdded, CopiesKept DEF StoreInv
<1>13. Kept(n)'
    BY <1>6, <1>7 DEF StoreInv, Kept
<1>14. Pulls(n)'
    BY <1>6, <1>7, PullsStayFit DEF StoreInv
<1>15. Elsewhere(n)
    BY <1>6, <1>9 DEF Elsewhere, StoreInv, Shape
<1>16. Counters'
    BY <1>6 DEF StoreInv, Counters
<1>17. QED
    BY <1>9, <1>10, <1>12, <1>13, <1>14, <1>15, <1>16, Assembled

(* So does the write of a history row of the seed. *)
LEMMA WriteSeedHistoryKeeps ==
    ASSUME StoreInv, NEW n \in Nodes, NEW i \in DOMAIN chain[n], WriteSeedHistory(n, i)
    PROVE  StoreInv'
<1>1. i = 1 /\ Writes(n, 1, "seed")
    BY DEF WriteSeedHistory, Writes, pendingWrite
<1>2. PICK write : write = Head(chain[n][1].todo)
    OBVIOUS
<1>3. PICK version : version = HistoryRow(seedTimeId(n, write.sequence), write.row, {}, "seed")
    OBVIOUS
<1>4. IsVersion(version) /\ version.timeId.unique = SeedUnique
    <2>1. version \in SeedVersions
        BY <1>1, <1>2, <1>3, JobWriting DEF StoreInv, JobWrite, FreshWrite
    <2>2. QED
        BY <2>1, SeedVersionsAreVersions
<1>5. PICK items : items = chain[n][1].items \cup {version}
    OBVIOUS
<1>6. AddHistory(n, 1, version) /\ UNCHANGED clock
    BY <1>1, <1>2, <1>3 DEF WriteSeedHistory
<1>7. /\ Done(n, 1, items)
      /\ history' = [history EXCEPT ![n] = @ \cup {version}]
      /\ UNCHANGED <<rows, changeSets, held, blobs, up, pulls, calls, faults, leftOut>>
    BY <1>5, <1>6 DEF AddHistory
<1>8. Grows(n) /\ rows'[n] = rows[n] /\ history'[n] = history[n] \cup {version}
    BY <1>7 DEF Grows, StoreInv, Shape
<1>9. items \subseteq rows'[n] \cup history'[n]
    <2>1. chain[n][1].items \subseteq rows[n] \cup history[n]
        BY <1>1, JobWriting DEF StoreInv, Running
    <2>2. QED
        BY <1>5, <1>8, <2>1
<1>10. Jobs(n)' /\ \A m \in Nodes \ {n} : chain'[m] = chain[m]
    BY <1>1, <1>7, <1>8, <1>9, WriteDone DEF StoreInv
<1>11. Shape'
    BY <1>6, <1>7 DEF StoreInv, Shape, Done, WithJob
<1>12. Adds(n, {}, {version})
    BY <1>7, <1>11 DEF Adds, StoreInv, Shape
<1>13. Stored' /\ OwnKnown' /\ OwnTimes'
    BY <1>4, <1>6, <1>12, OneVersionAdded, CopiesKept DEF StoreInv
<1>14. Kept(n)'
    BY <1>7, <1>8 DEF StoreInv, Kept
<1>15. Pulls(n)'
    BY <1>7, <1>8, PullsStayFit DEF StoreInv
<1>16. Elsewhere(n)
    BY <1>7, <1>10 DEF Elsewhere, StoreInv, Shape
<1>17. Counters'
    BY <1>6, <1>7 DEF StoreInv, Counters
<1>18. QED
    BY <1>10, <1>11, <1>13, <1>14, <1>15, <1>16, <1>17, Assembled

(* So does the write of a blob. *)
LEMMA StoreImageKeeps ==
    ASSUME StoreInv, NEW n \in Nodes, NEW i \in DOMAIN chain[n], StoreImage(n, i)
    PROVE  StoreInv'
<1>1. i = 1 /\ Writes(n, 1, "blob")
    BY DEF StoreImage, Writes, pendingWrite
<1>2. PICK before, items : before = chain[n][1].items /\ items = before
    OBVIOUS
<1>3. /\ Done(n, 1, items)
      /\ blobs' = [blobs EXCEPT ![n] = @ \cup {Head(chain[n][1].todo).image}]
      /\ UNCHANGED <<rows, history, changeSets, held, up, pulls, clock, calls, faults, leftOut>>
    BY <1>1, <1>2 DEF StoreImage, tables
<1>4. blobs'[n] = blobs[n] \cup {Head(chain[n][1].todo).image}
    BY <1>3 DEF StoreInv, Shape
<1>5. Grows(n)
    BY <1>3, <1>4 DEF Grows
<1>6. before \subseteq rows'[n] \cup history'[n]
    BY <1>1, <1>2, <1>3, JobWriting DEF StoreInv, Running
<1>7. Jobs(n)' /\ \A m \in Nodes \ {n} : chain'[m] = chain[m]
    BY <1>1, <1>2, <1>3, <1>4, <1>5, <1>6, WriteDone DEF StoreInv
<1>8. Shape'
    BY <1>3 DEF StoreInv, Shape, Done, WithJob
<1>9. Stored' /\ OwnKnown' /\ OwnTimes'
    BY <1>3, StoresSame DEF StoreInv
<1>10. Kept(n)'
    BY <1>3 DEF StoreInv, Kept
<1>11. Pulls(n)'
    BY <1>3, <1>5, PullsStayFit DEF StoreInv
<1>12. Elsewhere(n)
    BY <1>3, <1>7 DEF Elsewhere, StoreInv, Shape
<1>13. Counters'
    BY <1>3 DEF StoreInv, Counters
<1>14. QED
    BY <1>7, <1>8, <1>9, <1>10, <1>11, <1>12, <1>13, Assembled

(* So does the write of a change set. *)
LEMMA WriteChangeSetKeeps ==
    ASSUME StoreInv, NEW n \in Nodes, NEW i \in DOMAIN chain[n], WriteChangeSet(n, i)
    PROVE  StoreInv'
<1>1. i = 1 /\ Writes(n, 1, "changeSet")
    BY DEF WriteChangeSet, Writes, pendingWrite
<1>2. PICK before, items : before = chain[n][1].items /\ items = before
    OBVIOUS
<1>3. /\ Done(n, 1, items)
      /\ changeSets' = [changeSets EXCEPT ![n] = @ \cup {before}]
      /\ UNCHANGED <<rows, history, held, blobs, up, pulls, clock, calls, faults, leftOut>>
    BY <1>1, <1>2 DEF WriteChangeSet, tables
<1>4. changeSets'[n] = changeSets[n] \cup {before}
    BY <1>3 DEF StoreInv, Shape
<1>5. Grows(n)
    BY <1>3, <1>4 DEF Grows
<1>6. before \subseteq rows'[n] \cup history'[n]
    BY <1>1, <1>2, <1>3, JobWriting DEF StoreInv, Running
<1>7. Jobs(n)' /\ \A m \in Nodes \ {n} : chain'[m] = chain[m]
    BY <1>1, <1>2, <1>3, <1>4, <1>5, <1>6, WriteDone DEF StoreInv
<1>8. Shape'
    BY <1>3 DEF StoreInv, Shape, Done, WithJob
<1>9. Stored' /\ OwnKnown' /\ OwnTimes'
    BY <1>3, StoresSame DEF StoreInv
<1>10. Kept(n)'
    BY <1>3, <1>4, <1>6 DEF StoreInv, Kept
<1>11. Pulls(n)'
    BY <1>3, <1>5, PullsStayFit DEF StoreInv
<1>12. Elsewhere(n)
    BY <1>3, <1>7 DEF Elsewhere, StoreInv, Shape
<1>13. Counters'
    BY <1>3 DEF StoreInv, Counters
<1>14. QED
    BY <1>7, <1>8, <1>9, <1>10, <1>11, <1>12, <1>13, Assembled

(* So does the write of its history row. *)
LEMMA RecordChangeSetKeeps ==
    ASSUME StoreInv, NEW n \in Nodes, NEW i \in DOMAIN chain[n], RecordChangeSet(n, i)
    PROVE  StoreInv'
<1>1. i = 1 /\ Writes(n, 1, "held")
    BY DEF RecordChangeSet, Writes, pendingWrite
<1>2. PICK before, items : before = chain[n][1].items /\ items = {}
    OBVIOUS
<1>3. /\ Done(n, 1, items)
      /\ held' = [held EXCEPT ![n] = @ \cup {before}]
      /\ UNCHANGED <<rows, history, changeSets, blobs, up, pulls, clock, calls, faults, leftOut>>
    BY <1>1, <1>2 DEF RecordChangeSet, tables
<1>4. held'[n] = held[n] \cup {before}
    BY <1>3 DEF StoreInv, Shape
<1>5. Grows(n)
    BY <1>3, <1>4 DEF Grows
<1>6. before \subseteq rows'[n] \cup history'[n]
    BY <1>1, <1>2, <1>3, JobWriting DEF StoreInv, Running
<1>7. Jobs(n)' /\ \A m \in Nodes \ {n} : chain'[m] = chain[m]
    BY <1>1, <1>2, <1>3, <1>4, <1>5, <1>6, WriteDone DEF StoreInv
<1>8. Shape'
    BY <1>3 DEF StoreInv, Shape, Done, WithJob
<1>9. Stored' /\ OwnKnown' /\ OwnTimes'
    BY <1>3, StoresSame DEF StoreInv
<1>10. Kept(n)'
    <2>1. before \in changeSets[n]
        BY <1>1, <1>2, JobWriting DEF StoreInv, JobWrite, FreshWrite
    <2>2. QED
        BY <1>3, <1>4, <2>1 DEF StoreInv, Kept
<1>11. Pulls(n)'
    BY <1>3, <1>5, PullsStayFit DEF StoreInv
<1>12. Elsewhere(n)
    BY <1>3, <1>7 DEF Elsewhere, StoreInv, Shape
<1>13. Counters'
    BY <1>3 DEF StoreInv, Counters
<1>14. QED
    BY <1>7, <1>8, <1>9, <1>10, <1>11, <1>12, <1>13, Assembled

(* A version a node writes now, later than all it has written. *)
OwnVersion(n, v) ==
    /\ v = HistoryRow(v.timeId, v.row, v.previous, v.origin)
    /\ v.timeId = timeId(n)
    /\ v.origin = "api"
    /\ IsRow(v.row)

(* The timeId of the next version of a node is later than its others. *)
LEMMA NextTime ==
    ASSUME Counters, OwnTimes, NEW n \in Nodes
    PROVE  /\ timeId(n) = [ms |-> timeId(n).ms, unique |-> n]
           /\ timeId(n).ms = SeedLength + clock[n] + 1
           /\ timeId(n).ms \in Nat
           /\ timeId(n).unique = n
           /\ \A v \in OwnVersions(n) : v.timeId # timeId(n)
<1>1. SeedLength \in Nat /\ clock[n] \in Nat
    BY SeedLengthIsNumber DEF Counters
<1>2. /\ timeId(n) = [ms |-> timeId(n).ms, unique |-> n]
      /\ timeId(n).ms = SeedLength + clock[n] + 1
      /\ timeId(n).unique = n
    BY DEF timeId
<1>3. ASSUME NEW v \in OwnVersions(n), v.timeId = timeId(n) PROVE FALSE
    <2>1. v.timeId.ms <= SeedLength + clock[n]
        BY DEF OwnTimes
    <2>2. v.timeId.ms = SeedLength + clock[n] + 1
        BY <1>2, <1>3
    <2>3. QED
        BY <1>1, <2>1, <2>2
<1>4. QED
    BY <1>1, <1>2, <1>3

(* A store with such a version keeps what the invariant says of versions. *)
LEMMA OwnVersionAdded ==
    ASSUME Counters, Stored, OwnKnown, OwnTimes, NEW n \in Nodes, NEW v, OwnVersion(n, v),
           Adds(n, {}, {v}), clock' = [clock EXCEPT ![n] = @ + 1]
    PROVE  Stored' /\ OwnKnown' /\ OwnTimes'
<1>1. /\ IsVersion(v) /\ v.timeId.unique = n /\ v.timeId.ms = SeedLength + clock[n] + 1
      /\ n # SeedUnique
    BY NextTime, SeedIsNoNode DEF OwnVersion, IsVersion
<1>2. \A m \in Nodes : /\ rows'[m] = rows[m]
                       /\ history'[m] = IF m = n THEN history[m] \cup {v} ELSE history[m]
                       /\ clock'[m] = IF m = n THEN clock[m] + 1 ELSE clock[m]
    BY DEF Adds, Counters
<1>3. Stored'
    <2>1. ASSUME NEW m \in Nodes
          PROVE  /\ IsFiniteSet(rows'[m]) /\ IsFiniteSet(history'[m])
                 /\ \A row \in rows'[m] : IsRow(row)
                 /\ \A w \in history'[m] : IsVersion(w)
        <3>1. IsFiniteSet(history[m] \cup {v}) /\ IsFiniteSet(history[m]) /\ IsFiniteSet(rows[m])
            BY FS_AddElement DEF Stored
        <3>2. \A row \in rows[m] : IsRow(row)
            BY DEF Stored
        <3>3. \A w \in history[m] \cup {v} : IsVersion(w)
            BY <1>1 DEF Stored
        <3>4. rows'[m] = rows[m] /\ (history'[m] = history[m] \/ history'[m] = history[m] \cup {v})
            BY <1>2
        <3>5. QED
            BY <3>1, <3>2, <3>3, <3>4
    <2>2. QED
        BY <2>1 DEF Stored, IsVersion
<1>4. OwnKnown'
    <2>1. ASSUME NEW m \in Nodes, NEW w \in history'[m], w.timeId.unique # SeedUnique
          PROVE  w \in history'[w.timeId.unique]
        <3>1. CASE w = v
            BY <1>1, <1>2, <3>1
        <3>2. CASE w # v
            <4>1. w \in history[m]
                BY <1>2, <3>2
            <4>2. w \in history[w.timeId.unique] /\ w.timeId.unique \in Nodes
                BY <2>1, <4>1 DEF OwnKnown, Stored, IsVersion
            <4>3. QED
                BY <1>2, <4>2
        <3>3. QED
            BY <3>1, <3>2
    <2>2. QED
        BY <2>1 DEF OwnKnown
<1>5. ASSUME NEW m \in Nodes, NEW w \in OwnVersions(m)'
      PROVE  w \in OwnVersions(m) \/ (m = n /\ w = v)
    <2>1. w \in history'[m] /\ w.timeId.unique = m
        BY DEF OwnVersions
    <2>2. w \in history[m] \/ (m = n /\ w = v)
        BY <1>2, <2>1
    <2>3. QED
        BY <2>1, <2>2 DEF OwnVersions
<1>6. OwnTimes'
    <2>1. ASSUME NEW m \in Nodes, NEW w \in OwnVersions(m)'
          PROVE  w.timeId.ms <= SeedLength + clock'[m]
        <3>1. SeedLength \in Nat /\ clock[m] \in Nat
            BY SeedLengthIsNumber DEF Counters
        <3>2. CASE w \in OwnVersions(m)
            <4>1. w.timeId.ms <= SeedLength + clock[m] /\ w.timeId.ms \in Nat
                BY <3>2 DEF OwnTimes, OwnVersions, Stored, IsVersion
            <4>2. clock'[m] = clock[m] \/ clock'[m] = clock[m] + 1
                BY <1>2
            <4>3. QED
                BY <3>1, <4>1, <4>2
        <3>3. CASE m = n /\ w = v
            <4>1. clock'[m] = clock[m] + 1
                BY <1>2, <3>3
            <4>2. QED
                BY <1>1, <3>1, <3>3, <4>1
        <3>4. QED
            BY <1>5, <3>2, <3>3
    <2>2. ASSUME NEW m \in Nodes, NEW w \in OwnVersions(m)', NEW x \in OwnVersions(m)',
                 w.timeId = x.timeId
          PROVE  w = x
        <3>1. \A y \in OwnVersions(n) : y.timeId # v.timeId
            BY NextTime DEF OwnVersion
        <3>2. QED
            BY <1>5, <2>2, <3>1 DEF OwnTimes
    <2>3. SeedLength' = SeedLength
        OBVIOUS
    <2>4. QED
        BY <2>1, <2>2 DEF OwnTimes
<1>7. QED
    BY <1>3, <1>4, <1>6

(* The write of a history row by the API keeps the invariant. *)
LEMMA WriteHistoryKeeps ==
    ASSUME StoreInv, NEW n \in Nodes, NEW i \in DOMAIN chain[n], WriteHistory(n, i)
    PROVE  StoreInv'
<1>1. i = 1 /\ Writes(n, 1, "history")
    BY DEF WriteHistory, Writes, pendingWrite
<1>2. PICK write : write = Head(chain[n][1].todo)
    OBVIOUS
<1>3. PICK version : version = HistoryRow(timeId(n), write.row, write.previous, "api")
    OBVIOUS
<1>4. OwnVersion(n, version)
    <2>1. IsRow(write.row)
        BY <1>1, <1>2, JobWriting DEF StoreInv, JobWrite, FreshWrite
    <2>2. QED
        BY <1>3, <2>1 DEF OwnVersion, HistoryRow
<1>5. PICK items : items = chain[n][1].items \cup {version}
    OBVIOUS
<1>6. AddHistory(n, 1, version) /\ clock' = [clock EXCEPT ![n] = @ + 1]
    BY <1>1, <1>2, <1>3 DEF WriteHistory
<1>7. /\ Done(n, 1, items)
      /\ history' = [history EXCEPT ![n] = @ \cup {version}]
      /\ UNCHANGED <<rows, changeSets, held, blobs, up, pulls, calls, faults, leftOut>>
    BY <1>5, <1>6 DEF AddHistory
<1>8. Grows(n) /\ rows'[n] = rows[n] /\ history'[n] = history[n] \cup {version}
    BY <1>7 DEF Grows, StoreInv, Shape
<1>9. items \subseteq rows'[n] \cup history'[n]
    <2>1. chain[n][1].items \subseteq rows[n] \cup history[n]
        BY <1>1, JobWriting DEF StoreInv, Running
    <2>2. QED
        BY <1>5, <1>8, <2>1
<1>10. Jobs(n)' /\ \A m \in Nodes \ {n} : chain'[m] = chain[m]
    BY <1>1, <1>7, <1>8, <1>9, WriteDone DEF StoreInv
<1>11. Shape'
    BY <1>6, <1>7 DEF StoreInv, Shape, Done, WithJob
<1>12. Adds(n, {}, {version})
    BY <1>7, <1>11 DEF Adds, StoreInv, Shape
<1>13. Stored' /\ OwnKnown' /\ OwnTimes'
    BY <1>4, <1>6, <1>12, OwnVersionAdded DEF StoreInv
<1>14. Kept(n)'
    BY <1>7, <1>8 DEF StoreInv, Kept
<1>15. Pulls(n)'
    BY <1>7, <1>8, PullsStayFit DEF StoreInv
<1>16. Elsewhere(n)
    BY <1>7, <1>10 DEF Elsewhere, StoreInv, Shape
<1>17. Counters'
    BY <1>6, <1>7 DEF StoreInv, Counters
<1>18. QED
    BY <1>10, <1>11, <1>13, <1>14, <1>15, <1>16, <1>17, Assembled

(* A job that has just planned what to write. *)
LEMMA PlannedFits ==
    ASSUME StoreInv, NEW n \in Nodes, 1 \in DOMAIN chain[n], NEW job,
           WithJob(n, 1, job),
           job = [call |-> job.call, begun |-> TRUE, todo |-> job.todo, items |-> job.items],
           job.call \in Calls \cup {SeedCall},
           job.items \subseteq rows[n] \cup history[n],
           Fresh(n, job.todo),
           UNCHANGED <<tables, blobs, up, pulls, clock, calls, faults, leftOut>>
    PROVE  StoreInv'
<1>1. Moved(n, chain'[n], job) /\ \A m \in Nodes \ {n} : chain'[m] = chain[m]
    BY JobMoves DEF StoreInv
<1>2. Grows(n)
    BY DEF Grows, tables
<1>3. ASSUME job.todo # <<>> PROVE Running(n, job)'
    <2>1. \A k \in DOMAIN job.todo : FreshWrite(n, job.todo, k)'
        BY <1>2, WriteStaysFresh DEF Fresh
    <2>2. IsSeq(job.todo)
        BY DEF Fresh
    <2>3. QED
        BY <1>3, <2>1, <2>2 DEF Running, JobWrite, tables
<1>4. job.begun
    <2>1. job.begun = TRUE
        OBVIOUS
    <2>2. QED
        BY <2>1
<1>5. Jobs(n)'
    BY <1>1, <1>3, <1>4, MovedFits
<1>6. Shape'
    BY DEF StoreInv, Shape, WithJob, tables
<1>7. Stored' /\ OwnKnown' /\ OwnTimes'
    BY StoresSame DEF StoreInv, tables
<1>8. Kept(n)'
    BY DEF StoreInv, Kept, tables
<1>9. Pulls(n)'
    BY <1>2, PullsStayFit DEF StoreInv
<1>10. Elsewhere(n)
    BY <1>1 DEF Elsewhere, tables
<1>11. Counters'
    BY DEF StoreInv, Counters
<1>12. QED
    BY <1>5, <1>6, <1>7, <1>8, <1>9, <1>10, <1>11, Assembled

(* So does the plan of the pairings. *)
LEMMA PlanPairingsKeeps ==
    ASSUME StoreInv, NEW n \in Nodes, NEW i \in DOMAIN chain[n], PlanPairings(n, i)
    PROVE  StoreInv'
<1>1. i = 1 /\ Writes(n, 1, "pairings")
    BY DEF PlanPairings, Writes, pendingWrite
<1>2. PICK job, animal : job = chain[n][1] /\ animal = Head(job.todo).animal
    OBVIOUS
<1>3. Running(n, job)
    BY <1>1, <1>2, JobWriting DEF StoreInv
<1>4. IsAnimal(animal)
    BY <1>1, <1>2, JobWriting DEF StoreInv, JobWrite, FreshWrite
<1>5. PICK todo, b : todo = writePairings(n, animal) \o recordChangeSet /\ b = TRUE
    OBVIOUS
<1>6. Fresh(n, todo)
    BY <1>4, <1>5, FreshPairings, FreshShort, FreshConcat
<1>7. PICK new : new = JobRecord(job.call, b, todo, job.items)
    OBVIOUS
<1>8. WithJob(n, 1, new)
    <2>1. WithJob(n, 1, TodoSet(job, todo))
        BY <1>1, <1>2, <1>5 DEF PlanPairings, TodoSet
    <2>2. job = JobRecord(job.call, b, job.todo, job.items)
        BY <1>3, <1>5 DEF Running, JobRecord
    <2>3. TodoSet(job, todo) = new
        BY <1>7, <2>2, JobWith
    <2>4. QED
        BY <2>1, <2>3
<1>9. /\ new = [call |-> new.call, begun |-> TRUE, todo |-> new.todo, items |-> new.items]
      /\ new.call = job.call /\ new.todo = todo /\ new.items = job.items
    BY <1>5, <1>7 DEF JobRecord
<1>10. UNCHANGED <<tables, blobs, up, pulls, clock, calls, faults, leftOut>>
    BY DEF PlanPairings
<1>11. job.call \in Calls \cup {SeedCall} /\ job.items \subseteq rows[n] \cup history[n]
    BY <1>3 DEF Running
<1>12. 1 \in DOMAIN chain[n]
    BY <1>1
<1>13. QED
    BY <1>6, <1>8, <1>9, <1>10, <1>11, <1>12, PlannedFits

(* So does a call that begins. *)
LEMMA BeginKeeps ==
    ASSUME StoreInv, NEW n \in Nodes, NEW i \in DOMAIN chain[n], Begin(n, i)
    PROVE  StoreInv'
<1>1. i = 1 /\ ~chain[n][1].begun
    BY DEF Begin, pendingWrite
<1>2. PICK job, b, c : job = chain[n][1] /\ b = FALSE /\ c = TRUE
    OBVIOUS
<1>3. Waiting(job)
    <2>1. Waiting(job) \/ Running(n, job)
        BY <1>1, <1>2 DEF StoreInv, Jobs, JobFits
    <2>2. Running(n, job) => job.begun = TRUE
        BY DEF Running
    <2>3. QED
        BY <1>1, <1>2, <2>1, <2>2
<1>4. PICK todo : todo = plan(n, job.call)
    OBVIOUS
<1>5. Fresh(n, todo)
    BY <1>3, <1>4, FreshPlans DEF Waiting, StoreInv
<1>6. PICK new : new = JobRecord(job.call, c, todo, job.items)
    OBVIOUS
<1>7. WithJob(n, 1, new)
    <2>1. WithJob(n, 1, BegunTodoSet(job, c, todo))
        BY <1>1, <1>2, <1>4 DEF Begin, BegunTodoSet
    <2>2. job = JobRecord(job.call, b, job.todo, job.items)
        <3>1. job = JobRecord(job.call, FALSE, <<>>, {})
            BY <1>3 DEF Waiting, JobRecord
        <3>2. job.todo = <<>> /\ job.items = {}
            BY <1>3 DEF Waiting
        <3>3. QED
            BY <1>2, <3>1, <3>2
    <2>3. BegunTodoSet(job, c, todo) = new
        BY <1>6, <2>2, JobWith
    <2>4. QED
        BY <2>1, <2>3
<1>8. /\ new = [call |-> new.call, begun |-> TRUE, todo |-> new.todo, items |-> new.items]
      /\ new.call = job.call /\ new.todo = todo /\ new.items = job.items
    BY <1>2, <1>6 DEF JobRecord
<1>9. UNCHANGED <<tables, blobs, up, pulls, clock, calls, faults, leftOut>>
    BY DEF Begin
<1>10. job.call \in Calls \cup {SeedCall} /\ job.items = {}
    BY <1>3 DEF Waiting
<1>11. 1 \in DOMAIN chain[n]
    BY <1>1
<1>12. QED
    BY <1>5, <1>7, <1>8, <1>9, <1>10, <1>11, PlannedFits

(* So does a call that is queued. *)
LEMMA CallKeeps ==
    ASSUME StoreInv, NEW n \in Nodes, Call(n)
    PROVE  StoreInv'
<1>1. PICK call \in Calls : chain' = [chain EXCEPT ![n] = Append(@, Job(call, FALSE, <<>>))]
    BY DEF Call
<1>2. PICK job : job = Job(call, FALSE, <<>>)
    OBVIOUS
<1>3. Waiting(job)
    BY <1>2 DEF Waiting, Job
<1>4. UNCHANGED <<rows, history, changeSets, held, blobs, up, pulls, clock, faults, leftOut>>
    BY DEF Call, tables
<1>5. Grows(n)
    BY <1>4 DEF Grows
<1>6. PICK s : s = chain[n]
    OBVIOUS
<1>7. chain'[n] = Append(s, job) /\ \A m \in Nodes \ {n} : chain'[m] = chain[m]
    BY <1>1, <1>2, <1>6 DEF StoreInv, Shape
<1>8. Jobs(n)'
    <2>1. IsSeq(s) /\ \A k \in DOMAIN s : JobFits(n, k, s[k])
        BY <1>6 DEF StoreInv, Jobs
    <2>2. PICK t : t = Append(s, job)
        OBVIOUS
    <2>3. IsSeq(t) /\ \A k \in DOMAIN t : (k \in DOMAIN s /\ t[k] = s[k]) \/ t[k] = job
        BY <2>1, <2>2, AppendFacts
    <2>4. ASSUME NEW k \in DOMAIN t PROVE JobFits(n, k, t[k])'
        <3>1. CASE t[k] = job
            BY <1>3, <3>1 DEF JobFits, Waiting
        <3>2. CASE k \in DOMAIN s /\ t[k] = s[k]
            BY <1>5, <2>1, <3>2, JobStaysFit
        <3>3. QED
            BY <2>3, <3>1, <3>2
    <2>5. chain'[n] = t
        BY <1>7, <2>2
    <2>6. QED
        BY <2>3, <2>4, <2>5 DEF Jobs, IsSeq
<1>9. Shape'
    BY <1>1, <1>4 DEF StoreInv, Shape
<1>10. Stored' /\ OwnKnown' /\ OwnTimes'
    BY <1>4, StoresSame DEF StoreInv
<1>11. Kept(n)'
    BY <1>4 DEF StoreInv, Kept
<1>12. Pulls(n)'
    BY <1>4, <1>5, PullsStayFit DEF StoreInv
<1>13. Elsewhere(n)
    BY <1>4, <1>7 DEF Elsewhere
<1>14. Counters'
    BY <1>4 DEF StoreInv, Counters, Call
<1>15. QED
    BY <1>8, <1>9, <1>10, <1>11, <1>12, <1>13, <1>14, Assembled

(* The seed writes something. *)
LEMMA SeedIsWritten == writeSeedPart # <<>>
<1> DEFINE ss == SeedSegments
           U == Elements(ss)
           m == Len(ss)
           P == {p \in Seq(U) : p # <<>>}
           T == [i \in 0 .. m |-> IF i = 0 THEN Seq(U) ELSE P]
<1>1. /\ ss \in Seq(Seq(U)) /\ m = Len(seedPart)
      /\ writeSeedPart = FlattenSeq(ss)
      /\ \A k \in 1 .. m : ss[k] = SeedSegment(k) /\ k \in DOMAIN seedPart
    <2>1. ss \in Seq(Seq(U))
        BY SeedPlan, SequencesOfSequences
    <2>2. DOMAIN seedPart = 1 .. Len(seedPart) /\ Len(seedPart) \in Nat /\ m \in Nat
        BY SeedPlan, SeedParts, SeqFacts
    <2>3. m = Len(seedPart)
        <3>1. 1 .. m = 1 .. Len(seedPart)
            BY <2>2, SeedPlan
        <3>2. QED
            BY <2>2, <3>1
    <2>4. QED
        BY <2>1, <2>3, SeedPlan
<1>2. m \in Nat /\ m # 0
    BY <1>1, SeedParts
<1>3. ASSUME NEW k \in 1 .. m PROVE ss[k] \in Seq(U) /\ ss[k] # <<>>
    <2>1. ss[k] \in Seq(U)
        BY <1>1, ElementOfSeq
    <2>2. k \in DOMAIN seedPart /\ ss[k] = SeedSegment(k)
        BY <1>1
    <2>3. IsSeq(SeedEntity(k)) /\ Len(SeedEntity(k)) > 0
        BY <2>2, SeedEntities
    <2>4. PICK t : t = (IF k = 1 THEN <<PutBlob(SeedImage)>> ELSE <<>>)
        OBVIOUS
    <2>5. IsSeq(t)
        BY <2>4, ShortSequences, EmptySeq DEF IsSeq
    <2>6. SeedSegment(k) = SeedEntity(k) \o t
        BY <2>4 DEF SeedSegment
    <2>7. Len(SeedSegment(k)) = Len(SeedEntity(k)) + Len(t) /\ Len(t) \in Nat /\ IsSeq(SeedSegment(k))
        BY <2>3, <2>5, <2>6, ConcatFacts, SeqFacts
    <2>8. Len(SeedSegment(k)) > 0
        <3>1. Len(SeedEntity(k)) \in Nat
            BY <2>3, SeqFacts
        <3>2. QED
            BY <2>3, <2>7, <3>1
    <2>9. QED
        BY <2>1, <2>2, <2>7, <2>8, SeqFacts
<1> HIDE DEF ss, U
<1>4. <<>> \in T[0]
    BY <1>2, EmptySeq
<1>5. ASSUME NEW i \in 1 .. m, NEW p \in T[i - 1] PROVE p \o ss[i] \in T[i]
    <2>1. p \in Seq(U) /\ ss[i] \in Seq(U) /\ ss[i] # <<>>
        BY <1>2, <1>3, <1>5
    <2>2. p \o ss[i] \in Seq(U) /\ Len(p \o ss[i]) = Len(p) + Len(ss[i]) /\ Len(ss[i]) > 0
          /\ Len(p) \in Nat
        BY <2>1
    <2>3. p \o ss[i] # <<>>
        BY <2>2
    <2>4. T[i] = P
        BY <1>2
    <2>5. QED
        BY <2>2, <2>3, <2>4
<1>6. FlattenSeq(ss) \in T[Len(ss)]
    <2>1. ss \in Seq(Seq(U))
        BY <1>1
    <2> HIDE DEF T
    <2>2. QED
        BY <1>4, <1>5, <2>1, FlattenBuilds
<1>7. QED
    BY <1>1, <1>2, <1>6

(* A start keeps the invariant. *)
LEMMA BootKeeps ==
    ASSUME StoreInv, NEW n \in Nodes, Boot(n)
    PROVE  StoreInv'
<1>1. /\ up' = [up EXCEPT ![n] = "seeding"]
      /\ chain' = [chain EXCEPT ![n] = IF isEmpty(n) THEN <<SeedJob>> ELSE <<>>]
      /\ UNCHANGED <<rows, history, changeSets, held, blobs, pulls, clock, calls, faults, leftOut>>
    BY DEF Boot, tables
<1>2. Grows(n)
    BY <1>1 DEF Grows
<1>3. /\ chain'[n] = <<SeedJob>> \/ chain'[n] = <<>>
      /\ \A m \in Nodes \ {n} : chain'[m] = chain[m]
    BY <1>1 DEF StoreInv, Shape
<1>4. PICK job, todo : job = SeedJob /\ todo = writeSeedPart
    OBVIOUS
<1>5. todo # <<>> => Running(n, job)
    <2>1. /\ job = [call |-> job.call, begun |-> TRUE, todo |-> job.todo, items |-> job.items]
          /\ job.call = SeedCall /\ job.todo = todo /\ job.items = {}
        BY <1>4 DEF SeedJob, Job
    <2>2. Fresh(n, todo)
        BY <1>4, FreshSeed
    <2>3. QED
        BY <2>1, <2>2 DEF Running, Fresh, JobWrite
<1>6. todo # <<>>
    BY <1>4, SeedIsWritten
<1>7. Jobs(n)'
    <2>1. CASE chain'[n] = <<>>
        <3>1. IsSeq(<<>>) /\ DOMAIN <<>> = {}
            BY EmptySeq DEF IsSeq
        <3>2. QED
            BY <2>1, <3>1 DEF Jobs, IsSeq
    <2>2. CASE chain'[n] = <<job>>
        <3>1. PICK s : s = <<job>>
            OBVIOUS
        <3>2. IsSeq(s) /\ DOMAIN s = {1} /\ s[1] = job
            BY <3>1, ShortSequences
        <3>3. JobFits(n, 1, job)
            BY <1>5, <1>6 DEF JobFits
        <3>4. JobFits(n, 1, job)'
            BY <1>2, <3>3, JobStaysFit
        <3>5. chain'[n] = s
            BY <2>2, <3>1
        <3>6. QED
            BY <3>2, <3>4, <3>5 DEF Jobs, IsSeq
    <2>3. QED
        BY <1>3, <1>4, <2>1, <2>2
<1>8. Shape'
    BY <1>1 DEF StoreInv, Shape
<1>9. Stored' /\ OwnKnown' /\ OwnTimes'
    BY <1>1, StoresSame DEF StoreInv
<1>10. Kept(n)'
    BY <1>1 DEF StoreInv, Kept
<1>11. Pulls(n)'
    BY <1>1, <1>2, PullsStayFit DEF StoreInv
<1>12. Elsewhere(n)
    BY <1>1, <1>3 DEF Elsewhere
<1>13. Counters'
    BY <1>1 DEF StoreInv, Counters
<1>14. QED
    BY <1>7, <1>8, <1>9, <1>10, <1>11, <1>12, <1>13, Assembled

(* So does the end of it. *)
LEMMA ServesKeeps ==
    ASSUME StoreInv, NEW n \in Nodes, Serves(n)
    PROVE  StoreInv'
<1>1. /\ up' = [up EXCEPT ![n] = "serving"]
      /\ UNCHANGED <<rows, history, changeSets, held, blobs, chain, pulls, clock, calls, faults,
                     leftOut>>
    BY DEF Serves, tables
<1>2. Grows(n)
    BY <1>1 DEF Grows
<1>3. Stored' /\ OwnKnown' /\ OwnTimes'
    BY <1>1, StoresSame DEF StoreInv
<1>4. Kept(n)' /\ Jobs(n)' /\ Pulls(n)'
    BY <1>1, <1>2, ChainStaysFit, PullsStayFit DEF StoreInv, Kept
<1>5. Elsewhere(n) /\ Shape' /\ Counters'
    BY <1>1 DEF Elsewhere, StoreInv, Shape, Counters
<1>6. QED
    BY <1>3, <1>4, <1>5, Assembled

(* So does a crash: the stores persist and what ran is gone. *)
LEMMA CrashKeeps ==
    ASSUME StoreInv, NEW n \in Nodes, Crash(n)
    PROVE  StoreInv'
<1>1. /\ up' = [up EXCEPT ![n] = "down"]
      /\ chain' = [chain EXCEPT ![n] = <<>>]
      /\ pulls' = [pulls EXCEPT ![n] = {}]
      /\ blobs' = [blobs EXCEPT ![n] = {}]
      /\ UNCHANGED <<rows, history, changeSets, held, clock, calls>>
      /\ leftOut' \subseteq Nodes
      /\ faults' \in Nat
    BY DEF Crash, tables, Fault, StoreInv, Counters
<1>2. Stored' /\ OwnKnown' /\ OwnTimes'
    BY <1>1, StoresSame DEF StoreInv
<1>3. Kept(n)'
    BY <1>1 DEF StoreInv, Kept
<1>4. chain'[n] = <<>> /\ pulls'[n] = {}
    BY <1>1 DEF StoreInv, Shape
<1>5. Jobs(n)' /\ Pulls(n)'
    <2>1. IsSeq(<<>>) /\ DOMAIN <<>> = {}
        BY EmptySeq DEF IsSeq
    <2>2. QED
        BY <1>4, <2>1 DEF Jobs, IsSeq, Pulls
<1>6. Elsewhere(n) /\ Shape' /\ Counters'
    BY <1>1 DEF Elsewhere, StoreInv, Shape, Counters
<1>7. QED
    BY <1>2, <1>3, <1>5, <1>6, Assembled

(* Rows and history rows in the change sets of a store. *)
LEMMA ChangeSetParts ==
    ASSUME Stored, NEW p \in Nodes, NEW changeSet, changeSet \subseteq rows[p] \cup history[p]
    PROVE  /\ rowsOf(changeSet) \subseteq rows[p]
           /\ historyOf(changeSet) \subseteq history[p]
           /\ changeSet \subseteq rowsOf(changeSet) \cup historyOf(changeSet)
<1>1. \A row \in rows[p] : ~IsHistoryRow(row)
    BY RowTables DEF Stored
<1>2. \A v \in history[p] : IsHistoryRow(v)
    BY VersionsAreHistory DEF Stored
<1>3. QED
    BY <1>1, <1>2 DEF rowsOf, historyOf

(* What another node has may be copied. *)
LEMMA FromAnother ==
    ASSUME Stored, OwnKnown, NEW n, NEW p \in Nodes, NEW R, NEW H,
           R \subseteq rows[p], H \subseteq history[p]
    PROVE  Copies(n, R, H)
<1>1. IsFiniteSet(R) /\ IsFiniteSet(H)
    BY FS_Subset DEF Stored
<1>2. QED
    BY <1>1 DEF Copies, Stored, OwnKnown

(* The pulls that follow a change of one of them. *)
LEMMA PullsChanged ==
    ASSUME NEW n, Grows(n), Pulls(n), NEW new,
           new \subseteq pulls'[n], \A pull \in pulls'[n] : pull \in pulls[n] \/ pull \in new,
           \A pull \in new : PullFits(n, pull)'
    PROVE  Pulls(n)'
<1>1. ASSUME NEW pull \in pulls'[n] PROVE PullFits(n, pull)'
    <2>1. CASE pull \in pulls[n]
        BY <2>1, PullStaysFit DEF Pulls
    <2>2. QED
        BY <2>1
<1>2. QED
    BY <1>1 DEF Pulls, PullFits

(* The fields of a pull. *)
PullRecord(changeSet, walk, seen, pulled, stage) ==
    [changeSet |-> changeSet, walk |-> walk, seen |-> seen, pulled |-> pulled, stage |-> stage]

(* The ways a step sets them, field by field. *)
WalkSet(pull, walk) == [pull EXCEPT !.walk = walk]
WalkSeenSet(pull, walk, seen) == [pull EXCEPT !.walk = walk, !.seen = seen]
PulledSet(pull, pulled) == [pull EXCEPT !.pulled = pulled]
StageSet(pull, stage) == [pull EXCEPT !.stage = stage]

(* A pull has these fields. *)
IsPull(pull) == pull = PullRecord(pull.changeSet, pull.walk, pull.seen, pull.pulled, pull.stage)

(* What these make of a pull, field by field. *)
LEMMA PullWith ==
    ASSUME NEW pull, IsPull(pull), NEW x, NEW y
    PROVE  /\ WalkSet(pull, x) = PullRecord(pull.changeSet, x, pull.seen, pull.pulled, pull.stage)
           /\ WalkSeenSet(pull, x, y) = PullRecord(pull.changeSet, x, y, pull.pulled, pull.stage)
           /\ PulledSet(pull, x) = PullRecord(pull.changeSet, pull.walk, pull.seen, x, pull.stage)
           /\ StageSet(pull, x) = PullRecord(pull.changeSet, pull.walk, pull.seen, pull.pulled, x)
<1>1. ASSUME NEW c, NEW w, NEW s, NEW p, NEW g
      PROVE  /\ WalkSet(PullRecord(c, w, s, p, g), x) = PullRecord(c, x, s, p, g)
             /\ WalkSeenSet(PullRecord(c, w, s, p, g), x, y) = PullRecord(c, x, y, p, g)
             /\ PulledSet(PullRecord(c, w, s, p, g), x) = PullRecord(c, w, s, x, g)
             /\ StageSet(PullRecord(c, w, s, p, g), x) = PullRecord(c, w, s, p, x)
    <2>1. [PullRecord(c, w, s, p, g) EXCEPT !.walk = x] = PullRecord(c, x, s, p, g)
        BY DEF PullRecord
    <2>2. [PullRecord(c, x, s, p, g) EXCEPT !.seen = y] = PullRecord(c, x, y, p, g)
        BY DEF PullRecord
    <2>3. [PullRecord(c, w, s, p, g) EXCEPT !.pulled = x] = PullRecord(c, w, s, x, g)
        BY DEF PullRecord
    <2>4. [PullRecord(c, w, s, p, g) EXCEPT !.stage = x] = PullRecord(c, w, s, p, x)
        BY DEF PullRecord
    <2>5. QED
        BY <2>1, <2>2, <2>3, <2>4 DEF WalkSet, WalkSeenSet, PulledSet, StageSet
<1>2. PICK c, w, s, p, g : /\ c = pull.changeSet /\ w = pull.walk /\ s = pull.seen
                           /\ p = pull.pulled /\ g = pull.stage
    OBVIOUS
<1>3. pull = PullRecord(c, w, s, p, g)
    BY <1>2 DEF IsPull
<1>4. QED
    BY <1>1, <1>2, <1>3

(* A step of a pull that leaves the tables of rows alone. *)
LEMMA PullMoves ==
    ASSUME StoreInv, NEW n \in Nodes, NEW old, NEW new,
           pulls' = [pulls EXCEPT ![n] = (@ \ old) \cup new],
           \A pull \in new : PullFits(n, pull)',
           Kept(n)', Elsewhere(n), Shape', Counters', Grows(n),
           UNCHANGED <<rows, history, clock, chain>>
    PROVE  StoreInv'
<1>1. pulls'[n] = (pulls[n] \ old) \cup new
    BY DEF StoreInv, Shape
<1>2. Pulls(n)'
    BY <1>1, PullsChanged DEF StoreInv
<1>3. Jobs(n)'
    BY ChainStaysFit DEF StoreInv
<1>4. Stored' /\ OwnKnown' /\ OwnTimes'
    BY StoresSame DEF StoreInv
<1>5. QED
    BY <1>2, <1>3, <1>4, Assembled

(* Pulled items that some store has keep the invariant. *)
LEMMA ItemsWritten ==
    ASSUME StoreInv, NEW n \in Nodes, NEW others, others \subseteq pulls[n], NEW pull,
           NEW items, WithItems(n, others, pull, items), IsPull(pull),
           pull.walk \subseteq pull.seen,
           pull.pulled \in 0 .. DependencyBound[n],
           pull.changeSet \subseteq rows[n] \cup history[n] \cup rowsOf(items) \cup historyOf(items),
           pull.stage = "held" => pull.changeSet \in changeSets[n],
           Copies(n, rowsOf(items), historyOf(items)),
           UNCHANGED <<changeSets, held, blobs, up, chain, clock, calls, faults, leftOut>>
    PROVE  StoreInv'
<1>1. PICK new : /\ pulls' = [pulls EXCEPT ![n] = others \cup
                                {WalkSeenSet(pull, pull.walk \cup new, pull.seen \cup new)}]
                 /\ rows' = [rows EXCEPT ![n] = rows[n] \cup rowsOf(items)]
                 /\ history' = [history EXCEPT ![n] = history[n] \cup historyOf(items)]
    BY DEF WithItems, WalkSeenSet
<1>2. PICK after : after = PullRecord(pull.changeSet, pull.walk \cup new, pull.seen \cup new,
                                      pull.pulled, pull.stage)
    OBVIOUS
<1>3. pulls' = [pulls EXCEPT ![n] = others \cup {after}]
    BY <1>1, <1>2, PullWith
<1>4. /\ rows'[n] = rows[n] \cup rowsOf(items) /\ history'[n] = history[n] \cup historyOf(items)
      /\ pulls'[n] = others \cup {after}
    BY <1>1, <1>3 DEF StoreInv, Shape
<1>5. Grows(n)
    BY <1>4 DEF Grows
<1>6. PullFits(n, after)'
    <2>1. /\ after.changeSet = pull.changeSet
          /\ after.walk = pull.walk \cup new /\ after.seen = pull.seen \cup new
          /\ after.pulled = pull.pulled /\ after.stage = pull.stage
          /\ after = [changeSet |-> after.changeSet, walk |-> after.walk, seen |-> after.seen,
                      pulled |-> after.pulled, stage |-> after.stage]
        BY <1>2 DEF PullRecord
    <2>2. after.changeSet \subseteq rows'[n] \cup history'[n]
        BY <1>4, <2>1
    <2>3. after.walk \subseteq after.seen
        BY <2>1
    <2>4. after.stage = "held" => after.changeSet \in changeSets'[n]
        BY <2>1
    <2>5. QED
        BY <2>1, <2>2, <2>3, <2>4 DEF PullFits
<1>7. Pulls(n)'
    <2>1. PICK set : set = {after}
        OBVIOUS
    <2>2. \A p \in set : PullFits(n, p)'
        BY <1>6, <2>1
    <2>3. set \subseteq pulls'[n] /\ \A p \in pulls'[n] : p \in pulls[n] \/ p \in set
        BY <1>4, <2>1
    <2>4. Pulls(n)
        BY DEF StoreInv
    <2>5. QED
        BY <1>5, <2>2, <2>3, <2>4, PullsChanged
<1>8. Jobs(n)'
    BY <1>5, ChainStaysFit DEF StoreInv
<1>9. Shape'
    BY <1>1, <1>3 DEF StoreInv, Shape
<1>10. Adds(n, rowsOf(items), historyOf(items))
    BY <1>1, <1>9 DEF Adds, StoreInv, Shape
<1>11. Stored' /\ OwnKnown' /\ OwnTimes'
    BY <1>10, CopiesKept DEF StoreInv
<1>12. Kept(n)'
    BY <1>4 DEF StoreInv, Kept
<1>13. Elsewhere(n)
    BY <1>1, <1>3 DEF Elsewhere, StoreInv, Shape
<1>14. Counters'
    BY DEF StoreInv, Counters
<1>15. QED
    BY <1>7, <1>8, <1>9, <1>11, <1>12, <1>13, <1>14, Assembled

(* The pull of a change set's items keeps the invariant. *)
LEMMA PullItemsKeeps ==
    ASSUME StoreInv, NEW n \in Nodes, PullItems(n)
    PROVE  StoreInv'
<1>1. PICK p, changeSet, pull :
        /\ p \in Peers(n) /\ changeSet \in held[p]
        /\ pull = PullRecord(changeSet, {}, {}, 0, "dependencies")
        /\ WithItems(n, pulls[n], pull, changeSet)
        /\ UNCHANGED <<changeSets, held, blobs, up, chain, clock, calls, faults, leftOut>>
    BY DEF PullItems, PullRecord
<1>2. p \in Nodes /\ changeSet \subseteq rows[p] \cup history[p]
    BY <1>1 DEF Peers, StoreInv, Kept
<1>3. /\ rowsOf(changeSet) \subseteq rows[p] /\ historyOf(changeSet) \subseteq history[p]
      /\ changeSet \subseteq rowsOf(changeSet) \cup historyOf(changeSet)
    BY <1>2, ChangeSetParts DEF StoreInv
<1>4. Copies(n, rowsOf(changeSet), historyOf(changeSet))
    BY <1>2, <1>3, FromAnother DEF StoreInv
<1>5. /\ IsPull(pull) /\ pull.walk \subseteq pull.seen /\ pull.pulled = 0
      /\ pull.changeSet = changeSet /\ pull.stage # "held"
    BY <1>1 DEF IsPull, PullRecord
<1>6. 0 \in 0 .. DependencyBound[n]
    BY StoreAssumption
<1>7. pull.changeSet \subseteq rows[n] \cup history[n] \cup rowsOf(changeSet) \cup historyOf(changeSet)
    BY <1>3, <1>5
<1>8. QED
    BY <1>1, <1>4, <1>5, <1>6, <1>7, ItemsWritten

(* So does the pull of what they refer to. *)
LEMMA PullDependencyKeeps ==
    ASSUME StoreInv, NEW n \in Nodes, NEW pull \in pulls[n], PullDependency(n, pull)
    PROVE  StoreInv'
<1> DEFINE reference == NextReference(pull)
           walk == pull.walk \ {reference}
           following == WalkSet(pull, walk)
           served == UNION {Found(rows[p], history[p], reference) : p \in Peers(n)}
           item == (CHOOSE i \in served : TRUE)
<1>1. PullFits(n, pull) /\ IsPull(pull)
    BY DEF StoreInv, Pulls, PullFits, IsPull, PullRecord
<1>2. UNCHANGED <<changeSets, held, blobs, up, chain, clock, calls, faults, leftOut>>
    BY DEF PullDependency
<1>3. \/ With(n, pull, following) /\ UNCHANGED <<rows, history>>
      \/ /\ served # {} /\ pull.pulled < DependencyBound[n]
         /\ WithItems(n, pulls[n] \ {pull}, PulledSet(following, following.pulled + 1), {item})
    BY DEF PullDependency, WalkSet, PulledSet
<1> HIDE DEF reference
<1>4. following = PullRecord(pull.changeSet, walk, pull.seen, pull.pulled, pull.stage)
    BY <1>1, PullWith
<1>5. CASE With(n, pull, following) /\ UNCHANGED <<rows, history>>
    <2>1. PICK after : after = following
        OBVIOUS
    <2>2. PullFits(n, after)
        <3>1. after = PullRecord(pull.changeSet, walk, pull.seen, pull.pulled, pull.stage)
            BY <1>4, <2>1
        <3>2. /\ after.changeSet = pull.changeSet /\ after.walk = walk
              /\ after.seen = pull.seen /\ after.pulled = pull.pulled /\ after.stage = pull.stage
            BY <3>1 DEF PullRecord
        <3>3. after = [changeSet |-> after.changeSet, walk |-> after.walk, seen |-> after.seen,
                       pulled |-> after.pulled, stage |-> after.stage]
            BY <3>1, <3>2 DEF PullRecord
        <3>4. after.walk \subseteq after.seen
            BY <1>1, <3>2 DEF PullFits
        <3>5. QED
            BY <1>1, <3>2, <3>3, <3>4 DEF PullFits
    <2>3. pulls' = [pulls EXCEPT ![n] = (@ \ {pull}) \cup {after}]
        BY <1>5, <2>1 DEF With
    <2>4. Grows(n) /\ Kept(n)' /\ Elsewhere(n) /\ Shape' /\ Counters'
        BY <1>2, <1>5, <2>3 DEF Grows, Kept, Elsewhere, Shape, Counters, StoreInv
    <2>5. \A p \in {after} : PullFits(n, p)'
        BY <2>2, <2>4, PullStaysFit
    <2>6. QED
        BY <1>2, <1>5, <2>3, <2>4, <2>5, PullMoves
<1>6. CASE /\ served # {} /\ pull.pulled < DependencyBound[n]
           /\ WithItems(n, pulls[n] \ {pull}, PulledSet(following, following.pulled + 1), {item})
    <2>1. PICK p \in Nodes : item \in rows[p] \cup history[p]
        <3>1. item \in served
            BY <1>6
        <3> HIDE DEF item
        <3>2. PICK p \in Peers(n) : item \in Found(rows[p], history[p], reference)
            BY <3>1
        <3>3. item \in rows[p] \cup history[p] /\ p \in Nodes
            BY <3>2 DEF Found, Peers
        <3>4. QED
            BY <3>3
    <2>2. PICK items : items = {item}
        OBVIOUS
    <2>3. rowsOf(items) \subseteq rows[p] /\ historyOf(items) \subseteq history[p]
        BY <2>1, <2>2, ChangeSetParts DEF StoreInv
    <2>4. Copies(n, rowsOf(items), historyOf(items))
        BY <2>3, FromAnother DEF StoreInv
    <2>5. PICK next : next = PulledSet(following, following.pulled + 1)
        OBVIOUS
    <2>6. next = PullRecord(pull.changeSet, walk, pull.seen, pull.pulled + 1, pull.stage)
        <3>1. /\ following.changeSet = pull.changeSet /\ following.walk = walk
              /\ following.seen = pull.seen /\ following.pulled = pull.pulled
              /\ following.stage = pull.stage
            BY <1>4 DEF PullRecord
        <3>2. IsPull(following)
            BY <1>4, <3>1 DEF IsPull
        <3>3. PICK f, w : f = following /\ w = walk
            OBVIOUS
        <3>4. PulledSet(f, f.pulled + 1) =
                PullRecord(f.changeSet, f.walk, f.seen, f.pulled + 1, f.stage)
            BY <3>2, <3>3, PullWith
        <3>5. QED
            BY <2>5, <3>1, <3>3, <3>4
    <2>7. /\ next.changeSet = pull.changeSet /\ next.walk = walk /\ next.seen = pull.seen
          /\ next.pulled = pull.pulled + 1 /\ next.stage = pull.stage /\ IsPull(next)
        BY <2>6 DEF PullRecord, IsPull
    <2>8. next.pulled \in 0 .. DependencyBound[n]
        <3>1. DependencyBound[n] \in Nat /\ pull.pulled \in 0 .. DependencyBound[n]
            BY <1>1, StoreAssumption DEF PullFits
        <3>2. QED
            BY <1>6, <2>7, <3>1
    <2>9. /\ next.walk \subseteq next.seen
          /\ next.changeSet \subseteq rows[n] \cup history[n] \cup rowsOf(items) \cup historyOf(items)
          /\ next.stage = "held" => next.changeSet \in changeSets[n]
        BY <1>1, <2>7 DEF PullFits
    <2>10. WithItems(n, pulls[n] \ {pull}, next, items)
        BY <1>6, <2>2, <2>5
    <2>11. PICK others : others = pulls[n] \ {pull}
        OBVIOUS
    <2>12. others \subseteq pulls[n] /\ WithItems(n, others, next, items)
        BY <2>10, <2>11
    <2>13. QED
        BY <1>2, <2>4, <2>7, <2>8, <2>9, <2>12, ItemsWritten
<1>7. QED
    BY <1>3, <1>5, <1>6

(* So does a dependency that is left out. *)
LEMMA LeaveDependencyKeeps ==
    ASSUME StoreInv, NEW n \in Nodes, NEW pull \in pulls[n], LeaveDependency(n, pull)
    PROVE  StoreInv'
<1>1. PICK walk, after : /\ walk \subseteq pull.walk
                         /\ after = WalkSet(pull, walk)
                         /\ pulls' = [pulls EXCEPT ![n] = (@ \ {pull}) \cup {after}]
    <2> DEFINE walk == IF pull.pulled = DependencyBound[n] THEN {}
                       ELSE pull.walk \ {NextReference(pull)}
    <2>1. With(n, pull, WalkSet(pull, walk))
        BY DEF LeaveDependency, WalkSet
    <2>2. walk \subseteq pull.walk
        OBVIOUS
    <2> HIDE DEF walk
    <2>3. QED
        BY <2>1, <2>2 DEF With
<1>2. UNCHANGED <<rows, history, changeSets, held, blobs, up, chain, clock, calls>>
    BY DEF LeaveDependency, tables
<1>3. faults' \in Nat /\ leftOut' \subseteq Nodes
    BY DEF LeaveDependency, StoreInv, Counters, Fault
<1>4. PullFits(n, pull) /\ IsPull(pull)
    BY DEF StoreInv, Pulls, PullFits, IsPull, PullRecord
<1>5. PullFits(n, after)
    <2>1. after = PullRecord(pull.changeSet, walk, pull.seen, pull.pulled, pull.stage)
        BY <1>1, <1>4, PullWith
    <2>2. /\ after.changeSet = pull.changeSet /\ after.walk = walk
          /\ after.seen = pull.seen /\ after.pulled = pull.pulled /\ after.stage = pull.stage
        BY <2>1 DEF PullRecord
    <2>3. after = [changeSet |-> after.changeSet, walk |-> after.walk, seen |-> after.seen,
                   pulled |-> after.pulled, stage |-> after.stage]
        BY <2>1, <2>2 DEF PullRecord
    <2>4. after.walk \subseteq after.seen
        BY <1>1, <1>4, <2>2 DEF PullFits
    <2>5. QED
        BY <1>4, <2>2, <2>3, <2>4 DEF PullFits
<1>6. Grows(n) /\ Kept(n)' /\ Elsewhere(n) /\ Shape' /\ Counters'
    BY <1>1, <1>2, <1>3 DEF Grows, Kept, Elsewhere, Shape, Counters, StoreInv
<1>7. \A p \in {after} : PullFits(n, p)'
    BY <1>5, <1>6, PullStaysFit
<1>8. QED
    BY <1>1, <1>2, <1>6, <1>7, PullMoves

(* A pull at its next stage fits. *)
LEMMA StageFits ==
    ASSUME NEW n, NEW pull, PullFits(n, pull), NEW stage,
           stage = "held" => pull.changeSet \in changeSets'[n], Grows(n)
    PROVE  PullFits(n, StageSet(pull, stage))'
<1>1. PICK after : after = StageSet(pull, stage)
    OBVIOUS
<1>2. after = PullRecord(pull.changeSet, pull.walk, pull.seen, pull.pulled, stage)
    BY <1>1, PullWith DEF PullFits, IsPull, PullRecord
<1>3. /\ after.changeSet = pull.changeSet /\ after.walk = pull.walk
      /\ after.seen = pull.seen /\ after.pulled = pull.pulled /\ after.stage = stage
    BY <1>2 DEF PullRecord
<1>4. after = [changeSet |-> after.changeSet, walk |-> after.walk, seen |-> after.seen,
               pulled |-> after.pulled, stage |-> after.stage]
    BY <1>2, <1>3 DEF PullRecord
<1>5. after.changeSet \subseteq rows'[n] \cup history'[n]
    BY <1>3 DEF PullFits, Grows
<1>6. PullFits(n, after)'
    BY <1>3, <1>4, <1>5 DEF PullFits
<1>7. QED
    BY <1>1, <1>6

(* The pull of the images keeps the invariant. *)
LEMMA PullBlobsKeeps ==
    ASSUME StoreInv, NEW n \in Nodes, NEW pull \in pulls[n], PullBlobs(n, pull)
    PROVE  StoreInv'
<1>1. PICK after, pulled : /\ after = StageSet(pull, "changeSet")
                           /\ pulls' = [pulls EXCEPT ![n] = (@ \ {pull}) \cup {after}]
                           /\ blobs' = [blobs EXCEPT ![n] = @ \cup pulled]
    BY DEF PullBlobs, With, StageSet
<1>2. UNCHANGED <<rows, history, changeSets, held, up, chain, clock, calls, leftOut>>
    BY DEF PullBlobs, tables
<1>3. faults' \in Nat
    BY DEF PullBlobs, Arrives, Fault, StoreInv, Counters
<1>4. Grows(n)
    BY <1>1, <1>2 DEF Grows, StoreInv, Shape
<1>5. PullFits(n, after)'
    <2>1. PullFits(n, pull)
        BY DEF StoreInv, Pulls
    <2>2. QED
        BY <1>1, <1>4, <2>1, StageFits
<1>6. Kept(n)' /\ Elsewhere(n) /\ Shape' /\ Counters'
    BY <1>1, <1>2, <1>3 DEF Kept, Elsewhere, Shape, Counters, StoreInv
<1>7. \A p \in {after} : PullFits(n, p)'
    BY <1>5
<1>8. QED
    BY <1>1, <1>2, <1>4, <1>6, <1>7, PullMoves

(* So does the write of a received change set. *)
LEMMA WriteReceivedKeeps ==
    ASSUME StoreInv, NEW n \in Nodes, NEW pull \in pulls[n], WriteReceived(n, pull)
    PROVE  StoreInv'
<1>1. UNCHANGED <<rows, history, held, blobs, up, chain, clock, calls, faults, leftOut>>
    BY DEF WriteReceived
<1>2. PullFits(n, pull)
    BY DEF StoreInv, Pulls
<1>3. CASE pull.changeSet \in held[n]
    <2>1. PICK old, new : /\ old = {pull} /\ new = {}
                          /\ pulls' = [pulls EXCEPT ![n] = (@ \ old) \cup new]
                          /\ changeSets' = changeSets
        <3>1. pulls' = [pulls EXCEPT ![n] = pulls[n] \ {pull}] /\ changeSets' = changeSets
            BY <1>3 DEF WriteReceived
        <3>2. PICK old, new : old = {pull} /\ new = {}
            OBVIOUS
        <3>3. pulls[n] \ {pull} = (pulls[n] \ old) \cup new
            BY <3>2
        <3>4. QED
            BY <3>1, <3>2, <3>3
    <2>2. Grows(n) /\ Kept(n)' /\ Elsewhere(n) /\ Shape' /\ Counters'
        BY <1>1, <2>1 DEF Grows, Kept, Elsewhere, Shape, Counters, StoreInv
    <2>3. QED
        BY <1>1, <2>1, <2>2, PullMoves
<1>4. CASE pull.changeSet \notin held[n]
    <2>1. PICK after : after = StageSet(pull, "held")
        OBVIOUS
    <2>2. /\ pulls' = [pulls EXCEPT ![n] = (@ \ {pull}) \cup {after}]
          /\ changeSets' = [changeSets EXCEPT ![n] = @ \cup {pull.changeSet}]
        BY <1>4, <2>1 DEF WriteReceived, With, StageSet
    <2>3. changeSets'[n] = changeSets[n] \cup {pull.changeSet}
        BY <2>2 DEF StoreInv, Shape
    <2>4. Grows(n)
        BY <1>1, <2>3 DEF Grows
    <2>5. PullFits(n, after)'
        BY <1>2, <2>1, <2>3, <2>4, StageFits
    <2>6. Kept(n)'
        BY <1>1, <1>2, <2>3 DEF Kept, StoreInv, PullFits
    <2>7. Elsewhere(n) /\ Shape' /\ Counters'
        BY <1>1, <2>2 DEF Elsewhere, Shape, Counters, StoreInv
    <2>8. \A p \in {after} : PullFits(n, p)'
        BY <2>5
    <2>9. QED
        BY <1>1, <2>2, <2>4, <2>6, <2>7, <2>8, PullMoves
<1>5. QED
    BY <1>3, <1>4

(* So does the write of its history row. *)
LEMMA RecordReceivedKeeps ==
    ASSUME StoreInv, NEW n \in Nodes, NEW pull \in pulls[n], RecordReceived(n, pull)
    PROVE  StoreInv'
<1>1. /\ UNCHANGED <<rows, history, changeSets, blobs, up, chain, clock, calls, faults, leftOut>>
      /\ held' = [held EXCEPT ![n] = @ \cup {pull.changeSet}]
    BY DEF RecordReceived
<1>2. pull.changeSet \in changeSets[n]
    BY DEF RecordReceived, StoreInv, Pulls, PullFits
<1>3. held'[n] = held[n] \cup {pull.changeSet}
    BY <1>1 DEF StoreInv, Shape
<1>4. PICK old, new : /\ old = {pull} /\ new = {}
                      /\ pulls' = [pulls EXCEPT ![n] = (@ \ old) \cup new]
    <2>1. pulls' = [pulls EXCEPT ![n] = pulls[n] \ {pull}]
        BY DEF RecordReceived
    <2>2. PICK old, new : old = {pull} /\ new = {}
        OBVIOUS
    <2>3. pulls[n] \ {pull} = (pulls[n] \ old) \cup new
        BY <2>2
    <2>4. QED
        BY <2>1, <2>2, <2>3
<1>5. Grows(n) /\ Elsewhere(n) /\ Shape' /\ Counters'
    BY <1>1, <1>4 DEF Grows, Elsewhere, Shape, Counters, StoreInv
<1>6. Kept(n)'
    BY <1>1, <1>2, <1>3 DEF Kept, StoreInv
<1>7. QED
    BY <1>1, <1>4, <1>5, <1>6, PullMoves

(* A read that keeps rows of another node. *)
LEMMA RowsCached ==
    ASSUME StoreInv, NEW n \in Nodes, NEW p \in Nodes, NEW cached, cached \subseteq rows[p],
           rows' = [rows EXCEPT ![n] = @ \cup cached], faults' \in Nat,
           UNCHANGED <<history, changeSets, held, blobs, up, chain, pulls, clock, calls, leftOut>>
    PROVE  StoreInv'
<1>1. rows'[n] = rows[n] \cup cached
    BY DEF StoreInv, Shape
<1>2. Grows(n)
    BY <1>1 DEF Grows
<1>3. Shape' /\ Counters' /\ Elsewhere(n)
    BY DEF Shape, Counters, Elsewhere, StoreInv
<1>4. Adds(n, cached, {})
    BY <1>3 DEF Adds, StoreInv, Shape
<1>5. Copies(n, cached, {})
    BY FromAnother DEF StoreInv
<1>6. Stored' /\ OwnKnown' /\ OwnTimes'
    BY <1>4, <1>5, CopiesKept DEF StoreInv
<1>7. Kept(n)'
    BY <1>1 DEF StoreInv, Kept
<1>8. Jobs(n)' /\ Pulls(n)'
    BY <1>2, ChainStaysFit, PullsStayFit DEF StoreInv
<1>9. QED
    BY <1>3, <1>6, <1>7, <1>8, Assembled

(* So do the reads that cache what they find. *)
LEMMA ReadsKeep ==
    ASSUME StoreInv, NEW n \in Nodes, ReadInvoice(n) \/ ReadVersion(n) \/ ReadImage(n)
    PROVE  StoreInv'
<1>1. CASE ReadInvoice(n)
    <2>1. PICK p, invoice : /\ p \in Peers(n)
                            /\ readMatching(n, p, {invoice} \cup withRowsOfHashes(n, p, invoice))
        BY <1>1 DEF ReadInvoice
    <2>2. PICK asked : asked = {invoice} \cup withRowsOfHashes(n, p, invoice)
        OBVIOUS
    <2>3. readMatching(n, p, asked)
        BY <2>1, <2>2
    <2>4. PICK cached : /\ cached \subseteq asked \cap rows[p]
                        /\ Arrives(asked \cap rows[p], cached)
                        /\ rows' = [rows EXCEPT ![n] = @ \cup cached]
        BY <2>3 DEF readMatching
    <2>5. faults' \in Nat
        BY <2>4 DEF Arrives, Fault, StoreInv, Counters
    <2>6. UNCHANGED <<history, changeSets, held, blobs, up, chain, pulls, clock, calls, leftOut>>
        BY <1>1 DEF ReadInvoice
    <2>7. cached \subseteq rows[p] /\ p \in Nodes
        BY <2>1, <2>4 DEF Peers
    <2>8. QED
        BY <2>4, <2>5, <2>6, <2>7, RowsCached
<1>2. CASE ReadVersion(n)
    <2>1. PICK p, animal : /\ p \in Peers(n) /\ animal \in readRows(p, "animals")
                           /\ rows' = [rows EXCEPT ![n] = @ \cup {animal}]
        BY <1>2 DEF ReadVersion
    <2>2. PICK cached : cached = {animal}
        OBVIOUS
    <2>3. p \in Nodes /\ cached \subseteq rows[p]
        BY <2>1, <2>2 DEF Peers, readRows
    <2>4. /\ UNCHANGED <<history, changeSets, held, blobs, up, chain, pulls, clock, calls, leftOut>>
          /\ faults' \in Nat
        BY <1>2 DEF ReadVersion, StoreInv, Counters
    <2>5. QED
        BY <2>1, <2>2, <2>3, <2>4, RowsCached
<1>3. CASE ReadImage(n)
    <2>1. PICK image : blobs' = [blobs EXCEPT ![n] = @ \cup {image}]
        BY <1>3 DEF ReadImage
    <2>2. UNCHANGED <<rows, history, changeSets, held, up, chain, pulls, clock, calls, faults, leftOut>>
        BY <1>3 DEF ReadImage, tables
    <2>3. Grows(n)
        BY <2>1, <2>2 DEF Grows, StoreInv, Shape
    <2>4. Elsewhere(n) /\ Shape' /\ Counters' /\ Kept(n)'
        BY <2>1, <2>2 DEF Elsewhere, Shape, Counters, Kept, StoreInv
    <2>5. Stored' /\ OwnKnown' /\ OwnTimes'
        BY <2>2, StoresSame DEF StoreInv
    <2>6. Jobs(n)' /\ Pulls(n)'
        BY <2>2, <2>3, ChainStaysFit, PullsStayFit DEF StoreInv
    <2>7. QED
        BY <2>4, <2>5, <2>6, Assembled
<1>4. QED
    BY <1>1, <1>2, <1>3

(* A store is seeded or empty at first. *)
LEMMA InitStores ==
    ASSUME Init
    PROVE  \E start \in Starts :
            /\ rows = [n \in Nodes |-> IF n \in start.cold THEN {} ELSE rowsOf(Seeded(n))]
            /\ history = [n \in Nodes |-> IF n \in start.cold THEN {} ELSE historyOf(Seeded(n))]
            /\ changeSets = [n \in Nodes |-> IF n \in start.cold THEN {} ELSE seedChangeSets(n)]
            /\ held = changeSets
            /\ blobs = [n \in Nodes |-> IF n \in start.cold THEN {} ELSE {SeedImage}]
            /\ up = [n \in Nodes |-> IF n \in start.cold THEN "down" ELSE "serving"]
            /\ chain = [n \in Nodes |-> <<>>]
            /\ pulls = [n \in Nodes |-> {}]
            /\ clock = [n \in Nodes |-> 0]
            /\ calls = start.calls
            /\ faults = start.faults
            /\ leftOut = {}
BY DEF Init

(* The change sets of the seed are in a seeded store. *)
LEMMA SeedItems ==
    ASSUME NEW n
    PROVE  /\ IsFiniteSet(rowsOf(Seeded(n))) /\ IsFiniteSet(historyOf(Seeded(n)))
           /\ \A row \in rowsOf(Seeded(n)) : IsRow(row)
           /\ \A v \in historyOf(Seeded(n)) : v \in SeedVersions
           /\ \A changeSet \in seedChangeSets(n) :
                changeSet \subseteq rowsOf(Seeded(n)) \cup historyOf(Seeded(n))
<1>1. IsFiniteSet(rowsOf(Seeded(n))) /\ IsFiniteSet(historyOf(Seeded(n)))
    <2>1. rowsOf(Seeded(n)) \subseteq Seeded(n) /\ historyOf(Seeded(n)) \subseteq Seeded(n)
        BY DEF rowsOf, historyOf
    <2>2. QED
        BY <2>1, SeedIsFinite, FS_Subset
<1>2. \A row \in rowsOf(Seeded(n)) : IsRow(row)
    BY SeedContents, SeedPlaces
<1>3. \A v \in historyOf(Seeded(n)) : v \in SeedVersions
    BY SeedContents DEF SeedVersions
<1>4. \A changeSet \in seedChangeSets(n) :
            changeSet \subseteq rowsOf(Seeded(n)) \cup historyOf(Seeded(n))
    BY DEF Seeded, rowsOf, historyOf
<1>5. QED
    BY <1>1, <1>2, <1>3, <1>4

(* StoreInv holds at first. *)
LEMMA InitKeeps == Init => StoreInv
<1> SUFFICES ASSUME Init PROVE StoreInv
    OBVIOUS
<1>1. PICK start \in Starts :
            /\ rows = [n \in Nodes |-> IF n \in start.cold THEN {} ELSE rowsOf(Seeded(n))]
            /\ history = [n \in Nodes |-> IF n \in start.cold THEN {} ELSE historyOf(Seeded(n))]
            /\ changeSets = [n \in Nodes |-> IF n \in start.cold THEN {} ELSE seedChangeSets(n)]
            /\ held = changeSets
            /\ blobs = [n \in Nodes |-> IF n \in start.cold THEN {} ELSE {SeedImage}]
            /\ up = [n \in Nodes |-> IF n \in start.cold THEN "down" ELSE "serving"]
            /\ chain = [n \in Nodes |-> <<>>]
            /\ pulls = [n \in Nodes |-> {}]
            /\ clock = [n \in Nodes |-> 0]
            /\ calls = start.calls
            /\ faults = start.faults
            /\ leftOut = {}
    BY InitStores
<1>2. Shape
    BY <1>1 DEF Shape
<1>3. Counters
    <2>1. start.calls \in Nat /\ start.faults \in Nat
        BY StoreAssumption
    <2>2. QED
        BY <1>1, <2>1 DEF Counters
<1>4. ASSUME NEW n \in Nodes
      PROVE  /\ rows[n] = {} \/ rows[n] = rowsOf(Seeded(n))
             /\ history[n] = {} \/ history[n] = historyOf(Seeded(n))
             /\ \/ rows[n] = rowsOf(Seeded(n)) /\ history[n] = historyOf(Seeded(n))
                   /\ changeSets[n] = seedChangeSets(n)
                \/ changeSets[n] = {}
             /\ held[n] = changeSets[n] /\ chain[n] = <<>> /\ pulls[n] = {}
    BY <1>1
<1>5. ASSUME NEW n \in Nodes
      PROVE  /\ IsFiniteSet(rows[n]) /\ IsFiniteSet(history[n])
             /\ \A row \in rows[n] : IsRow(row)
             /\ \A v \in history[n] : v \in SeedVersions
    BY <1>4, SeedItems, FS_EmptySet
<1>6. Stored /\ OwnKnown
    BY <1>5, SeedVersionsAreVersions DEF Stored, OwnKnown
<1>7. OwnTimes
    <2>1. \A n \in Nodes : OwnVersions(n) = {}
        BY <1>5, SeedVersionsAreVersions, SeedIsNoNode DEF OwnVersions
    <2>2. QED
        BY <2>1 DEF OwnTimes
<1>8. ASSUME NEW n \in Nodes PROVE Kept(n) /\ Jobs(n) /\ Pulls(n)
    <2>1. Kept(n)
        <3>0. \/ /\ rows[n] = rowsOf(Seeded(n)) /\ history[n] = historyOf(Seeded(n))
                 /\ changeSets[n] = seedChangeSets(n)
              \/ changeSets[n] = {}
            BY <1>4
        <3>1. CASE changeSets[n] = {}
            BY <1>4, <3>1 DEF Kept
        <3>2. CASE /\ rows[n] = rowsOf(Seeded(n)) /\ history[n] = historyOf(Seeded(n))
                   /\ changeSets[n] = seedChangeSets(n)
            BY <1>4, <3>2, SeedItems DEF Kept
        <3>3. QED
            BY <3>0, <3>1, <3>2
    <2>2. Jobs(n)
        <3>1. IsSeq(<<>>) /\ DOMAIN <<>> = {}
            BY EmptySeq DEF IsSeq
        <3>2. QED
            BY <1>4, <3>1 DEF Jobs
    <2>3. Pulls(n)
        BY <1>4 DEF Pulls
    <2>4. QED
        BY <2>1, <2>2, <2>3
<1>9. QED
    BY <1>2, <1>3, <1>6, <1>7, <1>8 DEF StoreInv

(* It stays when nothing happens. *)
LEMMA StoreStays == StoreInv /\ UNCHANGED vars => StoreInv'
<1> SUFFICES ASSUME StoreInv, UNCHANGED vars PROVE StoreInv'
    OBVIOUS
<1>1. UNCHANGED <<rows, history, changeSets, held, blobs, up, chain, pulls, clock, calls, faults,
                  leftOut>>
    BY DEF vars, tables
<1>2. \A n \in Nodes : Grows(n)
    BY <1>1 DEF Grows
<1>3. \A n \in Nodes : Kept(n)' /\ Jobs(n)' /\ Pulls(n)'
    BY <1>1, <1>2, ChainStaysFit, PullsStayFit DEF StoreInv, Kept
<1>4. Stored' /\ OwnKnown' /\ OwnTimes'
    BY <1>1, StoresSame DEF StoreInv
<1>5. QED
    BY <1>1, <1>3, <1>4 DEF StoreInv, Counters, Shape

(* Every step keeps it. *)
LEMMA StoreSteps == StoreInv /\ Next => StoreInv'
<1> SUFFICES ASSUME StoreInv, Next PROVE StoreInv'
    OBVIOUS
<1>1. PICK n \in Nodes :
        \/ Call(n) \/ Boot(n) \/ Serves(n) \/ Crash(n) \/ PullItems(n)
        \/ ReadInvoice(n) \/ ReadVersion(n) \/ ReadImage(n)
        \/ \E i \in DOMAIN chain[n] : JobStep(n, i)
        \/ \E pull \in pulls[n] : PullStep(n, pull)
    BY DEF Next
<1>2. ASSUME NEW i \in DOMAIN chain[n], JobStep(n, i) PROVE StoreInv'
    BY <1>2, BeginKeeps, WriteRowKeeps, WriteHistoryKeeps, WriteSeedHistoryKeeps, StoreImageKeeps,
        PlanPairingsKeeps, WriteChangeSetKeeps, RecordChangeSetKeeps DEF JobStep
<1>3. ASSUME NEW pull \in pulls[n], PullStep(n, pull) PROVE StoreInv'
    BY <1>3, PullDependencyKeeps, LeaveDependencyKeeps, PullBlobsKeeps, WriteReceivedKeeps,
        RecordReceivedKeeps DEF PullStep
<1>4. QED
    BY <1>1, <1>2, <1>3, CallKeeps, BootKeeps, ServesKeeps, CrashKeeps, PullItemsKeeps, ReadsKeep

(* The inductive invariant of the stores always holds: every row and history row in a store is *)
(* one that the API, the seed or a peer wrote, a node knows all its own versions, and what it  *)
(* still has to write fits what it has.                                                        *)
THEOREM StoreInvariant == Spec => []StoreInv
<1>1. Init => StoreInv
    BY InitKeeps
<1>2. StoreInv /\ [Next]_vars => StoreInv'
    BY StoreSteps, StoreStays
<1>3. QED
    BY <1>1, <1>2, PTL DEF Spec

(* The state always has its types: history rows are of a node or of the seed, only recorded    *)
(* change sets are held, calls are calls of the API or the seed, and a pull never follows more *)
(* than it met or fetches more than its bound.                                                 *)
THEOREM StoreTypeCorrect == Spec => []TypeOK
BY StoreInvariant, StoreInvTypes, PTL

(* The version that the running call of a node writes next. *)
NextVersion(n) ==
    HistoryRow(timeId(n), Head(chain[n][1].todo).row, Head(chain[n][1].todo).previous, "api")

(* How stores grow: by copies, by the seed, and by a version of their own. *)
LEMMA StoresGrow ==
    ASSUME StoreInv, Next, NEW m \in Nodes
    PROVE  /\ rows[m] \subseteq rows'[m] /\ history[m] \subseteq history'[m]
           /\ \A v \in history'[m] :
                \/ v \in Versions \/ v \in SeedVersions
                \/ 1 \in DOMAIN chain[m] /\ WriteHistory(m, 1) /\ v = NextVersion(m)
<1>1. PICK n \in Nodes :
        \/ Call(n) \/ Boot(n) \/ Serves(n) \/ Crash(n) \/ PullItems(n)
        \/ ReadInvoice(n) \/ ReadVersion(n) \/ ReadImage(n)
        \/ \E i \in DOMAIN chain[n] : JobStep(n, i)
        \/ \E pull \in pulls[n] : PullStep(n, pull)
    BY DEF Next
<1> DEFINE Grown ==
        /\ rows[m] \subseteq rows'[m] /\ history[m] \subseteq history'[m]
        /\ \A v \in history'[m] :
                \/ v \in Versions \/ v \in SeedVersions
                \/ 1 \in DOMAIN chain[m] /\ WriteHistory(m, 1) /\ v = NextVersion(m)
<1>0. history[m] \subseteq Versions /\ \A p \in Nodes : history[p] \subseteq Versions
    BY DEF Versions
<1>2. ASSUME history' = history, rows[m] \subseteq rows'[m] PROVE Grown
    BY <1>0, <1>2
<1>3. CASE Call(n) \/ Boot(n) \/ Serves(n) \/ Crash(n)
    BY <1>2, <1>3 DEF Call, Boot, Serves, Crash, tables
<1>4. CASE ReadInvoice(n) \/ ReadVersion(n) \/ ReadImage(n)
    <2>1. history' = history
        BY <1>4 DEF ReadInvoice, ReadVersion, ReadImage, tables
    <2>2. rows' = rows \/ \E cached : rows' = [rows EXCEPT ![n] = @ \cup cached]
        BY <1>4 DEF ReadInvoice, ReadVersion, ReadImage, tables, readMatching
    <2>3. rows[m] \subseteq rows'[m]
        BY <2>2 DEF StoreInv, Shape
    <2>4. QED
        BY <1>2, <2>1, <2>3
<1>5. ASSUME NEW others, NEW pull, NEW items, WithItems(n, others, pull, items),
             \A v \in historyOf(items) : v \in Versions
      PROVE  Grown
    <2>1. /\ rows' = [rows EXCEPT ![n] = rows[n] \cup rowsOf(items)]
          /\ history' = [history EXCEPT ![n] = history[n] \cup historyOf(items)]
        BY <1>5 DEF WithItems
    <2>2. /\ rows'[m] = rows[m] \/ rows'[m] = rows[m] \cup rowsOf(items)
          /\ history'[m] = history[m] \/ history'[m] = history[m] \cup historyOf(items)
        BY <2>1 DEF StoreInv, Shape
    <2>3. QED
        BY <1>0, <1>5, <2>2
<1>6. CASE PullItems(n)
    <2>1. PICK p, changeSet, pull :
        /\ p \in Peers(n) /\ changeSet \in held[p]
        /\ WithItems(n, pulls[n], pull, changeSet)
        BY <1>6 DEF PullItems
    <2>2. p \in Nodes /\ changeSet \subseteq rows[p] \cup history[p]
        BY <2>1 DEF Peers, StoreInv, Kept
    <2>3. historyOf(changeSet) \subseteq history[p]
        BY <2>2, ChangeSetParts DEF StoreInv
    <2>4. QED
        BY <1>0, <1>5, <2>1, <2>2, <2>3
<1>7. ASSUME NEW i \in DOMAIN chain[n], JobStep(n, i) PROVE Grown
    <2>1. CASE WriteRow(n, i)
        <3>1. history' = history /\ \E row : rows' = [rows EXCEPT ![n] = @ \cup {row}]
            BY <2>1 DEF WriteRow
        <3>2. rows[m] \subseteq rows'[m]
            BY <3>1 DEF StoreInv, Shape
        <3>3. QED
            BY <1>2, <3>1, <3>2
    <2>2. CASE WriteHistory(n, i)
        <3>1. i = 1
            BY <2>2 DEF WriteHistory, Writes, pendingWrite
        <3>2. rows' = rows /\ history' = [history EXCEPT ![n] = @ \cup {NextVersion(n)}]
            BY <2>2, <3>1 DEF WriteHistory, AddHistory, NextVersion
        <3>3. history'[m] = history[m] \/ (m = n /\ history'[m] = history[m] \cup {NextVersion(m)})
            BY <3>2 DEF StoreInv, Shape
        <3>4. QED
            BY <1>0, <1>7, <2>2, <3>1, <3>2, <3>3
    <2>3. CASE WriteSeedHistory(n, i)
        <3>1. i = 1 /\ Writes(n, 1, "seed")
            BY <2>3 DEF WriteSeedHistory, Writes, pendingWrite
        <3>2. PICK write : write = Head(chain[n][1].todo)
            OBVIOUS
        <3>3. PICK version : version = HistoryRow(seedTimeId(n, write.sequence), write.row, {}, "seed")
            OBVIOUS
        <3>4. version \in SeedVersions
            BY <1>7, <3>1, <3>2, <3>3, JobWriting DEF StoreInv, JobWrite, FreshWrite
        <3>5. rows' = rows /\ history' = [history EXCEPT ![n] = @ \cup {version}]
            BY <2>3, <3>1, <3>2, <3>3 DEF WriteSeedHistory, AddHistory
        <3>6. history'[m] = history[m] \/ history'[m] = history[m] \cup {version}
            BY <3>5 DEF StoreInv, Shape
        <3>7. QED
            BY <1>0, <3>4, <3>5, <3>6
    <2>4. CASE \/ Begin(n, i) \/ StoreImage(n, i) \/ PlanPairings(n, i) \/ WriteChangeSet(n, i)
               \/ RecordChangeSet(n, i)
        BY <1>2, <2>4 DEF Begin, StoreImage, PlanPairings, WriteChangeSet, RecordChangeSet, tables
    <2>5. QED
        BY <1>7, <2>1, <2>2, <2>3, <2>4 DEF JobStep
<1>8. ASSUME NEW pull \in pulls[n], PullStep(n, pull) PROVE Grown
    <2>1. CASE PullDependency(n, pull)
        <3> DEFINE reference == NextReference(pull)
                   served == UNION {Found(rows[p], history[p], reference) : p \in Peers(n)}
                   item == (CHOOSE j \in served : TRUE)
        <3>1. \/ UNCHANGED <<rows, history>>
              \/ served # {} /\ \E others, next : WithItems(n, others, next, {item})
            BY <2>1 DEF PullDependency
        <3>2. ASSUME served # {}, NEW others, NEW next, WithItems(n, others, next, {item})
              PROVE  Grown
            <4>1. item \in served
                BY <3>2
            <4> HIDE DEF item
            <4>2. PICK p \in Peers(n) : item \in Found(rows[p], history[p], reference)
                BY <4>1
            <4>3. PICK items : items = {item}
                OBVIOUS
            <4>4. items \subseteq rows[p] \cup history[p] /\ p \in Nodes
                BY <4>2, <4>3 DEF Found, Peers
            <4>5. historyOf(items) \subseteq history[p]
                BY <4>4, ChangeSetParts DEF StoreInv
            <4>6. WithItems(n, others, next, items)
                BY <3>2, <4>3
            <4>7. QED
                BY <1>0, <1>5, <4>4, <4>5, <4>6
        <3> HIDE DEF served, item
        <3>3. QED
            BY <1>2, <3>1, <3>2
    <2>2. CASE \/ LeaveDependency(n, pull) \/ PullBlobs(n, pull) \/ WriteReceived(n, pull)
               \/ RecordReceived(n, pull)
        BY <1>2, <2>2 DEF LeaveDependency, PullBlobs, WriteReceived, RecordReceived, tables
    <2>3. QED
        BY <1>8, <2>1, <2>2 DEF PullStep
<1>9. QED
    BY <1>1, <1>3, <1>4, <1>6, <1>7, <1>8

(* Nobody but the node itself adds to its own versions. *)
LEMMA OwnVersionsGrow ==
    ASSUME StoreInv, Next, NEW n \in Nodes, NEW v \in history'[n], v.timeId.unique = n
    PROVE  \/ v \in OwnVersions(n)
           \/ 1 \in DOMAIN chain[n] /\ WriteHistory(n, 1) /\ v = NextVersion(n)
<1>1. CASE v \in Versions
    <2>1. PICK m \in Nodes : v \in history[m]
        BY <1>1 DEF Versions
    <2>2. v \in history[n]
        BY <2>1, SeedIsNoNode DEF StoreInv, OwnKnown
    <2>3. QED
        BY <2>2 DEF OwnVersions
<1>2. CASE v \in SeedVersions
    BY <1>2, SeedVersionsAreVersions, SeedIsNoNode
<1>3. QED
    BY <1>1, <1>2, StoresGrow

(* A node writes a version of its own only when the image that the row names is in its blob *)
(* store (updateSpeciesImage stores the upload first), whatever ran or crashed in between.  *)
THEOREM ImageBeforeItsVersion == Spec => ImageBeforeVersion
<1> DEFINE Step == \A n \in Nodes : \A version \in history'[n] \ history[n] :
                    version.timeId.unique = n => blobReferencesOf(version.row) \subseteq blobs[n]
<1>1. StoreInv /\ [Next]_vars => [Step]_vars
    <2> SUFFICES ASSUME StoreInv, Next PROVE Step
        OBVIOUS
    <2> SUFFICES ASSUME NEW n \in Nodes, NEW version \in history'[n] \ history[n],
                        version.timeId.unique = n
                 PROVE  blobReferencesOf(version.row) \subseteq blobs[n]
        OBVIOUS
    <2>1. /\ 1 \in DOMAIN chain[n] /\ WriteHistory(n, 1) /\ version = NextVersion(n)
        BY OwnVersionsGrow DEF OwnVersions
    <2>2. PICK s : s = chain[n][1].todo
        OBVIOUS
    <2>3. /\ JobWrite(n, s, 1, chain[n][1].items) /\ s[1].do = "history" /\ Head(s) = s[1]
        BY <2>1, <2>2, JobWriting DEF WriteHistory, StoreInv
    <2>4. \/ blobReferencesOf(s[1].row) \subseteq blobs[n]
          \/ \E j \in 1 .. 1 - 1 : s[j].do = "blob"
        BY <2>3 DEF JobWrite, FreshWrite
    <2>5. version.row = s[1].row
        BY <2>1, <2>2, <2>3 DEF NextVersion, HistoryRow
    <2>6. QED
        BY <2>4, <2>5
<1>2. QED
    BY <1>1, StoreInvariant, PTL DEF Spec, ImageBeforeVersion

-----------------------------------------------------------------------------
(* Where the jobs of a node come from in a step. *)
SameJob(m, job) == Running(m, chain[m][1]) /\ job = chain[m][1]

(* The job after its first write. *)
RestJob(m, job) ==
    LET s == chain[m][1].todo
        items == chain[m][1].items
    IN  /\ Running(m, chain[m][1])
        /\ job.todo = Tail(s)
        /\ s[1].do \in {"row", "history", "seed", "blob", "changeSet", "held"}
        /\ s[1].do = "row" => s[1].row \in rows'[m] /\ job.items = items \cup {s[1].row}
        /\ s[1].do \in {"history", "seed"} =>
                \E v : IsHistoryRow(v) /\ job.items = items \cup {v}
        /\ s[1].do \in {"blob", "changeSet"} => job.items = items
        /\ s[1].do = "held" => job.items = {}

(* The job with the plan it begins with. *)
BegunJob(m, job) ==
    /\ Waiting(chain[m][1])
    /\ job.todo = plan(m, chain[m][1].call)
    /\ job.items = {}
    /\ UNCHANGED tables

(* The job with the plan of its pairings. *)
PairingsJob(m, job) ==
    /\ Running(m, chain[m][1])
    /\ chain[m][1].todo[1].do = "pairings"
    /\ job.todo = writePairings(m, chain[m][1].todo[1].animal) \o recordChangeSet
    /\ job.items = chain[m][1].items
    /\ UNCHANGED tables

(* The job of a start. *)
SeedingJob(job) == job.todo = writeSeedPart /\ job.items = {}

(* A job that goes on with the running call. *)
Continues(m, job) == SameJob(m, job) \/ RestJob(m, job) \/ BegunJob(m, job) \/ PairingsJob(m, job)

(* A job that is in the chain after a step. *)
Comes(m, i, job) ==
    \/ job.todo = <<>>
    \/ i = 1 /\ 1 \in DOMAIN chain[m] /\ Continues(m, job)
    \/ i = 1 /\ SeedingJob(job)

(* They are such jobs in a chain that stays. *)
LEMMA SameChain ==
    ASSUME NEW m, Jobs(m), chain'[m] = chain[m]
    PROVE  \A i \in DOMAIN chain'[m] : \E job : job = chain'[m][i] /\ Comes(m, i, job)
<1> SUFFICES ASSUME NEW i \in DOMAIN chain[m] PROVE Comes(m, i, chain[m][i])
    OBVIOUS
<1>1. PICK job : job = chain[m][i]
    OBVIOUS
<1>2. CASE Waiting(job)
    BY <1>1, <1>2 DEF Comes, Waiting
<1>3. CASE i = 1 /\ Running(m, job)
    BY <1>1, <1>3 DEF Comes, Continues, SameJob
<1>4. QED
    BY <1>1, <1>2, <1>3 DEF Jobs, JobFits

(* They are in one whose first job moves on. *)
LEMMA MovedChain ==
    ASSUME NEW m, NEW job, Moved(m, chain'[m], job), 1 \in DOMAIN chain[m],
           job.todo = <<>> \/ Continues(m, job)
    PROVE  \A i \in DOMAIN chain'[m] : \E x : x = chain'[m][i] /\ Comes(m, i, x)
<1> SUFFICES ASSUME NEW i \in DOMAIN chain'[m], NEW x, x = chain'[m][i] PROVE Comes(m, i, x)
    OBVIOUS
<1>1. Waiting(x) \/ (i = 1 /\ x = job)
    BY DEF Moved
<1>2. QED
    BY <1>1 DEF Comes, Waiting

(* A write moves the first job of its node on and no other. *)
LEMMA WritingChain ==
    ASSUME StoreInv, NEW n \in Nodes, NEW i \in DOMAIN chain[n],
           \/ WriteRow(n, i) \/ WriteHistory(n, i) \/ WriteSeedHistory(n, i)
           \/ StoreImage(n, i) \/ WriteChangeSet(n, i) \/ RecordChangeSet(n, i)
    PROVE  /\ i = 1
           /\ \E job : RestJob(n, job) /\ Moved(n, chain'[n], job)
           /\ \A m \in Nodes \ {n} : chain'[m] = chain[m]
<1>1. i = 1
    BY DEF WriteRow, WriteHistory, WriteSeedHistory, StoreImage, WriteChangeSet, RecordChangeSet,
        Writes, pendingWrite
<1>2. PICK before : before = chain[n][1]
    OBVIOUS
<1> DEFINE s == before.todo
<1>3. ASSUME NEW kind, kind \in {"row", "history", "seed", "blob", "changeSet", "held"},
             NEW items, Writes(n, 1, kind), Done(n, 1, items),
             kind = "row" => s[1].row \in rows'[n] /\ items = before.items \cup {s[1].row},
             kind \in {"history", "seed"} =>
                \E v : IsHistoryRow(v) /\ items = before.items \cup {v},
             kind \in {"blob", "changeSet"} => items = before.items,
             kind = "held" => items = {}
      PROVE  /\ \E job : RestJob(n, job) /\ Moved(n, chain'[n], job)
             /\ \A m \in Nodes \ {n} : chain'[m] = chain[m]
    <2>1. PICK job : job = Rest(before, items)
        OBVIOUS
    <2>2. Moved(n, chain'[n], job) /\ \A m \in Nodes \ {n} : chain'[m] = chain[m]
        BY <1>1, <1>2, <1>3, <2>1, WriteMoves DEF StoreInv
    <2>3. Running(n, before) /\ s[1].do = kind
        BY <1>1, <1>2, <1>3, JobWriting DEF StoreInv
    <2>4. job.todo = Tail(s) /\ job.items = items
        BY <2>1 DEF Rest, JobRecord
    <2>5. RestJob(n, job)
        BY <1>2, <1>3, <2>3, <2>4 DEF RestJob
    <2>6. QED
        BY <2>2, <2>5
<1>4. ASSUME NEW kind, Writes(n, 1, kind) PROVE Head(s) = s[1]
    BY <1>1, <1>2, <1>4, JobWriting DEF StoreInv
<1>5. CASE WriteRow(n, i)
    <2>1. PICK items : items = before.items \cup {Head(s).row}
        OBVIOUS
    <2>2. /\ Writes(n, 1, "row") /\ Done(n, 1, items)
          /\ rows' = [rows EXCEPT ![n] = @ \cup {Head(s).row}]
        BY <1>1, <1>2, <1>5, <2>1 DEF WriteRow
    <2>3. Head(s) = s[1] /\ s[1].row \in rows'[n]
        BY <1>4, <2>2 DEF StoreInv, Shape
    <2>4. items = before.items \cup {s[1].row}
        BY <2>1, <2>3
    <2>5. QED
        BY <1>1, <1>3, <2>2, <2>3, <2>4
<1>6. CASE WriteHistory(n, i) \/ WriteSeedHistory(n, i)
    <2>1. PICK v, items, kind : /\ IsHistoryRow(v) /\ items = before.items \cup {v}
                                /\ kind \in {"history", "seed"}
                                /\ Writes(n, 1, kind) /\ Done(n, 1, items)
        <3>1. CASE WriteHistory(n, i)
            <4>1. PICK v : v = HistoryRow(timeId(n), Head(s).row, Head(s).previous, "api")
                OBVIOUS
            <4>2. PICK items : items = before.items \cup {v}
                OBVIOUS
            <4>3. IsHistoryRow(v)
                BY <4>1 DEF IsHistoryRow, HistoryRow
            <4>4. Writes(n, 1, "history") /\ Done(n, 1, items)
                BY <1>1, <1>2, <3>1, <4>1, <4>2 DEF WriteHistory, AddHistory
            <4>5. QED
                BY <4>2, <4>3, <4>4
        <3>2. CASE WriteSeedHistory(n, i)
            <4>1. PICK v : v = HistoryRow(seedTimeId(n, Head(s).sequence), Head(s).row, {}, "seed")
                OBVIOUS
            <4>2. PICK items : items = before.items \cup {v}
                OBVIOUS
            <4>3. IsHistoryRow(v)
                BY <4>1 DEF IsHistoryRow, HistoryRow
            <4>4. Writes(n, 1, "seed") /\ Done(n, 1, items)
                BY <1>1, <1>2, <3>2, <4>1, <4>2 DEF WriteSeedHistory, AddHistory
            <4>5. QED
                BY <4>2, <4>3, <4>4
        <3>3. QED
            BY <1>6, <3>1, <3>2
    <2>2. /\ kind \in {"row", "history", "seed", "blob", "changeSet", "held"}
          /\ kind # "row" /\ kind \notin {"blob", "changeSet"} /\ kind # "held"
        BY <2>1
    <2>3. QED
        BY <1>1, <1>3, <2>1, <2>2
<1>7. CASE StoreImage(n, i) \/ WriteChangeSet(n, i)
    <2>1. PICK items, kind : /\ items = before.items /\ kind \in {"blob", "changeSet"}
                             /\ Writes(n, 1, kind) /\ Done(n, 1, items)
        BY <1>1, <1>2, <1>7 DEF StoreImage, WriteChangeSet
    <2>2. /\ kind \in {"row", "history", "seed", "blob", "changeSet", "held"}
          /\ kind # "row" /\ kind \notin {"history", "seed"} /\ kind # "held"
        BY <2>1
    <2>3. QED
        BY <1>1, <1>3, <2>1, <2>2
<1>8. CASE RecordChangeSet(n, i)
    <2>1. PICK items : items = {} /\ Writes(n, 1, "held") /\ Done(n, 1, items)
        BY <1>1, <1>8 DEF RecordChangeSet
    <2>2. QED
        BY <1>1, <1>3, <2>1
<1>9. QED
    BY <1>5, <1>6, <1>7, <1>8

(* After every step each job of a node is such a job. *)
LEMMA ChainSteps ==
    ASSUME StoreInv, Next, NEW m \in Nodes
    PROVE  \A i \in DOMAIN chain'[m] : \E job : job = chain'[m][i] /\ Comes(m, i, job)
<1>1. PICK n \in Nodes :
        \/ Call(n) \/ Boot(n) \/ Serves(n) \/ Crash(n) \/ PullItems(n)
        \/ ReadInvoice(n) \/ ReadVersion(n) \/ ReadImage(n)
        \/ \E i \in DOMAIN chain[n] : JobStep(n, i)
        \/ \E pull \in pulls[n] : PullStep(n, pull)
    BY DEF Next
<1> DEFINE Goal == \A i \in DOMAIN chain'[m] : \E job : job = chain'[m][i] /\ Comes(m, i, job)
<1>2. ASSUME chain'[m] = chain[m] PROVE Goal
    BY <1>2, SameChain DEF StoreInv
<1>3. CASE \/ Serves(n) \/ PullItems(n) \/ ReadInvoice(n) \/ ReadVersion(n) \/ ReadImage(n)
           \/ \E pull \in pulls[n] : PullStep(n, pull)
    <2>1. chain' = chain
        BY <1>3 DEF Serves, PullItems, ReadInvoice, ReadVersion, ReadImage, PullStep,
            PullDependency, LeaveDependency, PullBlobs, WriteReceived, RecordReceived
    <2>2. QED
        BY <1>2, <2>1
<1>4. CASE Call(n)
    <2>1. PICK call, job, s : /\ job = Job(call, FALSE, <<>>) /\ s = chain[n]
                              /\ chain' = [chain EXCEPT ![n] = Append(s, job)]
        BY <1>4 DEF Call
    <2>2. CASE m # n
        BY <1>2, <2>1, <2>2 DEF StoreInv, Shape
    <2>3. CASE m = n
        <3>1. PICK t : t = Append(s, job)
            OBVIOUS
        <3>2. IsSeq(s)
            BY <2>1 DEF StoreInv, Jobs
        <3>3. \A k \in DOMAIN t : (k \in DOMAIN s /\ t[k] = s[k]) \/ t[k] = job
            BY <3>1, <3>2, AppendFacts
        <3>4. chain'[m] = t
            BY <2>1, <2>3, <3>1 DEF StoreInv, Shape
        <3>5. \A i \in DOMAIN s : Waiting(s[i]) \/ (i = 1 /\ Running(n, s[1]))
            BY <2>1 DEF StoreInv, Jobs, JobFits
        <3>6. ASSUME NEW i \in DOMAIN t PROVE Comes(m, i, t[i])
            <4>1. CASE t[i] = job
                BY <2>1, <4>1 DEF Comes, Job
            <4>2. CASE i \in DOMAIN s /\ t[i] = s[i] /\ Waiting(s[i])
                BY <4>2 DEF Comes, Waiting
            <4>3. CASE i \in DOMAIN s /\ t[i] = s[i] /\ i = 1 /\ Running(n, s[1])
                BY <2>1, <2>3, <4>3 DEF Comes, Continues, SameJob
            <4>4. QED
                BY <3>3, <3>5, <4>1, <4>2, <4>3
        <3>7. QED
            BY <3>4, <3>6
    <2>4. QED
        BY <2>2, <2>3
<1>5. CASE Boot(n) \/ Crash(n)
    <2>1. /\ m # n => chain'[m] = chain[m]
          /\ m = n => chain'[m] = <<>> \/ chain'[m] = <<SeedJob>>
        BY <1>5 DEF Boot, Crash, StoreInv, Shape
    <2>2. ASSUME m = n, NEW i \in DOMAIN chain'[m], NEW job, job = chain'[m][i] PROVE Comes(m, i, job)
        <3>1. i = 1 /\ job = SeedJob
            BY <2>1, <2>2
        <3>2. QED
            BY <3>1 DEF Comes, SeedingJob, SeedJob, Job
    <2>3. QED
        BY <1>2, <2>1, <2>2
<1>6. ASSUME NEW i \in DOMAIN chain[n], JobStep(n, i) PROVE Goal
    <2>0. ASSUME m # n, chain'[m] = chain[m] PROVE Goal
        BY <1>2, <2>0
    <2>1. CASE \/ WriteRow(n, i) \/ WriteHistory(n, i) \/ WriteSeedHistory(n, i)
               \/ StoreImage(n, i) \/ WriteChangeSet(n, i) \/ RecordChangeSet(n, i)
        <3>1. /\ i = 1
              /\ \E job : RestJob(n, job) /\ Moved(n, chain'[n], job)
              /\ m # n => chain'[m] = chain[m]
            BY <1>6, <2>1, WritingChain
        <3>2. QED
            BY <1>2, <1>6, <3>1, MovedChain DEF Continues
    <2>2. CASE Begin(n, i)
        <3>1. i = 1 /\ ~chain[n][1].begun
            BY <2>2 DEF Begin, pendingWrite
        <3>2. PICK before, b, c, todo : /\ before = chain[n][1] /\ b = FALSE /\ c = TRUE
                                        /\ todo = plan(n, before.call)
            OBVIOUS
        <3>3. Waiting(before)
            <4>1. Waiting(before) \/ Running(n, before)
                BY <1>6, <3>1, <3>2 DEF StoreInv, Jobs, JobFits
            <4>2. Running(n, before) => before.begun = TRUE
                BY DEF Running
            <4>3. QED
                BY <3>1, <3>2, <4>1, <4>2
        <3>4. PICK job : job = JobRecord(before.call, c, todo, before.items)
            OBVIOUS
        <3>5. WithJob(n, 1, job)
            <4>1. WithJob(n, 1, BegunTodoSet(before, c, todo))
                BY <2>2, <3>1, <3>2 DEF Begin, BegunTodoSet
            <4>2. before = JobRecord(before.call, b, before.todo, before.items)
                <5>1. before = JobRecord(before.call, FALSE, <<>>, {})
                    BY <3>3 DEF Waiting, JobRecord
                <5>2. before.todo = <<>> /\ before.items = {}
                    BY <3>3 DEF Waiting
                <5>3. QED
                    BY <3>2, <5>1, <5>2
            <4>3. BegunTodoSet(before, c, todo) = job
                BY <3>4, <4>2, JobWith
            <4>4. QED
                BY <4>1, <4>3
        <3>6. Moved(n, chain'[n], job) /\ (m # n => chain'[m] = chain[m])
            BY <1>6, <3>1, <3>5, JobMoves DEF StoreInv
        <3>7. BegunJob(n, job)
            BY <2>2, <3>2, <3>3, <3>4 DEF BegunJob, JobRecord, Waiting, Begin
        <3>8. QED
            BY <1>2, <1>6, <3>1, <3>6, <3>7, MovedChain DEF Continues
    <2>3. CASE PlanPairings(n, i)
        <3>1. i = 1 /\ Writes(n, 1, "pairings")
            BY <2>3 DEF PlanPairings, Writes, pendingWrite
        <3>2. PICK before, b, todo : /\ before = chain[n][1] /\ b = TRUE
                    /\ todo = writePairings(n, Head(before.todo).animal) \o recordChangeSet
            OBVIOUS
        <3>3. Running(n, before) /\ Head(before.todo) = before.todo[1] /\ before.todo[1].do = "pairings"
            BY <1>6, <3>1, <3>2, JobWriting DEF StoreInv
        <3>4. PICK job : job = JobRecord(before.call, b, todo, before.items)
            OBVIOUS
        <3>5. WithJob(n, 1, job)
            <4>1. WithJob(n, 1, TodoSet(before, todo))
                BY <2>3, <3>1, <3>2 DEF PlanPairings, TodoSet
            <4>2. before = JobRecord(before.call, b, before.todo, before.items)
                BY <3>2, <3>3 DEF Running, JobRecord
            <4>3. TodoSet(before, todo) = job
                BY <3>4, <4>2, JobWith
            <4>4. QED
                BY <4>1, <4>3
        <3>6. Moved(n, chain'[n], job) /\ (m # n => chain'[m] = chain[m])
            BY <1>6, <3>1, <3>5, JobMoves DEF StoreInv
        <3>7. PairingsJob(n, job)
            BY <2>3, <3>2, <3>3, <3>4 DEF PairingsJob, JobRecord, PlanPairings
        <3>8. QED
            BY <1>2, <1>6, <3>1, <3>6, <3>7, MovedChain DEF Continues
    <2>4. QED
        BY <1>6, <2>1, <2>2, <2>3 DEF JobStep
<1>7. QED
    BY <1>1, <1>3, <1>4, <1>5, <1>6

-----------------------------------------------------------------------------
(* No node forks by its own writes. *)

(* The row is in the store, or the plan writes it before its k-th write. *)
HasRow(n, s, k, row) ==
    row \in rows[n] \/ \E j \in 1 .. k - 1 : s[j].do = "row" /\ s[j].row = row

(* The item of an invoice comes with an invoice of the same number. *)
Numbered(n, s, k, row) ==
    row.id[1] = "invoiceItems" =>
        \E invoice : HasRow(n, s, k, invoice) /\ invoice.id = <<"invoices", row.id[2]>>

(* What a history row is to supersede is in the store. *)
Known(n, previous) == previous \subseteq {w.timeId : w \in history[n]}

(* A new version of the row's entity forks with no version of the node. *)
Apart(n, id, previous) ==
    \A v \in OwnVersions(n) : v.row.id = id =>
        v.previous \cap previous = {} /\ v.previous # previous

(* The history row planned at k: its row is written before it, what it supersedes is in the *)
(* store, it forks with no version of the node, and the plan has no other of its entity.    *)
OwnWrite(n, s, k) ==
    /\ HasRow(n, s, k, s[k].row)
    /\ Numbered(n, s, k, s[k].row)
    /\ Known(n, s[k].previous)
    /\ Apart(n, s[k].row.id, s[k].previous)
    /\ \A j \in DOMAIN s : s[j].do = "history" /\ j # k => s[j].row.id # s[k].row.id

(* All history rows of a plan are such ones. *)
OwnPlan(n, s) == \A k \in DOMAIN s : s[k].do = "history" => OwnWrite(n, s, k)

(* What a version supersedes is a version of some store. *)
PreviousKnown == \A n \in Nodes : \A v \in history[n] :
    v.previous \subseteq {w.timeId : w \in Versions}

(* A version that no version of the set supersedes.  Every set of versions has one: versions *)
(* never supersede each other in a circle.                                                   *)
HasTip(X) == \E x \in X : \A y \in X : x.timeId \notin y.previous
Acyclic == \A X \in SUBSET Versions : X # {} => HasTip(X)

(* The rows of own versions are in the store, and with an invoice item an invoice of its *)
(* number.                                                                               *)
OwnRows == \A n \in Nodes : \A v \in OwnVersions(n) :
    /\ v.row \in rows[n]
    /\ v.row.id[1] = "invoiceItems" =>
        \E invoice \in rows[n] : invoice.id = <<"invoices", v.row.id[2]>>

(* Every plan of a node is such a plan. *)
OwnPlans == \A n \in Nodes : \A i \in DOMAIN chain[n] : OwnPlan(n, chain[n][i].todo)

(* The inductive invariant that a node never forks its own versions. *)
ForkInv == PreviousKnown /\ Acyclic /\ OwnRows /\ OwnPlans /\ OwnWritesNeverFork

(* What keeps a plan while the store grows. *)
LEMMA PlanStays ==
    ASSUME NEW n, NEW s, OwnPlan(n, s), rows[n] \subseteq rows'[n], history[n] \subseteq history'[n],
           OwnVersions(n)' \subseteq OwnVersions(n)
    PROVE  OwnPlan(n, s)'
<1>1. ASSUME NEW k, NEW row, HasRow(n, s, k, row) PROVE HasRow(n, s, k, row)'
    BY <1>1 DEF HasRow
<1>2. ASSUME NEW k, OwnWrite(n, s, k) PROVE OwnWrite(n, s, k)'
    <2>1. HasRow(n, s, k, s[k].row)'
        BY <1>1, <1>2 DEF OwnWrite
    <2>2. Numbered(n, s, k, s[k].row)'
        BY <1>1, <1>2 DEF OwnWrite, Numbered
    <2>3. Known(n, s[k].previous)'
        BY <1>2 DEF OwnWrite, Known
    <2>4. Apart(n, s[k].row.id, s[k].previous)'
        BY <1>2 DEF OwnWrite, Apart
    <2>5. QED
        BY <1>2, <2>1, <2>2, <2>3, <2>4 DEF OwnWrite
<1>3. QED
    BY <1>2 DEF OwnPlan

(* What is left of a plan when its first write is done. *)
LEMMA PlanShrinks ==
    ASSUME NEW n, NEW s, IsSeq(s), s # <<>>, OwnPlan(n, s),
           rows[n] \subseteq rows'[n], history[n] \subseteq history'[n],
           s[1].do = "row" => s[1].row \in rows'[n],
           \A v \in OwnVersions(n)' :
                v \in OwnVersions(n) \/ (s[1].do = "history" /\ v.row.id = s[1].row.id)
    PROVE  OwnPlan(n, Tail(s))'
<1>1. PICK t : t = Tail(s)
    OBVIOUS
<1>2. /\ \A k \in DOMAIN t : k \in Nat \ {0} /\ k + 1 \in DOMAIN s /\ t[k] = s[k + 1]
      /\ DOMAIN t = 1 .. Len(t) /\ Len(t) = Len(s) - 1 /\ DOMAIN s = 1 .. Len(s) /\ Len(s) \in Nat
      /\ 1 \in DOMAIN s
    BY <1>1, TailFacts, SeqFacts
<1>3. ASSUME NEW k \in DOMAIN t, NEW row, HasRow(n, s, k + 1, row) PROVE HasRow(n, t, k, row)'
    <2>1. CASE row \in rows[n]
        BY <2>1 DEF HasRow
    <2>2. CASE \E j \in 1 .. k + 1 - 1 : s[j].do = "row" /\ s[j].row = row
        <3>1. PICK j \in 1 .. k + 1 - 1 : s[j].do = "row" /\ s[j].row = row
            BY <2>2
        <3>2. CASE j = 1
            BY <3>1, <3>2 DEF HasRow
        <3>3. CASE j # 1
            <4>1. j - 1 \in DOMAIN t /\ j - 1 \in 1 .. k - 1
                BY <1>2, <3>1, <3>3
            <4>2. t[j - 1] = s[j]
                BY <1>2, <3>1, <4>1
            <4>3. QED
                BY <3>1, <4>1, <4>2 DEF HasRow
        <3>4. QED
            BY <3>2, <3>3
    <2>3. QED
        BY <1>3, <2>1, <2>2 DEF HasRow
<1>4. ASSUME NEW k \in DOMAIN t, t[k].do = "history" PROVE OwnWrite(n, t, k)'
    <2>1. k + 1 \in DOMAIN s /\ t[k] = s[k + 1] /\ OwnWrite(n, s, k + 1) /\ k + 1 # 1
        BY <1>2, <1>4 DEF OwnPlan
    <2>2. HasRow(n, t, k, t[k].row)'
        BY <1>3, <2>1 DEF OwnWrite
    <2>3. Numbered(n, t, k, t[k].row)'
        BY <1>3, <2>1 DEF OwnWrite, Numbered
    <2>4. Known(n, t[k].previous)'
        BY <2>1 DEF OwnWrite, Known
    <2>5. Apart(n, t[k].row.id, t[k].previous)'
        <3>1. s[1].do = "history" => s[1].row.id # s[k + 1].row.id
            BY <1>2, <2>1 DEF OwnWrite
        <3>2. QED
            BY <2>1, <3>1 DEF OwnWrite, Apart
    <2>6. ASSUME NEW j \in DOMAIN t, t[j].do = "history", j # k PROVE t[j].row.id # t[k].row.id
        <3>1. j + 1 \in DOMAIN s /\ t[j] = s[j + 1] /\ j + 1 # k + 1
            BY <1>2, <2>6
        <3>2. QED
            BY <2>1, <2>6, <3>1 DEF OwnWrite
    <2>7. QED
        BY <2>2, <2>3, <2>4, <2>5, <2>6 DEF OwnWrite
<1>5. QED
    BY <1>1, <1>4 DEF OwnPlan

(* A plan without versions of the node's own. *)
LEMMA PlanWithout ==
    ASSUME NEW n, NEW s, \A k \in DOMAIN s : s[k].do # "history"
    PROVE  OwnPlan(n, s)
BY DEF OwnPlan

(* Neither what follows a plan without history rows nor what precedes it matters. *)
LEMMA PlanFollowed ==
    ASSUME NEW n, NEW s, NEW t, IsSeq(s), IsSeq(t), OwnPlan(n, s),
           \A k \in DOMAIN t : t[k].do # "history"
    PROVE  OwnPlan(n, s \o t)
<1>1. PICK st : st = s \o t
    OBVIOUS
<1>2. /\ \A k \in DOMAIN st : \/ k \in DOMAIN s /\ st[k] = s[k]
                              \/ k - Len(s) \in DOMAIN t /\ st[k] = t[k - Len(s)]
      /\ \A k \in DOMAIN s : k \in DOMAIN st /\ st[k] = s[k]
      /\ DOMAIN s = 1 .. Len(s) /\ Len(s) \in Nat
    BY <1>1, ConcatFacts, SeqFacts
<1>3. ASSUME NEW k \in DOMAIN st, st[k].do = "history" PROVE OwnWrite(n, st, k)
    <2>1. k \in DOMAIN s /\ st[k] = s[k] /\ OwnWrite(n, s, k)
        BY <1>2, <1>3 DEF OwnPlan
    <2>2. \A j \in 1 .. k - 1 : st[j] = s[j]
        BY <1>2, <2>1
    <2>3. \A row : HasRow(n, s, k, row) => HasRow(n, st, k, row)
        BY <2>2 DEF HasRow
    <2>4. ASSUME NEW j \in DOMAIN st, st[j].do = "history", j # k PROVE st[j].row.id # st[k].row.id
        <3>1. j \in DOMAIN s /\ st[j] = s[j]
            BY <1>2, <2>4
        <3>2. QED
            BY <2>1, <2>4, <3>1 DEF OwnWrite
    <2>5. QED
        BY <2>1, <2>3, <2>4 DEF OwnWrite, Numbered
<1>4. QED
    BY <1>1, <1>3 DEF OwnPlan

(* A current version is superseded by no other: what supersedes it now forks *)
(* with nothing. *)
LEMMA CurrentIsApart ==
    ASSUME Stored, OwnKnown, OwnTimes, Acyclic, OwnRows, NEW n \in Nodes, NEW id
    PROVE  Apart(n, id, currentTimeIds(n, id)) /\ Known(n, currentTimeIds(n, id))
<1> DEFINE S == versionsOf(n, id)
<1>1. \A v \in OwnVersions(n) : v.row.id = id => v \in S
    BY VersionsOf DEF OwnRows, OwnVersions
<1>2. CASE S = {}
    BY <1>1, <1>2 DEF Apart, Known, currentTimeIds
<1>3. CASE S # {}
    <2>1. S \subseteq Versions
        BY VersionsOf DEF Versions
    <2>2. HasTip(S)
        BY <1>3, <2>1 DEF Acyclic
    <2>3. PICK c : c = currentVersion(S)
        OBVIOUS
    <2>4. c \in S /\ \A w \in S : c.timeId \notin w.previous
        BY <1>3, <2>2, <2>3, CurrentStored DEF HasTip
    <2>5. currentTimeIds(n, id) = {c.timeId}
        BY <1>3, <2>3 DEF currentTimeIds
    <2>6. c \in history[n]
        BY <2>4, VersionsOf
    <2>7. QED
        BY <1>1, <2>4, <2>5, <2>6 DEF Apart, Known
<1>4. QED
    BY <1>2, <1>3

(* An entity that the node has no row of has no version of it. *)
LEMMA NewIsApart ==
    ASSUME OwnRows, NEW n \in Nodes, NEW id,
           \A row \in rows[n] : row.id # id
    PROVE  Apart(n, id, {}) /\ Known(n, {})
BY DEF OwnRows, Apart, Known

(* The plan of a row and its history row. *)
RowPlan(row, previous, s) ==
    /\ IsSeq(s) /\ Len(s) = 2 /\ DOMAIN s = 1 .. 2
    /\ s[1] = PutRow(row) /\ s[2] = PutHistory(row, previous)

(* writeRow is one. *)
LEMMA WriteRowPlan ==
    ASSUME NEW row, NEW previous
    PROVE  RowPlan(row, previous, writeRow(row, previous))
<1>1. PICK s : s = writeRow(row, previous)
    OBVIOUS
<1>2. s = <<PutRow(row), PutHistory(row, previous)>>
    BY <1>1 DEF writeRow
<1>3. IsSeq(s) /\ Len(s) = 2 /\ s[1] = PutRow(row) /\ s[2] = PutHistory(row, previous)
    BY <1>2, ShortSequences
<1>4. DOMAIN s = 1 .. 2
    BY <1>3, SeqFacts
<1>5. QED
    BY <1>1, <1>3, <1>4 DEF RowPlan

(* One row and its history row. *)
LEMMA OneRowPlanned ==
    ASSUME NEW n, NEW row, NEW previous, row.id[1] # "invoiceItems",
           Apart(n, row.id, previous), Known(n, previous)
    PROVE  OwnPlan(n, writeRow(row, previous))
<1>1. PICK s : s = writeRow(row, previous)
    OBVIOUS
<1>2. RowPlan(row, previous, s)
    BY <1>1, WriteRowPlan
<1>3. DOMAIN s = {1, 2} /\ s[1].do = "row" /\ s[1].row = row /\ s[2].row = row
      /\ s[2].previous = previous
    BY <1>2 DEF RowPlan, PutRow, PutHistory
<1>4. HasRow(n, s, 2, row)
    BY <1>3 DEF HasRow
<1>5. OwnWrite(n, s, 2)
    BY <1>3, <1>4 DEF OwnWrite, Numbered
<1>6. QED
    BY <1>1, <1>3, <1>5 DEF OwnPlan

(* The short plans, place by place. *)
LEMMA ShortPlans ==
    /\ IsSeq(recordChangeSet) /\ \A k \in DOMAIN recordChangeSet : recordChangeSet[k].do # "history"
    /\ \A x : x.do # "history" =>
        IsSeq(<<x>>) /\ \A k \in DOMAIN <<x>> : <<x>>[k].do # "history"
    /\ IsSeq(<<>>) /\ DOMAIN <<>> = {}
<1>1. PICK s : s = recordChangeSet
    OBVIOUS
<1>2. IsSeq(s) /\ Len(s) = 2 /\ s[1] = PutChangeSet /\ s[2] = PutHeld
    BY <1>1, ShortSequences DEF recordChangeSet
<1>3. \A k \in DOMAIN s : s[k].do # "history"
    <2>1. DOMAIN s = {1, 2}
        BY <1>2, SeqFacts
    <2>2. QED
        BY <1>2, <2>1 DEF PutChangeSet, PutHeld
<1>4. ASSUME NEW x, x.do # "history"
      PROVE  IsSeq(<<x>>) /\ \A k \in DOMAIN <<x>> : <<x>>[k].do # "history"
    <2>1. PICK t : t = <<x>>
        OBVIOUS
    <2>2. IsSeq(t) /\ Len(t) = 1 /\ t[1] = x
        BY <2>1, ShortSequences
    <2>3. DOMAIN t = {1}
        BY <2>2, SeqFacts
    <2>4. QED
        BY <1>4, <2>1, <2>2, <2>3
<1>5. IsSeq(<<>>) /\ DOMAIN <<>> = {}
    BY EmptySeq DEF IsSeq
<1>6. QED
    BY <1>1, <1>2, <1>3, <1>4, <1>5

(* The plan of an edited animal supersedes its current version, which none supersedes. *)
LEMMA OwnAnimalPlan ==
    ASSUME Stored, OwnKnown, OwnTimes, Acyclic, OwnRows, NEW n \in Nodes, NEW call
    PROVE  OwnPlan(n, updateAnimalNow(n, call))
<1>1. CASE updateAnimalNow(n, call) = <<>>
    BY <1>1, ShortPlans, PlanWithout
<1>2. CASE \E animal : /\ IsAnimal(animal)
                       /\ updateAnimalNow(n, call) =
                            writeRow(animal, currentTimeIds(n, animal.id))
                            \o <<PutPairings(animal)>>
    <2>1. PICK animal : /\ IsAnimal(animal)
                        /\ updateAnimalNow(n, call) =
                            writeRow(animal, currentTimeIds(n, animal.id))
                            \o <<PutPairings(animal)>>
        BY <1>2
    <2>2. PICK s : s = writeRow(animal, currentTimeIds(n, animal.id))
        OBVIOUS
    <2>3. animal.id[1] # "invoiceItems"
        BY <2>1 DEF IsAnimal, table
    <2>4. OwnPlan(n, s)
        BY <2>2, <2>3, OneRowPlanned, CurrentIsApart
    <2>5. PICK t : t = <<PutPairings(animal)>>
        OBVIOUS
    <2>6. IsSeq(t) /\ \A k \in DOMAIN t : t[k].do # "history"
        <3>1. PutPairings(animal).do # "history"
            BY DEF PutPairings
        <3>2. QED
            BY <2>5, <3>1, ShortPlans
    <2>7. IsSeq(s)
        BY <2>2, WriteRowPlan DEF RowPlan
    <2>8. OwnPlan(n, s \o t)
        BY <2>4, <2>6, <2>7, PlanFollowed
    <2>9. QED
        BY <2>1, <2>2, <2>5, <2>8
<1>3. QED
    BY <1>1, <1>2, AnimalPlanned

(* So does the plan of an uploaded image. *)
LEMMA OwnImagePlan ==
    ASSUME Stored, OwnKnown, OwnTimes, Acyclic, OwnRows, NEW n \in Nodes, NEW call
    PROVE  OwnPlan(n, updateSpeciesImageNow(n, call))
<1>1. CASE updateSpeciesImageNow(n, call) = <<>>
    BY <1>1, ShortPlans, PlanWithout
<1>2. CASE updateSpeciesImageNow(n, call) = <<PutBlob(call.image)>>
    <2>1. PutBlob(call.image).do # "history"
        BY DEF PutBlob
    <2>2. PICK t : t = <<PutBlob(call.image)>>
        OBVIOUS
    <2>3. \A k \in DOMAIN t : t[k].do # "history"
        BY <2>1, <2>2, ShortPlans
    <2>4. QED
        BY <1>2, <2>2, <2>3, PlanWithout
<1>3. CASE updateSpeciesImageNow(n, call) =
                imageAndRow(call.image, currentTimeIds(n, <<"species", "s">>))
    <2>1. PICK row : row = SpeciesRow(call.image)
        OBVIOUS
    <2>2. row.id = <<"species", "s">> /\ row.id[1] # "invoiceItems"
        BY <2>1 DEF SpeciesRow
    <2>3. PICK previous : previous = currentTimeIds(n, <<"species", "s">>)
        OBVIOUS
    <2>4. Apart(n, row.id, previous) /\ Known(n, previous)
        BY <2>2, <2>3, CurrentIsApart
    <2>5. PICK b, s, t : /\ b = <<PutBlob(call.image)>> /\ s = writeRow(row, previous)
                         /\ t = recordChangeSet
        OBVIOUS
    <2>6. /\ IsSeq(b) /\ Len(b) = 1 /\ b[1].do = "blob"
        BY <2>5, ShortSequences DEF PutBlob
    <2>7. RowPlan(row, previous, s)
        BY <2>5, WriteRowPlan
    <2>8. PICK bs : bs = b \o s
        OBVIOUS
    <2>9. IsSeq(bs) /\ Len(bs) = 3 /\ bs[1] = b[1] /\ bs[2] = s[1] /\ bs[3] = s[2]
        <3>1. Joined(b, s, 1, 2, bs)
            BY <2>6, <2>7, <2>8, ConcatAt DEF RowPlan
        <3>2. 1 \in 1 .. 1 /\ 1 \in 1 .. 2 /\ 2 \in 1 .. 2
            OBVIOUS
        <3>3. bs[1] = b[1] /\ bs[1 + 1] = s[1] /\ bs[2 + 1] = s[2]
            BY <3>1, <3>2 DEF Joined
        <3>4. QED
            BY <3>1, <3>3 DEF Joined
    <2>10. DOMAIN bs = {1, 2, 3} /\ bs[1].do = "blob" /\ bs[2].do = "row" /\ bs[2].row = row
           /\ bs[3].row = row /\ bs[3].previous = previous
        <3>1. DOMAIN bs = {1, 2, 3}
            BY <2>9, SeqFacts
        <3>2. QED
            BY <2>6, <2>7, <2>9, <3>1 DEF RowPlan, PutRow, PutHistory
    <2>11. HasRow(n, bs, 3, row)
        BY <2>10 DEF HasRow
    <2>12. OwnWrite(n, bs, 3)
        <3>1. \A j \in DOMAIN bs : bs[j].do = "history" => j = 3
            BY <2>10
        <3>2. QED
            BY <2>2, <2>4, <2>10, <2>11, <3>1 DEF OwnWrite, Numbered
    <2>13. OwnPlan(n, bs)
        BY <2>10, <2>12 DEF OwnPlan
    <2>14. OwnPlan(n, bs \o t)
        BY <2>5, <2>9, <2>13, ShortPlans, PlanFollowed
    <2>15. imageAndRow(call.image, previous) = bs \o t
        BY <2>1, <2>5, <2>8 DEF imageAndRow
    <2>16. QED
        BY <1>3, <2>3, <2>14, <2>15
<1>4. QED
    BY <1>1, <1>2, <1>3, ImagePlanned

(* Every place in a list of pairs is the first or the second of one. *)
LEMMA InPairs ==
    ASSUME NEW m \in Nat, NEW k \in 1 .. 2 * m
    PROVE  \E j \in 1 .. m : k = 2 * j - 1 \/ k = 2 * j
<1> DEFINE j == (k + 1) \div 2
<1>1. j \in 1 .. m /\ (k = 2 * j - 1 \/ k = 2 * j)
    OBVIOUS
<1>2. QED
    BY <1>1

(* The two rows of an invoice, each with its history row. *)
LEMMA OwnInvoicePlan ==
    ASSUME Stored, OwnKnown, OwnTimes, OwnRows, NEW n \in Nodes
    PROVE  OwnPlan(n, writeInvoiceNow(n))
<1>1. CASE writeInvoiceNow(n) = <<>>
    BY <1>1, ShortPlans, PlanWithout
<1>2. ASSUME NEW sequence \in Nat, NEW customer \in rows[n], NEW animal \in rows[n],
             \A row \in rows[n] : row.id # <<"invoices", sequence>>,
             writeInvoiceNow(n) =
                    writeRow(InvoiceRow(sequence, customer), {})
                    \o writeRow(InvoiceItemRow(InvoiceRow(sequence, customer), 1, animal), {})
                    \o recordChangeSet
      PROVE  OwnPlan(n, writeInvoiceNow(n))
    <2>1. PICK invoice : invoice = InvoiceRow(sequence, customer)
        OBVIOUS
    <2>2. PICK line : line = InvoiceItemRow(invoice, 1, animal)
        OBVIOUS
    <2>3. invoice.id = <<"invoices", sequence>> /\ invoice.id[2] = sequence /\ invoice.id[1] = "invoices"
        BY <2>1 DEF InvoiceRow
    <2>4. line.id = <<"invoiceItems", sequence, 1>> /\ line.id[2] = sequence
          /\ line.id[1] = "invoiceItems"
        BY <2>2, <2>3 DEF InvoiceItemRow
    <2>5. PICK empty : empty = {}
        OBVIOUS
    <2>6. PICK s, t, u : /\ s = writeRow(invoice, empty) /\ t = writeRow(line, empty)
                         /\ u = recordChangeSet
        OBVIOUS
    <2>7. RowPlan(invoice, empty, s) /\ RowPlan(line, empty, t)
        BY <2>6, WriteRowPlan
    <2>8. PICK st : st = s \o t
        OBVIOUS
    <2>9. IsSeq(st) /\ Len(st) = 4 /\ st[1] = s[1] /\ st[2] = s[2] /\ st[3] = t[1] /\ st[4] = t[2]
        <3>1. Joined(s, t, 2, 2, st)
            BY <2>7, <2>8, ConcatAt DEF RowPlan
        <3>2. 1 \in 1 .. 2 /\ 2 \in 1 .. 2
            OBVIOUS
        <3>3. st[1] = s[1] /\ st[2] = s[2] /\ st[1 + 2] = t[1] /\ st[2 + 2] = t[2]
            BY <3>1, <3>2 DEF Joined
        <3>4. QED
            BY <3>1, <3>3 DEF Joined
    <2>10. /\ DOMAIN st = {1, 2, 3, 4}
           /\ st[1].do = "row" /\ st[1].row = invoice
           /\ st[2].do = "history" /\ st[2].row = invoice /\ st[2].previous = empty
           /\ st[3].do = "row" /\ st[3].row = line
           /\ st[4].do = "history" /\ st[4].row = line /\ st[4].previous = empty
        <3>1. DOMAIN st = {1, 2, 3, 4}
            BY <2>9, SeqFacts
        <3>2. QED
            BY <2>7, <2>9, <3>1 DEF RowPlan, PutRow, PutHistory
    <2>11. HasRow(n, st, 2, invoice) /\ HasRow(n, st, 4, invoice) /\ HasRow(n, st, 4, line)
        BY <2>10 DEF HasRow
    <2>12. Apart(n, invoice.id, empty) /\ Known(n, empty)
        BY <1>2, <2>3, <2>5, NewIsApart
    <2>13. Apart(n, line.id, empty)
        <3>1. ASSUME NEW v \in OwnVersions(n), v.row.id = line.id PROVE FALSE
            <4>1. \E old \in rows[n] : old.id = <<"invoices", line.id[2]>>
                BY <2>4, <3>1 DEF OwnRows
            <4>2. QED
                BY <1>2, <2>4, <4>1
        <3>2. QED
            BY <3>1 DEF Apart
    <2>14. invoice.id # line.id
        BY <2>3, <2>4
    <2>15. OwnWrite(n, st, 2)
        <3>1. \A j \in DOMAIN st : st[j].do = "history" /\ j # 2 => st[j].row = line
            BY <2>10
        <3>2. QED
            BY <2>3, <2>10, <2>11, <2>12, <2>14, <3>1 DEF OwnWrite, Numbered
    <2>16. OwnWrite(n, st, 4)
        <3>1. \A j \in DOMAIN st : st[j].do = "history" /\ j # 4 => st[j].row = invoice
            BY <2>10
        <3>2. Numbered(n, st, 4, line)
            BY <2>3, <2>4, <2>11 DEF Numbered
        <3>3. QED
            BY <2>10, <2>11, <2>12, <2>13, <2>14, <3>1, <3>2 DEF OwnWrite
    <2>17. OwnPlan(n, st)
        BY <2>10, <2>15, <2>16 DEF OwnPlan
    <2>18. OwnPlan(n, st \o u)
        BY <2>6, <2>9, <2>17, ShortPlans, PlanFollowed
    <2>19. writeInvoiceNow(n) = st \o u
        BY <1>2, <2>1, <2>2, <2>5, <2>6, <2>8
    <2>20. QED
        BY <2>18, <2>19
<1>3. QED
    BY <1>1, <1>2, InvoicePlanned

(* The pairings of an animal are of different entities. *)
LEMMA OwnPairingsPlan ==
    ASSUME Stored, OwnKnown, OwnTimes, Acyclic, OwnRows, NEW n \in Nodes,
           NEW animal, IsAnimal(animal)
    PROVE  OwnPlan(n, writePairings(n, animal) \o recordChangeSet)
<1>1. PICK order, s : order = SetToSeq(animal.traits) /\ s = writePairings(n, animal)
    OBVIOUS
<1>2. PairingPlan(n, animal, order, s)
    BY <1>1, PairingsPlanned DEF IsAnimal
<1> DEFINE m == Len(order)
           pairing(j) == AnimalTraitRow(animal, order[j])
<1>3. /\ m \in Nat
      /\ \A j \in 1 .. m : order[j] \in animal.traits
      /\ \A i, j \in 1 .. m : order[i] = order[j] => i = j
      /\ IsSeq(s) /\ Len(s) = 2 * m
      /\ \A j \in 1 .. m : /\ s[2 * j - 1] = PutRow(pairing(j))
                           /\ s[2 * j] = PutHistory(pairing(j), currentTimeIds(n, pairing(j).id))
    BY <1>2 DEF PairingPlan
<1>4. ASSUME NEW j \in 1 .. m
      PROVE  pairing(j).id = <<"animalTraits", animal.id[2], order[j].id[2]>>
             /\ pairing(j).id[1] # "invoiceItems"
    BY DEF AnimalTraitRow
<1>5. ASSUME NEW i \in 1 .. m, NEW j \in 1 .. m, i # j PROVE pairing(i).id # pairing(j).id
    <2>1. order[i] = TraitRow(order[i].id[2]) /\ order[j] = TraitRow(order[j].id[2])
        BY <1>3 DEF IsAnimal, IsTrait
    <2>2. order[i].id[2] # order[j].id[2]
        BY <1>3, <1>5, <2>1
    <2>3. QED
        BY <1>4, <2>2
<1>6. ASSUME NEW j \in 1 .. m
      PROVE  /\ s[2 * j - 1].do = "row" /\ s[2 * j - 1].row = pairing(j)
             /\ s[2 * j].do = "history" /\ s[2 * j].row = pairing(j)
             /\ s[2 * j].previous = currentTimeIds(n, pairing(j).id)
    <2>1. PICK p : p = pairing(j)
        OBVIOUS
    <2>2. s[2 * j - 1] = PutRow(p) /\ s[2 * j] = PutHistory(p, currentTimeIds(n, p.id))
        BY <1>3, <2>1
    <2>3. QED
        BY <2>1, <2>2 DEF PutRow, PutHistory
<1>7. ASSUME NEW k \in DOMAIN s, s[k].do = "history" PROVE \E j \in 1 .. m : k = 2 * j
    <2>1. k \in 1 .. 2 * m
        BY <1>3, SeqFacts
    <2>2. \E j \in 1 .. m : k = 2 * j - 1 \/ k = 2 * j
        BY <1>3, <2>1, InPairs
    <2>3. QED
        BY <1>6, <1>7, <2>2
<1> HIDE DEF pairing, m
<1>8. ASSUME NEW k \in DOMAIN s, s[k].do = "history" PROVE OwnWrite(n, s, k)
    <2>1. PICK j \in 1 .. m : k = 2 * j
        BY <1>7, <1>8
    <2>2. j \in Nat /\ 2 * j - 1 \in 1 .. k - 1
        BY <1>3, <2>1
    <2>3. s[k].row = pairing(j) /\ s[k].previous = currentTimeIds(n, pairing(j).id)
        BY <1>6, <2>1
    <2>4. HasRow(n, s, k, s[k].row)
        BY <1>6, <2>1, <2>2, <2>3 DEF HasRow
    <2>5. Apart(n, s[k].row.id, s[k].previous) /\ Known(n, s[k].previous)
        BY <2>3, CurrentIsApart
    <2>6. ASSUME NEW l \in DOMAIN s, s[l].do = "history", l # k PROVE s[l].row.id # s[k].row.id
        <3>1. PICK i \in 1 .. m : l = 2 * i
            BY <1>7, <2>6
        <3>2. i # j
            BY <2>1, <2>6, <3>1
        <3>3. s[l].row = pairing(i)
            BY <1>6, <3>1
        <3>4. QED
            BY <1>5, <2>3, <3>2, <3>3
    <2>7. Numbered(n, s, k, s[k].row)
        BY <1>4, <2>3 DEF Numbered
    <2>8. QED
        BY <2>4, <2>5, <2>6, <2>7 DEF OwnWrite
<1>9. OwnPlan(n, s)
    BY <1>8 DEF OwnPlan
<1>10. PICK u : u = recordChangeSet
    OBVIOUS
<1>11. OwnPlan(n, s \o u)
    BY <1>3, <1>9, <1>10, ShortPlans, PlanFollowed
<1>12. QED
    BY <1>1, <1>10, <1>11

(* The seed writes no version of a node's own. *)
LEMMA OwnSeedPlan ==
    ASSUME NEW n
    PROVE  OwnPlan(n, writeSeedPart)
<1>1. PICK U : U = Elements(SeedSegments)
    OBVIOUS
<1>2. SeedSegments \in Seq(Seq(U))
    BY <1>1, SeedPlan, SequencesOfSequences
<1> DEFINE Without(s) == \A k \in DOMAIN s : s[k].do # "history"
           P == {s \in Seq(U) : Without(s)}
<1>3. <<>> \in P /\ P \subseteq Seq(U)
    BY EmptySeq
<1>4. ASSUME NEW k \in DOMAIN seedPart PROVE Without(SeedSegment(k))
    <2>1. PICK s, m : s = SeedEntity(k) /\ m = Len(seedPart[k])
        OBVIOUS
    <2>2. /\ m \in Nat /\ IsSeq(s) /\ Len(s) = 2 * m + 2
          /\ \A i \in 1 .. m :
                /\ s[2 * i - 1] = PutRow(SeedRow(k, i))
                /\ s[2 * i] = PutSeedHistory(SeedRow(k, i), rowsBefore(k) + i)
          /\ s[2 * m + 1] = PutChangeSet
          /\ s[2 * m + 2] = PutHeld
        BY <2>1, SeedEntities
    <2>3. ASSUME NEW j \in DOMAIN s PROVE s[j].do # "history"
        <3>1. j \in 1 .. 2 * m + 2
            BY <2>2, SeqFacts
        <3>2. \/ j = 2 * m + 1 \/ j = 2 * m + 2
              \/ j \in 1 .. 2 * m
            <4>1. m \in Nat
                BY <2>2
            <4>2. QED
                BY <3>1, <4>1
        <3>3. CASE j = 2 * m + 1 \/ j = 2 * m + 2
            BY <2>2, <3>3 DEF PutChangeSet, PutHeld
        <3>4. CASE j \in 1 .. 2 * m
            <4>1. PICK i \in 1 .. m : j = 2 * i - 1 \/ j = 2 * i
                BY <2>2, <3>4, InPairs
            <4>2. s[j] = PutRow(SeedRow(k, i)) \/ s[j] = PutSeedHistory(SeedRow(k, i), rowsBefore(k) + i)
                BY <2>2, <4>1
            <4>3. QED
                BY <4>2 DEF PutRow, PutSeedHistory
        <3>5. QED
            BY <3>2, <3>3, <3>4
    <2>4. CASE k = 1
        <3>1. PICK t : t = <<PutBlob(SeedImage)>>
            OBVIOUS
        <3>2. IsSeq(t) /\ Without(t)
            <4>1. PutBlob(SeedImage).do # "history"
                BY DEF PutBlob
            <4>2. QED
                BY <3>1, <4>1, ShortPlans
        <3>3. \A j \in DOMAIN (s \o t) : \/ j \in DOMAIN s /\ (s \o t)[j] = s[j]
                                         \/ j - Len(s) \in DOMAIN t /\ (s \o t)[j] = t[j - Len(s)]
            <4>1. IsSeq(s) /\ IsSeq(t)
                BY <2>2, <3>2
            <4>2. QED
                BY <4>1, ConcatFacts
        <3>4. Without(s \o t)
            BY <2>3, <3>2, <3>3
        <3>5. SeedSegment(k) = s \o t
            BY <2>1, <2>4, <3>1 DEF SeedSegment
        <3>6. QED
            BY <3>4, <3>5
    <2>5. CASE k # 1
        <3>1. SeedSegment(k) = s \o <<>>
            BY <2>1, <2>5 DEF SeedSegment
        <3>2. s \o <<>> = s
            BY <2>2 DEF IsSeq
        <3>3. QED
            BY <2>3, <3>1, <3>2
    <2>6. QED
        BY <2>4, <2>5
<1>5. ASSUME NEW i \in 1 .. Len(SeedSegments), NEW p \in P PROVE p \o SeedSegments[i] \in P
    <2>1. PICK t : t = SeedSegments[i]
        OBVIOUS
    <2>2. IsSeq(t) /\ Without(t)
        BY <1>4, <2>1, SeedPlan
    <2>3. t \in Seq(U)
        BY <1>2, <2>1
    <2>4. IsSeq(p) /\ Without(p)
        BY RangeSeq
    <2>5. \A j \in DOMAIN (p \o t) : \/ j \in DOMAIN p /\ (p \o t)[j] = p[j]
                                     \/ j - Len(p) \in DOMAIN t /\ (p \o t)[j] = t[j - Len(p)]
        BY <2>2, <2>4, ConcatFacts
    <2>6. Without(p \o t)
        BY <2>2, <2>4, <2>5
    <2>7. p \o t \in Seq(U)
        BY <2>3
    <2>8. QED
        BY <2>1, <2>6, <2>7
<1> HIDE DEF P
<1>6. FlattenSeq(SeedSegments) \in P
    BY <1>2, <1>3, <1>5, FlattenStays
<1>7. Without(writeSeedPart)
    BY <1>6, SeedPlan DEF P
<1>8. QED
    BY <1>7, PlanWithout

(* What a call plans keeps the node from forking. *)
LEMMA OwnCallPlan ==
    ASSUME Stored, OwnKnown, OwnTimes, Acyclic, OwnRows, NEW n \in Nodes, NEW call \in Calls
    PROVE  OwnPlan(n, plan(n, call))
<1>1. call.op \in {"updateAnimal", "updateSpeciesImage", "issueInvoice"}
    BY StoreAssumption
<1>2. CASE call.op = "updateAnimal"
    BY <1>2, OwnAnimalPlan DEF plan
<1>3. CASE call.op = "updateSpeciesImage"
    BY <1>3, OwnImagePlan DEF plan
<1>4. CASE call.op = "issueInvoice"
    BY <1>4, OwnInvoicePlan DEF plan
<1>5. QED
    BY <1>1, <1>2, <1>3, <1>4

(* Every step keeps the plans so. *)
LEMMA OwnPlansKept ==
    ASSUME StoreInv, ForkInv, Next
    PROVE  OwnPlans'
<1>1. ASSUME NEW m \in Nodes, NEW i \in DOMAIN chain'[m], NEW s, s = chain'[m][i].todo
      PROVE  OwnPlan(m, s)'
    <2>1. rows[m] \subseteq rows'[m] /\ history[m] \subseteq history'[m]
        BY StoresGrow
    <2>2. ASSUME NEW v \in OwnVersions(m)'
          PROVE  \/ v \in OwnVersions(m)
                 \/ 1 \in DOMAIN chain[m] /\ WriteHistory(m, 1) /\ v = NextVersion(m)
        <3>1. v \in history'[m] /\ v.timeId.unique = m
            BY DEF OwnVersions
        <3>2. QED
            BY <3>1, OwnVersionsGrow
    <2>3. ASSUME s = <<>> PROVE OwnPlan(m, s)'
        BY <2>3, ShortPlans DEF OwnPlan
    <2>4. ASSUME NEW job, RestJob(m, job), s = job.todo, 1 \in DOMAIN chain[m] PROVE OwnPlan(m, s)'
        <3>1. PICK before : before = chain[m][1].todo
            OBVIOUS
        <3>2. s = Tail(before) /\ IsSeq(before) /\ before # <<>>
            BY <2>4, <3>1 DEF RestJob, Running
        <3>3. OwnPlan(m, before)
            BY <2>4, <3>1 DEF ForkInv, OwnPlans
        <3>4. before[1].do = "row" => before[1].row \in rows'[m]
            BY <2>4, <3>1 DEF RestJob
        <3>5. ASSUME NEW v \in OwnVersions(m)'
              PROVE  v \in OwnVersions(m) \/ (before[1].do = "history" /\ v.row.id = before[1].row.id)
            <4>1. CASE WriteHistory(m, 1) /\ v = NextVersion(m)
                <5>1. Writes(m, 1, "history")
                    BY <4>1 DEF WriteHistory
                <5>2. Head(before) = before[1] /\ before[1].do = "history"
                    BY <2>4, <3>1, <5>1, JobWriting DEF StoreInv
                <5>3. v.row = Head(before).row
                    BY <3>1, <4>1 DEF NextVersion, HistoryRow
                <5>4. QED
                    BY <5>2, <5>3
            <4>2. QED
                BY <2>2, <4>1
        <3>6. OwnPlan(m, Tail(before))'
            BY <2>1, <3>2, <3>3, <3>4, <3>5, PlanShrinks
        <3>7. QED
            BY <3>2, <3>6
    <2>5. CASE 1 \in DOMAIN chain[m] /\ WriteHistory(m, 1)
        <3>1. PICK job : RestJob(m, job) /\ Moved(m, chain'[m], job)
            BY <2>5, WritingChain
        <3>2. Waiting(chain'[m][i]) \/ chain'[m][i] = job
            BY <1>1, <3>1 DEF Moved
        <3>3. s = <<>> \/ s = job.todo
            BY <1>1, <3>2 DEF Waiting
        <3>4. QED
            BY <2>3, <2>4, <2>5, <3>1, <3>3
    <2>6. CASE ~(1 \in DOMAIN chain[m] /\ WriteHistory(m, 1))
        <3>1. OwnVersions(m)' \subseteq OwnVersions(m)
            BY <2>2, <2>6
        <3>2. ASSUME OwnPlan(m, s) PROVE OwnPlan(m, s)'
            BY <2>1, <3>1, <3>2, PlanStays
        <3>3. PICK job : s = job.todo /\ Comes(m, i, job)
            BY <1>1, ChainSteps
        <3>4. CASE SeedingJob(job)
            BY <3>2, <3>3, <3>4, OwnSeedPlan DEF SeedingJob
        <3>5. ASSUME 1 \in DOMAIN chain[m], SameJob(m, job) PROVE OwnPlan(m, s)'
            BY <3>2, <3>3, <3>5 DEF SameJob, ForkInv, OwnPlans
        <3>6. ASSUME 1 \in DOMAIN chain[m], BegunJob(m, job) PROVE OwnPlan(m, s)'
            <4>1. PICK call : call = chain[m][1].call
                OBVIOUS
            <4>2. call \in Calls /\ s = plan(m, call)
                BY <3>3, <3>6, <4>1 DEF BegunJob, Waiting
            <4>3. OwnPlan(m, plan(m, call))
                BY <4>2, OwnCallPlan DEF StoreInv, ForkInv
            <4>4. QED
                BY <3>2, <4>2, <4>3
        <3>7. ASSUME 1 \in DOMAIN chain[m], PairingsJob(m, job) PROVE OwnPlan(m, s)'
            <4>1. PICK before, animal : before = chain[m][1] /\ animal = before.todo[1].animal
                OBVIOUS
            <4>2. /\ Running(m, before) /\ before.todo[1].do = "pairings"
                  /\ s = writePairings(m, animal) \o recordChangeSet
                BY <3>3, <3>7, <4>1 DEF PairingsJob
            <4>3. 1 \in DOMAIN before.todo
                BY <4>2, TailFacts DEF Running
            <4>4. IsAnimal(animal)
                BY <4>1, <4>2, <4>3 DEF Running, JobWrite, FreshWrite
            <4>5. OwnPlan(m, writePairings(m, animal) \o recordChangeSet)
                BY <4>4, OwnPairingsPlan DEF StoreInv, ForkInv
            <4>6. QED
                BY <3>2, <4>2, <4>5
        <3>8. QED
            BY <2>3, <2>4, <3>3, <3>4, <3>5, <3>6, <3>7 DEF Comes, Continues
    <2>7. QED
        BY <2>5, <2>6
<1>2. ASSUME NEW m \in Nodes, NEW i \in DOMAIN chain'[m] PROVE OwnPlan(m, chain[m][i].todo)'
    <2>1. PICK s : s = chain'[m][i].todo
        OBVIOUS
    <2>2. OwnPlan(m, s)'
        BY <1>1, <2>1
    <2>3. QED
        BY <2>1, <2>2
<1>3. QED
    BY <1>2 DEF OwnPlans

(* The version that a node writes next. *)
LEMMA NextOwnVersion ==
    ASSUME StoreInv, ForkInv, NEW n \in Nodes, 1 \in DOMAIN chain[n], WriteHistory(n, 1),
           NEW v, v = NextVersion(n)
    PROVE  /\ v.timeId = timeId(n)
           /\ v.row \in rows[n]
           /\ v.row.id[1] = "invoiceItems" =>
                \E invoice \in rows[n] : invoice.id = <<"invoices", v.row.id[2]>>
           /\ Known(n, v.previous)
           /\ Apart(n, v.row.id, v.previous)
<1>1. PICK s : s = chain[n][1].todo
    OBVIOUS
<1>2. Writes(n, 1, "history")
    BY DEF WriteHistory
<1>3. Head(s) = s[1] /\ s[1].do = "history" /\ 1 \in DOMAIN s
    BY <1>1, <1>2, JobWriting DEF StoreInv
<1>4. OwnWrite(n, s, 1)
    BY <1>1, <1>3 DEF ForkInv, OwnPlans, OwnPlan
<1>5. v.timeId = timeId(n) /\ v.row = s[1].row /\ v.previous = s[1].previous
    BY <1>1, <1>3 DEF NextVersion, HistoryRow
<1>6. \A row : HasRow(n, s, 1, row) => row \in rows[n]
    BY DEF HasRow
<1>7. QED
    BY <1>4, <1>5, <1>6 DEF OwnWrite, Numbered

(* Every step keeps the rows of own versions. *)
LEMMA OwnRowsKept ==
    ASSUME StoreInv, ForkInv, Next
    PROVE  OwnRows' /\ OwnWritesNeverFork'
<1>1. ASSUME NEW n \in Nodes, NEW v \in OwnVersions(n)'
      PROVE  \/ v \in OwnVersions(n)
             \/ 1 \in DOMAIN chain[n] /\ WriteHistory(n, 1) /\ v = NextVersion(n)
    <2>1. v \in history'[n] /\ v.timeId.unique = n
        BY <1>1 DEF OwnVersions
    <2>2. QED
        BY <2>1, OwnVersionsGrow
<1>2. OwnRows'
    <2>1. ASSUME NEW n \in Nodes, NEW v \in OwnVersions(n)'
          PROVE  /\ v.row \in rows'[n]
                 /\ v.row.id[1] = "invoiceItems" =>
                        \E invoice \in rows'[n] : invoice.id = <<"invoices", v.row.id[2]>>
        <3>1. rows[n] \subseteq rows'[n]
            BY StoresGrow
        <3>2. CASE v \in OwnVersions(n)
            BY <3>1, <3>2 DEF ForkInv, OwnRows
        <3>3. CASE 1 \in DOMAIN chain[n] /\ WriteHistory(n, 1) /\ v = NextVersion(n)
            BY <3>1, <3>3, NextOwnVersion
        <3>4. QED
            BY <1>1, <2>1, <3>2, <3>3
    <2>2. QED
        BY <2>1 DEF OwnRows
<1>3. ASSUME NEW n \in Nodes, NEW v \in OwnVersions(n)', NEW w \in OwnVersions(n)',
             v # w, v.row.id = w.row.id
      PROVE  v.previous \cap w.previous = {} /\ v.previous # w.previous
    <2>1. CASE v \in OwnVersions(n) /\ w \in OwnVersions(n)
        BY <1>3, <2>1 DEF ForkInv, OwnWritesNeverFork, OwnVersions
    <2>2. CASE /\ 1 \in DOMAIN chain[n] /\ WriteHistory(n, 1)
               /\ \/ v = NextVersion(n) /\ w \in OwnVersions(n)
                  \/ w = NextVersion(n) /\ v \in OwnVersions(n)
        BY <1>3, <2>2, NextOwnVersion DEF Apart
    <2>3. QED
        BY <1>1, <1>3, <2>1, <2>2
<1>4. OwnWritesNeverFork'
    BY <1>3 DEF OwnWritesNeverFork, OwnVersions
<1>5. QED
    BY <1>2, <1>4

(* A version that a step writes. *)
NewVersion(v) ==
    \E n \in Nodes : 1 \in DOMAIN chain[n] /\ WriteHistory(n, 1) /\ v = NextVersion(n)

(* Versions are never lost, and a new one is the seed's or written by a call. *)
LEMMA VersionsGrow ==
    ASSUME StoreInv, Next
    PROVE  /\ Versions \subseteq Versions'
           /\ \A v \in Versions' : v \in Versions \/ v \in SeedVersions \/ NewVersion(v)
<1>1. ASSUME NEW v \in Versions PROVE v \in Versions'
    <2>1. PICK n \in Nodes : v \in history[n]
        BY <1>1 DEF Versions
    <2>2. v \in history'[n]
        BY <2>1, StoresGrow
    <2>3. QED
        BY <2>2 DEF Versions
<1>2. ASSUME NEW v \in Versions' PROVE v \in Versions \/ v \in SeedVersions \/ NewVersion(v)
    <2>1. PICK n \in Nodes : v \in history'[n]
        BY <1>2 DEF Versions
    <2>2. QED
        BY <2>1, StoresGrow DEF NewVersion
<1>3. QED
    BY <1>1, <1>2

(* A version is superseded by none when it is written. *)
LEMMA NewIsTip ==
    ASSUME StoreInv, ForkInv, Next, NEW v, NewVersion(v), NEW w \in Versions'
    PROVE  v.timeId \notin w.previous
<1>1. PICK n \in Nodes : 1 \in DOMAIN chain[n] /\ WriteHistory(n, 1) /\ v = NextVersion(n)
    BY DEF NewVersion
<1>2. v.timeId = timeId(n)
    BY <1>1, NextOwnVersion
<1>3. \A u \in Versions : u.timeId # timeId(n)
    <2>1. ASSUME NEW u \in Versions, u.timeId = timeId(n) PROVE FALSE
        <3>1. u.timeId.unique = n
            BY <2>1, NextTime DEF StoreInv
        <3>2. u \in history[n]
            <4>1. PICK m \in Nodes : u \in history[m]
                BY <2>1 DEF Versions
            <4>2. QED
                BY <3>1, <4>1, SeedIsNoNode DEF StoreInv, OwnKnown
        <3>3. u \in OwnVersions(n)
            BY <3>1, <3>2 DEF OwnVersions
        <3>4. QED
            BY <2>1, <3>3, NextTime DEF StoreInv
    <2>2. QED
        BY <2>1
<1>4. w.previous \subseteq {u.timeId : u \in Versions}
    <2>1. CASE w \in Versions
        <3>1. PICK m \in Nodes : w \in history[m]
            BY <2>1 DEF Versions
        <3>2. QED
            BY <3>1 DEF ForkInv, PreviousKnown
    <2>2. CASE w \in SeedVersions
        BY <2>2, SeedVersionsFit
    <2>3. CASE NewVersion(w)
        <3>1. PICK m \in Nodes : 1 \in DOMAIN chain[m] /\ WriteHistory(m, 1) /\ w = NextVersion(m)
            BY <2>3 DEF NewVersion
        <3>2. Known(m, w.previous)
            BY <3>1, NextOwnVersion
        <3>3. QED
            BY <3>2 DEF Known, Versions
    <2>4. QED
        BY <2>1, <2>2, <2>3, VersionsGrow
<1>5. QED
    BY <1>2, <1>3, <1>4

(* Every step keeps what versions supersede known. *)
LEMMA PreviousKept ==
    ASSUME StoreInv, ForkInv, Next
    PROVE  PreviousKnown'
<1>1. Versions \subseteq Versions'
    BY VersionsGrow
<1>2. ASSUME NEW n \in Nodes, NEW v \in history'[n]
      PROVE  v.previous \subseteq {w.timeId : w \in Versions'}
    <2>1. CASE v \in Versions
        <3>1. PICK m \in Nodes : v \in history[m]
            BY <2>1 DEF Versions
        <3>2. v.previous \subseteq {w.timeId : w \in Versions}
            BY <3>1 DEF ForkInv, PreviousKnown
        <3>3. QED
            BY <1>1, <3>2
    <2>2. CASE v \in SeedVersions
        BY <2>2, SeedVersionsFit
    <2>3. CASE 1 \in DOMAIN chain[n] /\ WriteHistory(n, 1) /\ v = NextVersion(n)
        <3>1. Known(n, v.previous)
            BY <2>3, NextOwnVersion
        <3>2. history[n] \subseteq Versions'
            BY <1>1 DEF Versions
        <3>3. QED
            BY <3>1, <3>2 DEF Known
    <2>4. QED
        BY <1>2, <2>1, <2>2, <2>3, StoresGrow
<1>3. QED
    BY <1>2 DEF PreviousKnown

(* Every step keeps versions from superseding each other in a circle. *)
LEMMA AcyclicKept ==
    ASSUME StoreInv, ForkInv, Next
    PROVE  Acyclic'
<1>1. ASSUME NEW X \in SUBSET Versions', X # {} PROVE HasTip(X)
    <2>1. CASE \E v \in X : NewVersion(v)
        BY <2>1, NewIsTip DEF HasTip
    <2>2. CASE \A v \in X : ~NewVersion(v)
        <3>1. PICK Y : Y = X \ SeedVersions
            OBVIOUS
        <3>2. \A y \in X \ Y : y.previous = {}
            BY <3>1, SeedVersionsFit
        <3>3. CASE Y = {}
            BY <1>1, <3>2, <3>3 DEF HasTip
        <3>4. CASE Y # {}
            <4>1. Y \subseteq Versions
                BY <2>2, <3>1, VersionsGrow
            <4>2. PICK x \in Y : \A y \in Y : x.timeId \notin y.previous
                BY <3>4, <4>1 DEF ForkInv, Acyclic, HasTip
            <4>3. x \in X /\ \A y \in X : x.timeId \notin y.previous
                BY <3>1, <3>2, <4>2
            <4>4. QED
                BY <4>3 DEF HasTip
        <3>5. QED
            BY <3>3, <3>4
    <2>3. QED
        BY <2>1, <2>2
<1>2. QED
    BY <1>1 DEF Acyclic, HasTip

(* ForkInv holds at first. *)
LEMMA ForkStarts == Init => ForkInv
<1> SUFFICES ASSUME Init PROVE ForkInv
    OBVIOUS
<1>1. \A n \in Nodes : chain[n] = <<>> /\ \A v \in history[n] : v \in SeedVersions
    <2>1. PICK start \in Starts :
            /\ history = [n \in Nodes |-> IF n \in start.cold THEN {} ELSE historyOf(Seeded(n))]
            /\ chain = [n \in Nodes |-> <<>>]
        BY InitStores
    <2>2. QED
        BY <2>1, SeedItems
<1>2. \A v \in Versions : v.previous = {}
    BY <1>1, SeedVersionsFit DEF Versions
<1>3. PreviousKnown /\ Acyclic
    BY <1>2 DEF PreviousKnown, Acyclic, HasTip, Versions
<1>4. \A n \in Nodes : OwnVersions(n) = {}
    BY <1>1, SeedVersionsAreVersions, SeedIsNoNode DEF OwnVersions
<1>5. OwnRows /\ OwnWritesNeverFork
    BY <1>4 DEF OwnRows, OwnWritesNeverFork, OwnVersions
<1>6. OwnPlans
    BY <1>1, ShortPlans DEF OwnPlans
<1>7. QED
    BY <1>3, <1>5, <1>6 DEF ForkInv

(* It stays when nothing happens. *)
LEMMA ForkStays ==
    ASSUME ForkInv, UNCHANGED vars
    PROVE  ForkInv'
<1>1. rows' = rows /\ history' = history /\ chain' = chain
    BY DEF vars, tables
<1>2. \A n : OwnVersions(n)' = OwnVersions(n)
    BY <1>1 DEF OwnVersions
<1>3. OwnPlans'
    <2>1. ASSUME NEW m \in Nodes, NEW i \in DOMAIN chain'[m] PROVE OwnPlan(m, chain[m][i].todo)'
        <3>1. PICK s : s = chain[m][i].todo
            OBVIOUS
        <3>2. OwnPlan(m, s)
            BY <1>1, <2>1, <3>1 DEF ForkInv, OwnPlans
        <3>3. OwnPlan(m, s)'
            BY <1>1, <1>2, <3>2, PlanStays
        <3>4. QED
            BY <1>1, <3>1, <3>3
    <2>2. QED
        BY <2>1 DEF OwnPlans
<1>4. Versions' = Versions
    BY <1>1 DEF Versions
<1>5. PreviousKnown' /\ Acyclic'
    BY <1>1, <1>4 DEF ForkInv, PreviousKnown, Acyclic
<1>6. OwnRows' /\ OwnWritesNeverFork'
    <2>1. OwnRows'
        BY <1>1 DEF ForkInv, OwnRows, OwnVersions
    <2>2. OwnWritesNeverFork'
        BY <1>1 DEF ForkInv, OwnWritesNeverFork
    <2>3. QED
        BY <2>1, <2>2
<1>7. QED
    BY <1>3, <1>5, <1>6 DEF ForkInv

(* The inductive invariant about own versions always holds: what a call is about to supersede *)
(* is in its store and forks with none of the node's versions, and versions never supersede   *)
(* each other in a circle.                                                                    *)
THEOREM ForkInvariant == Spec => []ForkInv
<1>1. Init => ForkInv
    BY ForkStarts
<1>2. StoreInv /\ ForkInv /\ [Next]_vars => ForkInv'
    <2>1. ASSUME StoreInv, ForkInv, Next PROVE ForkInv'
        BY <2>1, OwnPlansKept, OwnRowsKept, PreviousKept, AcyclicKept DEF ForkInv
    <2>2. QED
        BY <2>1, ForkStays
<1>3. QED
    BY <1>1, <1>2, StoreInvariant, PTL DEF Spec

(* A node never forks an entity by itself: no two of its own versions supersede the same *)
(* version, and none of its entities, an invoice number included, is begun twice by it   *)
(* (pendingWrite queues its calls), whatever it pulled, read or lost in between.         *)
THEOREM OwnWritesNeverForkAlways == Spec => []OwnWritesNeverFork
<1>1. ForkInv => OwnWritesNeverFork
    BY DEF ForkInv
<1>2. QED
    BY <1>1, ForkInvariant, PTL

-----------------------------------------------------------------------------
(* Every change set with an animal has the pairings of it. *)

(* A change set that has a pairing for each trait of each animal in it. *)
Complete(changeSet) ==
    \A animal \in rowsOf(changeSet) : IsAnimal(animal) =>
        \A trait \in animal.traits : AnimalTraitRow(animal, trait) \in rowsOf(changeSet)

(* No change set is recorded between the j-th and the k-th write of a plan. *)
Since(s, j, k) == \A l \in j .. k - 1 : s[l].do # "held"

(* What the job has written for the change set at the k-th write of its plan: *)
(* what the plan writes before, and what it has written so far. *)
Gathers(s, k, items, row) ==
    \/ \E j \in 1 .. k - 1 : s[j].do = "row" /\ s[j].row = row /\ Since(s, j, k)
    \/ Since(s, 1, k) /\ row \in rowsOf(items)

(* The change set recorded at the k-th write is complete. *)
CompleteAt(s, k, items) ==
    \A animal : Gathers(s, k, items, animal) /\ IsAnimal(animal) =>
        \A trait \in animal.traits : Gathers(s, k, items, AnimalTraitRow(animal, trait))

(* The pairings that are still to be planned are those of the only animal. *)
PairingsAt(s, k, items) ==
    /\ k = Len(s)
    /\ \A j \in DOMAIN s : s[j].do # "changeSet"
    /\ \A animal : Gathers(s, k, items, animal) /\ IsAnimal(animal) => animal = s[k].animal

(* A plan that records complete change sets only. *)
WholePlan(s, items) ==
    \A k \in DOMAIN s :
        /\ s[k].do = "changeSet" => CompleteAt(s, k, items)
        /\ s[k].do = "pairings" => PairingsAt(s, k, items)

(* The change sets a node has or pulls are complete. *)
ChangeSetsWhole(n) ==
    /\ \A changeSet \in changeSets[n] : Complete(changeSet)
    /\ \A pull \in pulls[n] : Complete(pull.changeSet)

(* Those its calls still record will be. *)
PlansWhole(n) == \A i \in DOMAIN chain[n] : WholePlan(chain[n][i].todo, chain[n][i].items)

(* The inductive invariant that change sets are complete. *)
WholeInv == \A n \in Nodes : ChangeSetsWhole(n) /\ PlansWhole(n)

(* What the first write of a plan adds to what the job has written. *)
Gathered(s, items, more) ==
    /\ s[1].do = "row" => rowsOf(more) = rowsOf(items) \cup {s[1].row}
    /\ s[1].do = "held" => more = {}
    /\ s[1].do \notin {"row", "held"} => rowsOf(more) = rowsOf(items)

(* What is gathered by a write is the same for the rest of the plan. *)
LEMMA GathersRest ==
    ASSUME NEW s, IsSeq(s), s # <<>>, NEW items, NEW more, Gathered(s, items, more),
           NEW k \in Nat \ {0}, k \in DOMAIN Tail(s), NEW row
    PROVE  Gathers(Tail(s), k, more, row) <=> Gathers(s, k + 1, items, row)
<1>1. PICK t : t = Tail(s)
    OBVIOUS
<1>2. /\ \A j \in DOMAIN t : t[j] = s[j + 1]
      /\ DOMAIN t = 1 .. Len(t) /\ Len(t) = Len(s) - 1 /\ Len(s) \in Nat
    BY <1>1, TailFacts, SeqFacts
<1>3. \A j \in 1 .. k - 1 : t[j] = s[j + 1]
    BY <1>1, <1>2
<1>4. ASSUME NEW j \in Nat \ {0} PROVE Since(t, j, k) <=> Since(s, j + 1, k + 1)
    <2>1. ASSUME Since(t, j, k), NEW l \in j + 1 .. k + 1 - 1 PROVE s[l].do # "held"
        <3>1. l - 1 \in j .. k - 1 /\ l - 1 \in 1 .. k - 1 /\ (l - 1) + 1 = l
            BY <2>1
        <3>2. t[l - 1] = s[(l - 1) + 1]
            BY <1>3, <3>1
        <3>3. QED
            BY <2>1, <3>1, <3>2 DEF Since
    <2>2. ASSUME Since(s, j + 1, k + 1), NEW l \in j .. k - 1 PROVE t[l].do # "held"
        <3>1. l \in 1 .. k - 1 /\ l + 1 \in j + 1 .. k + 1 - 1
            BY <2>2
        <3>2. QED
            BY <1>3, <2>2, <3>1 DEF Since
    <2>3. QED
        BY <2>1, <2>2 DEF Since
<1>5. Since(s, 1, k + 1) <=> s[1].do # "held" /\ Since(s, 2, k + 1)
    <2>1. \A l \in Int : l \in 1 .. k + 1 - 1 <=> l = 1 \/ l \in 2 .. k + 1 - 1
        OBVIOUS
    <2>2. QED
        BY <2>1 DEF Since
<1>6. Since(t, 1, k) <=> Since(s, 2, k + 1)
    <2>1. Since(t, 1, k) <=> Since(s, 1 + 1, k + 1)
        BY <1>4
    <2>2. QED
        BY <2>1
<1>7. ASSUME Gathers(t, k, more, row) PROVE Gathers(s, k + 1, items, row)
    <2>1. CASE \E j \in 1 .. k - 1 : t[j].do = "row" /\ t[j].row = row /\ Since(t, j, k)
        <3>1. PICK j \in 1 .. k - 1 : t[j].do = "row" /\ t[j].row = row /\ Since(t, j, k)
            BY <2>1
        <3>2. j + 1 \in 1 .. k + 1 - 1 /\ t[j] = s[j + 1] /\ Since(s, j + 1, k + 1)
            BY <1>3, <1>4, <3>1
        <3>3. QED
            BY <3>1, <3>2 DEF Gathers
    <2>2. CASE Since(t, 1, k) /\ row \in rowsOf(more)
        <3>1. Since(s, 2, k + 1)
            BY <1>6, <2>2
        <3>2. s[1].do # "held"
            BY <2>2 DEF Gathered, rowsOf
        <3>3. Since(s, 1, k + 1)
            BY <1>5, <3>1, <3>2
        <3>4. row \in rowsOf(items) \/ (s[1].do = "row" /\ s[1].row = row)
            BY <2>2, <3>2 DEF Gathered
        <3>5. 1 \in 1 .. k + 1 - 1
            OBVIOUS
        <3>6. QED
            BY <3>3, <3>4, <3>5 DEF Gathers
    <2>3. QED
        BY <1>7, <2>1, <2>2 DEF Gathers
<1>8. ASSUME Gathers(s, k + 1, items, row) PROVE Gathers(t, k, more, row)
    <2>1. ASSUME NEW j \in 1 .. k + 1 - 1, s[j].do = "row", s[j].row = row, Since(s, j, k + 1)
          PROVE  Gathers(t, k, more, row)
        <3>1. CASE j = 1
            <4>1. Since(t, 1, k)
                BY <1>5, <1>6, <2>1, <3>1
            <4>2. row \in rowsOf(more)
                BY <2>1, <3>1 DEF Gathered
            <4>3. QED
                BY <4>1, <4>2 DEF Gathers
        <3>2. CASE j # 1
            <4>1. j - 1 \in 1 .. k - 1 /\ j - 1 \in Nat \ {0} /\ (j - 1) + 1 = j
                BY <2>1, <3>2
            <4>2. t[j - 1] = s[j]
                BY <1>3, <4>1
            <4>3. Since(t, j - 1, k) <=> Since(s, (j - 1) + 1, k + 1)
                BY <1>4, <4>1
            <4>4. Since(t, j - 1, k)
                BY <2>1, <4>1, <4>3
            <4>5. QED
                BY <2>1, <4>1, <4>2, <4>4 DEF Gathers
        <3>3. QED
            BY <3>1, <3>2
    <2>2. CASE Since(s, 1, k + 1) /\ row \in rowsOf(items)
        <3>1. Since(t, 1, k) /\ s[1].do # "held"
            BY <1>5, <1>6, <2>2
        <3>2. row \in rowsOf(more)
            BY <2>2, <3>1 DEF Gathered
        <3>3. QED
            BY <3>1, <3>2 DEF Gathers
    <2>3. QED
        BY <1>8, <2>1, <2>2 DEF Gathers
<1>9. QED
    BY <1>1, <1>7, <1>8

(* So the rest of such a plan is one. *)
LEMMA WholeRest ==
    ASSUME NEW s, IsSeq(s), s # <<>>, NEW items, NEW more, Gathered(s, items, more),
           WholePlan(s, items)
    PROVE  WholePlan(Tail(s), more)
<1>1. PICK t : t = Tail(s)
    OBVIOUS
<1>2. /\ \A j \in DOMAIN t : j \in Nat \ {0} /\ j + 1 \in DOMAIN s /\ t[j] = s[j + 1]
      /\ Len(t) = Len(s) - 1 /\ Len(s) \in Nat
    BY <1>1, TailFacts, SeqFacts
<1>3. ASSUME NEW k \in DOMAIN t, NEW row
      PROVE  Gathers(t, k, more, row) <=> Gathers(s, k + 1, items, row)
    BY <1>1, <1>2, GathersRest
<1>4. ASSUME NEW k \in DOMAIN t, t[k].do = "changeSet" PROVE CompleteAt(t, k, more)
    <2>1. CompleteAt(s, k + 1, items)
        BY <1>2, <1>4 DEF WholePlan
    <2>2. QED
        BY <1>3, <2>1 DEF CompleteAt
<1>5. ASSUME NEW k \in DOMAIN t, t[k].do = "pairings" PROVE PairingsAt(t, k, more)
    <2>1. PairingsAt(s, k + 1, items)
        BY <1>2, <1>5 DEF WholePlan
    <2>2. k = Len(t)
        BY <1>2, <2>1 DEF PairingsAt
    <2>3. \A j \in DOMAIN t : t[j].do # "changeSet"
        BY <1>2, <2>1 DEF PairingsAt
    <2>4. QED
        BY <1>2, <1>3, <2>1, <2>2, <2>3 DEF PairingsAt
<1>6. QED
    BY <1>1, <1>4, <1>5 DEF WholePlan

(* At the first write all is written that the change set is to hold. *)
LEMMA GathersFirst ==
    ASSUME NEW s, NEW items, NEW row
    PROVE  Gathers(s, 1, items, row) <=> row \in rowsOf(items)
BY DEF Gathers, Since

(* So the change set that the first write records is complete. *)
LEMMA CompleteFirst ==
    ASSUME NEW s, NEW items, CompleteAt(s, 1, items)
    PROVE  Complete(items)
BY GathersFirst DEF CompleteAt, Complete

(* A plan that writes no animal and no pairings. *)
NoAnimal(s) ==
    /\ IsSeq(s)
    /\ \A k \in DOMAIN s : /\ s[k].do # "pairings"
                           /\ s[k].do = "row" => ~IsAnimal(s[k].row)

(* One such plan after another is one. *)
LEMMA NoAnimalConcat ==
    ASSUME NEW s, NEW t, NoAnimal(s), NoAnimal(t)
    PROVE  NoAnimal(s \o t)
<1>1. IsSeq(s) /\ IsSeq(t)
    BY DEF NoAnimal
<1>2. PICK st : st = s \o t
    OBVIOUS
<1>3. IsSeq(st) /\ \A k \in DOMAIN st :
        \/ k \in DOMAIN s /\ st[k] = s[k]
        \/ k - Len(s) \in DOMAIN t /\ st[k] = t[k - Len(s)]
    BY <1>1, <1>2, ConcatFacts
<1>4. NoAnimal(st)
    BY <1>3 DEF NoAnimal
<1>5. QED
    BY <1>2, <1>4

(* The short plans are such plans, for rows of other tables. *)
LEMMA NoAnimalShort ==
    /\ NoAnimal(<<>>)
    /\ NoAnimal(recordChangeSet)
    /\ \A image : NoAnimal(<<PutBlob(image)>>)
    /\ \A row, previous : ~IsAnimal(row) => NoAnimal(writeRow(row, previous))
<1>1. NoAnimal(<<>>)
    BY ShortPlans DEF NoAnimal
<1>2. NoAnimal(recordChangeSet)
    <2>1. PICK s : s = recordChangeSet
        OBVIOUS
    <2>2. IsSeq(s) /\ Len(s) = 2 /\ s[1] = PutChangeSet /\ s[2] = PutHeld
        BY <2>1, ShortSequences DEF recordChangeSet
    <2>3. DOMAIN s = {1, 2}
        BY <2>2, SeqFacts
    <2>4. NoAnimal(s)
        BY <2>2, <2>3 DEF NoAnimal, PutChangeSet, PutHeld
    <2>5. QED
        BY <2>1, <2>4
<1>3. ASSUME NEW image PROVE NoAnimal(<<PutBlob(image)>>)
    <2>1. PICK s : s = <<PutBlob(image)>>
        OBVIOUS
    <2>2. IsSeq(s) /\ Len(s) = 1 /\ s[1] = PutBlob(image)
        BY <2>1, ShortSequences
    <2>3. DOMAIN s = {1}
        BY <2>2, SeqFacts
    <2>4. NoAnimal(s)
        BY <2>2, <2>3 DEF NoAnimal, PutBlob
    <2>5. QED
        BY <2>1, <2>4
<1>4. ASSUME NEW row, NEW previous, ~IsAnimal(row) PROVE NoAnimal(writeRow(row, previous))
    <2>1. PICK s : s = writeRow(row, previous)
        OBVIOUS
    <2>2. RowPlan(row, previous, s)
        BY <2>1, WriteRowPlan
    <2>3. DOMAIN s = {1, 2}
        BY <2>2 DEF RowPlan
    <2>4. NoAnimal(s)
        BY <1>4, <2>2, <2>3 DEF NoAnimal, RowPlan, PutRow, PutHistory
    <2>5. QED
        BY <2>1, <2>4
<1>5. QED
    BY <1>1, <1>2, <1>3, <1>4

(* Such a plan records complete change sets. *)
LEMMA WholeNoAnimal ==
    ASSUME NEW s, NoAnimal(s), NEW items, items = {}
    PROVE  WholePlan(s, items)
<1>1. DOMAIN s = 1 .. Len(s) /\ Len(s) \in Nat
    BY SeqFacts DEF NoAnimal
<1>2. ASSUME NEW k \in DOMAIN s, NEW row, Gathers(s, k, items, row) PROVE ~IsAnimal(row)
    <2>1. PICK j \in 1 .. k - 1 : s[j].do = "row" /\ s[j].row = row
        BY <1>2 DEF Gathers, rowsOf
    <2>2. j \in DOMAIN s
        BY <1>1, <1>2
    <2>3. QED
        BY <2>1, <2>2 DEF NoAnimal
<1>3. QED
    BY <1>2 DEF WholePlan, CompleteAt, NoAnimal

(* So does the plan of an edited animal, its pairings still unplanned. *)
LEMMA WholeAnimalPlan ==
    ASSUME NEW animal, NEW previous, NEW items, items = {},
           NEW s, s = writeRow(animal, previous) \o <<PutPairings(animal)>>
    PROVE  WholePlan(s, items)
<1>1. PICK w, p : w = writeRow(animal, previous) /\ p = <<PutPairings(animal)>>
    OBVIOUS
<1>2. RowPlan(animal, previous, w) /\ IsSeq(p) /\ Len(p) = 1 /\ p[1] = PutPairings(animal)
    BY <1>1, WriteRowPlan, ShortSequences
<1>3. Joined(w, p, 2, 1, s)
    BY <1>1, <1>2, ConcatAt DEF RowPlan
<1>4. IsSeq(s) /\ Len(s) = 3 /\ s[1] = w[1] /\ s[2] = w[2] /\ s[3] = p[1]
    <2>1. 1 \in 1 .. 2 /\ 2 \in 1 .. 2 /\ 1 \in 1 .. 1
        OBVIOUS
    <2>2. s[1] = w[1] /\ s[2] = w[2] /\ s[1 + 2] = p[1]
        BY <1>3, <2>1 DEF Joined
    <2>3. QED
        BY <1>3, <2>2 DEF Joined
<1>5. /\ DOMAIN s = {1, 2, 3} /\ s[1].do = "row" /\ s[1].row = animal
      /\ s[2].do = "history" /\ s[3].do = "pairings" /\ s[3].animal = animal
    <2>1. DOMAIN s = {1, 2, 3}
        BY <1>4, SeqFacts
    <2>2. QED
        BY <1>2, <1>4, <2>1 DEF RowPlan, PutRow, PutHistory, PutPairings
<1>6. ASSUME NEW row, Gathers(s, 3, items, row) PROVE row = animal
    <2>1. PICK j \in 1 .. 3 - 1 : s[j].do = "row" /\ s[j].row = row
        BY <1>6 DEF Gathers, rowsOf
    <2>2. QED
        BY <1>5, <2>1
<1>7. PairingsAt(s, 3, items)
    BY <1>4, <1>5, <1>6 DEF PairingsAt
<1>8. QED
    BY <1>5, <1>7 DEF WholePlan

(* The places of a plan of 2m writes and two more. *)
LEMMA LastTwo ==
    ASSUME NEW m \in Nat, NEW k \in 1 .. 2 * m + 2
    PROVE  k = 2 * m + 1 \/ k = 2 * m + 2 \/ k \in 1 .. 2 * m
OBVIOUS

(* The two are those of recordChangeSet. *)
LEMMA EndsRecorded ==
    ASSUME NEW m \in Nat, NEW r, NEW s, \A i \in 1 .. 2 : s[i + 2 * m] = r[i],
           r[1] = PutChangeSet, r[2] = PutHeld
    PROVE  s[2 * m + 1].do = "changeSet" /\ s[2 * m + 2].do = "held"
<1>1. 1 \in 1 .. 2 /\ 2 \in 1 .. 2 /\ 1 + 2 * m = 2 * m + 1 /\ 2 + 2 * m = 2 * m + 2
    OBVIOUS
<1>2. s[2 * m + 1] = r[1] /\ s[2 * m + 2] = r[2]
    BY <1>1
<1>3. QED
    BY <1>2 DEF PutChangeSet, PutHeld

(* All animals of a change set are this one. *)
OnlyAnimal(items, animal) == \A row \in rowsOf(items) : IsAnimal(row) => row = animal

(* The plan of the pairings makes the change set of its animal complete. *)
LEMMA WholePairingsPlan ==
    ASSUME NEW n, NEW animal, IsAnimal(animal), NEW items,
           OnlyAnimal(items, animal),
           NEW s, s = writePairings(n, animal) \o recordChangeSet
    PROVE  WholePlan(s, items)
<1>1. PICK order, w, r : /\ order = SetToSeq(animal.traits) /\ w = writePairings(n, animal)
                         /\ r = recordChangeSet
    OBVIOUS
<1>2. PairingPlan(n, animal, order, w)
    BY <1>1, PairingsPlanned DEF IsAnimal
<1>3. PICK m : m = Len(order)
    OBVIOUS
<1> DEFINE pairing(j) == AnimalTraitRow(animal, order[j])
<1>4. /\ m \in Nat
      /\ \A j \in 1 .. m : order[j] \in animal.traits
      /\ \A trait \in animal.traits : \E j \in 1 .. m : order[j] = trait
      /\ IsSeq(w) /\ Len(w) = 2 * m
      /\ \A j \in 1 .. m : /\ w[2 * j - 1] = PutRow(pairing(j))
                           /\ w[2 * j] = PutHistory(pairing(j), currentTimeIds(n, pairing(j).id))
    BY <1>2, <1>3 DEF PairingPlan
<1>5. IsSeq(r) /\ Len(r) = 2 /\ r[1] = PutChangeSet /\ r[2] = PutHeld
    BY <1>1, ShortSequences DEF recordChangeSet
<1>6. Joined(w, r, 2 * m, 2, s)
    BY <1>1, <1>4, <1>5, ConcatAt
<1>7. /\ IsSeq(s) /\ Len(s) = 2 * m + 2
      /\ \A i \in 1 .. 2 * m : s[i] = w[i]
      /\ \A i \in 1 .. 2 : s[i + 2 * m] = r[i]
    BY <1>6 DEF Joined
<1>8. ASSUME NEW j \in 1 .. m
      PROVE  /\ j \in Nat /\ 2 * j - 1 \in 1 .. 2 * m /\ 2 * j \in 1 .. 2 * m
             /\ s[2 * j - 1].do = "row" /\ s[2 * j - 1].row = pairing(j)
             /\ s[2 * j].do = "history"
    <2>1. PICK p : p = pairing(j)
        OBVIOUS
    <2>2. j \in Nat /\ 2 * j - 1 \in 1 .. 2 * m /\ 2 * j \in 1 .. 2 * m
        BY <1>4
    <2>3. s[2 * j - 1] = PutRow(p) /\ s[2 * j] = PutHistory(p, currentTimeIds(n, p.id))
        BY <1>4, <1>7, <2>1, <2>2
    <2>4. QED
        BY <2>1, <2>2, <2>3 DEF PutRow, PutHistory
<1>9. s[2 * m + 1].do = "changeSet" /\ s[2 * m + 2].do = "held"
    <2>1. m \in Nat
        BY <1>4
    <2>2. \A i \in 1 .. 2 : s[i + 2 * m] = r[i]
        BY <1>7
    <2>3. r[1] = PutChangeSet /\ r[2] = PutHeld
        BY <1>5
    <2>4. QED
        BY <2>1, <2>2, <2>3, EndsRecorded
<1> HIDE DEF pairing
<1>10. ASSUME NEW k \in DOMAIN s
       PROVE  /\ s[k].do # "pairings"
              /\ s[k].do = "changeSet" => k = 2 * m + 1
              /\ k \in 1 .. 2 * m => s[k].do # "held"
              /\ s[k].do = "row" => \E j \in 1 .. m : s[k].row = pairing(j)
    <2>1. k \in 1 .. 2 * m + 2
        BY <1>7, SeqFacts
    <2>2. \/ k = 2 * m + 1 \/ k = 2 * m + 2
          \/ k \in 1 .. 2 * m
        <3>1. m \in Nat
            BY <1>4
        <3>2. QED
            BY <2>1, <3>1, LastTwo
    <2>3. CASE k = 2 * m + 1 \/ k = 2 * m + 2
        <3>1. k \notin 1 .. 2 * m
            BY <1>4, <2>3
        <3>2. s[k].do = "changeSet" \/ s[k].do = "held"
            BY <1>9, <2>3
        <3>3. k = 2 * m + 2 => s[k].do # "changeSet"
            BY <1>9
        <3>4. QED
            BY <2>3, <3>1, <3>2, <3>3
    <2>4. CASE k \in 1 .. 2 * m
        <3>1. PICK j \in 1 .. m : k = 2 * j - 1 \/ k = 2 * j
            BY <1>4, <2>4, InPairs
        <3>2. (s[k].do = "row" /\ s[k].row = pairing(j)) \/ s[k].do = "history"
            BY <1>8, <3>1
        <3>3. QED
            BY <3>2
    <2>5. QED
        BY <2>2, <2>3, <2>4
<1> DEFINE c == 2 * m + 1
<1>11. ASSUME NEW j \in 1 .. c PROVE Since(s, j, c)
    <2>1. ASSUME NEW l \in j .. c - 1 PROVE s[l].do # "held"
        <3>1. l \in 1 .. 2 * m /\ l \in DOMAIN s
            BY <1>4, <1>7, SeqFacts
        <3>2. QED
            BY <1>10, <3>1
    <2>2. QED
        BY <2>1 DEF Since
<1>12. ASSUME NEW row, Gathers(s, c, items, row), IsAnimal(row) PROVE row = animal
    <2>1. CASE row \in rowsOf(items)
        BY <1>12, <2>1 DEF OnlyAnimal
    <2>2. CASE \E l \in 1 .. c - 1 : s[l].do = "row" /\ s[l].row = row
        <3>1. PICK l \in 1 .. c - 1 : s[l].do = "row" /\ s[l].row = row
            BY <2>2
        <3>2. l \in DOMAIN s
            BY <1>4, <1>7, SeqFacts
        <3>3. PICK j \in 1 .. m : row = pairing(j)
            BY <1>10, <3>1, <3>2
        <3>4. table(row) = "animalTraits"
            BY <3>3 DEF pairing, AnimalTraitRow, table
        <3>5. QED
            BY <1>12, <3>4 DEF IsAnimal
    <2>3. QED
        BY <1>12, <2>1, <2>2 DEF Gathers
<1>13. ASSUME NEW trait \in animal.traits PROVE Gathers(s, c, items, AnimalTraitRow(animal, trait))
    <2>1. PICK j \in 1 .. m : order[j] = trait
        BY <1>4
    <2>2. 2 * j - 1 \in 1 .. c - 1 /\ 2 * j - 1 \in 1 .. c
        BY <1>4, <1>8
    <2>3. s[2 * j - 1].do = "row" /\ s[2 * j - 1].row = AnimalTraitRow(animal, trait)
        BY <1>8, <2>1 DEF pairing
    <2>4. QED
        BY <1>11, <2>2, <2>3 DEF Gathers
<1>14. CompleteAt(s, c, items)
    BY <1>12, <1>13 DEF CompleteAt
<1>15. QED
    BY <1>10, <1>14 DEF WholePlan

(* Whatever a call plans makes whole change sets. *)
LEMMA WholeCallPlan ==
    ASSUME Stored, OwnKnown, OwnTimes, NEW n \in Nodes, NEW call \in Calls, NEW items, items = {}
    PROVE  WholePlan(plan(n, call), items)
<1>1. call.op \in {"updateAnimal", "updateSpeciesImage", "issueInvoice"}
    BY StoreAssumption
<1>2. WholePlan(<<>>, items)
    BY NoAnimalShort, WholeNoAnimal
<1>3. CASE call.op = "updateAnimal"
    <2>1. plan(n, call) = updateAnimalNow(n, call)
        BY <1>3 DEF plan
    <2>2. QED
        BY <1>2, <2>1, AnimalPlanned, WholeAnimalPlan
<1>4. CASE call.op = "updateSpeciesImage"
    <2>1. plan(n, call) = updateSpeciesImageNow(n, call)
        BY <1>4 DEF plan
    <2>2. ASSUME NEW previous
          PROVE  NoAnimal(imageAndRow(call.image, previous))
        <3>1. ~IsAnimal(SpeciesRow(call.image))
            BY DEF IsAnimal, SpeciesRow, table
        <3>2. QED
            BY <3>1, NoAnimalShort, NoAnimalConcat DEF imageAndRow
    <2>3. QED
        BY <2>1, <2>2, ImagePlanned, NoAnimalShort, WholeNoAnimal
<1>5. CASE call.op = "issueInvoice"
    <2>1. plan(n, call) = writeInvoiceNow(n)
        BY <1>5 DEF plan
    <2>2. ASSUME NEW sequence, NEW customer, NEW animal
          PROVE  NoAnimal(writeRow(InvoiceRow(sequence, customer), {})
                    \o writeRow(InvoiceItemRow(InvoiceRow(sequence, customer), 1, animal), {})
                    \o recordChangeSet)
        <3>1. /\ ~IsAnimal(InvoiceRow(sequence, customer))
              /\ ~IsAnimal(InvoiceItemRow(InvoiceRow(sequence, customer), 1, animal))
            BY DEF IsAnimal, InvoiceRow, InvoiceItemRow, table
        <3>2. QED
            BY <3>1, NoAnimalShort, NoAnimalConcat
    <2>3. QED
        BY <1>2, <2>1, <2>2, InvoicePlanned, WholeNoAnimal
<1>6. QED
    BY <1>1, <1>3, <1>4, <1>5

(* What a plan has written for the change set by its k-th write. *)
Wrote(s, k, row) == \E j \in 1 .. k - 1 : s[j].do = "row" /\ s[j].row = row /\ Since(s, j, k)

(* That has a pairing for each trait of each animal. *)
WroteWhole(s, k) ==
    \A animal : Wrote(s, k, animal) /\ IsAnimal(animal) =>
        \A trait \in animal.traits : Wrote(s, k, AnimalTraitRow(animal, trait))

(* A plan that records whole change sets, and all that it writes. *)
Settled(s) == \A j \in DOMAIN s : s[j].do = "row" => \E h \in DOMAIN s : h >= j /\ s[h].do = "held"

(* Such a plan, and none of its pairings is still to be planned. *)
SettledPlan(s) ==
    /\ IsSeq(s)
    /\ \A k \in DOMAIN s : /\ s[k].do # "pairings"
                           /\ s[k].do = "changeSet" => WroteWhole(s, k)
    /\ Settled(s)

(* One such plan after another is one. *)
LEMMA SettledConcat ==
    ASSUME NEW s, NEW t, SettledPlan(s), SettledPlan(t)
    PROVE  SettledPlan(s \o t)
<1>1. IsSeq(s) /\ IsSeq(t)
    BY DEF SettledPlan
<1>2. PICK st, m, l : st = s \o t /\ m = Len(s) /\ l = Len(t)
    OBVIOUS
<1>3. Joined(s, t, m, l, st)
    BY <1>1, <1>2, ConcatAt
<1>4. /\ m \in Nat /\ l \in Nat /\ IsSeq(st) /\ Len(st) = m + l
      /\ \A i \in 1 .. m : st[i] = s[i]
      /\ \A i \in 1 .. l : st[i + m] = t[i]
    BY <1>3 DEF Joined
<1>5. DOMAIN s = 1 .. m /\ DOMAIN t = 1 .. l /\ DOMAIN st = 1 .. m + l
    BY <1>1, <1>2, <1>4, SeqFacts
<1>6. ASSUME NEW k \in 1 .. m, NEW row PROVE Wrote(st, k, row) <=> Wrote(s, k, row)
    <2>1. \A j \in 1 .. k - 1 : j \in 1 .. m /\ st[j] = s[j]
        BY <1>4
    <2>2. \A j \in 1 .. k - 1 : Since(st, j, k) <=> Since(s, j, k)
        BY <2>1 DEF Since
    <2>3. QED
        BY <2>1, <2>2 DEF Wrote
<1>7. ASSUME NEW k \in 1 .. l, NEW km, km = k + m, NEW row
      PROVE  Wrote(st, km, row) <=> Wrote(t, k, row)
    <2>0. km \in Int /\ k \in Int /\ km = k + m
        BY <1>4, <1>7
    <2>1. ASSUME NEW j \in 1 .. k - 1, NEW jm, jm = j + m
          PROVE  /\ jm \in 1 .. km - 1 /\ st[jm] = t[j]
                 /\ Since(st, jm, km) <=> Since(t, j, k)
        <3>1. jm \in 1 .. km - 1 /\ st[jm] = t[j]
            BY <1>4, <2>0, <2>1
        <3>2. ASSUME Since(t, j, k) PROVE Since(st, jm, km)
            <4>1. ASSUME NEW h \in jm .. km - 1 PROVE st[h].do # "held"
                <5>1. PICK g : g = h - m
                    OBVIOUS
                <5>2. g \in j .. k - 1 /\ g \in 1 .. l /\ g + m = h
                    BY <1>4, <2>0, <2>1, <5>1
                <5>3. st[h] = t[g]
                    BY <1>4, <5>2
                <5>4. QED
                    BY <3>2, <5>2, <5>3 DEF Since
            <4>2. QED
                BY <4>1 DEF Since
        <3>3. ASSUME Since(st, jm, km) PROVE Since(t, j, k)
            <4>1. ASSUME NEW g \in j .. k - 1 PROVE t[g].do # "held"
                <5>1. PICK h : h = g + m
                    OBVIOUS
                <5>2. h \in jm .. km - 1 /\ g \in 1 .. l
                    BY <1>4, <2>0, <2>1, <5>1
                <5>3. st[h] = t[g]
                    BY <1>4, <5>1, <5>2
                <5>4. QED
                    BY <3>3, <5>2, <5>3 DEF Since
            <4>2. QED
                BY <4>1 DEF Since
        <3>4. QED
            BY <3>1, <3>2, <3>3
    <2>2. ASSUME Wrote(t, k, row) PROVE Wrote(st, km, row)
        <3>1. PICK j \in 1 .. k - 1 : t[j].do = "row" /\ t[j].row = row /\ Since(t, j, k)
            BY <2>2 DEF Wrote
        <3>2. PICK jm : jm = j + m
            OBVIOUS
        <3>3. jm \in 1 .. km - 1 /\ st[jm] = t[j] /\ Since(st, jm, km)
            BY <2>1, <3>1, <3>2
        <3>4. QED
            BY <3>1, <3>3 DEF Wrote
    <2>3. ASSUME Wrote(st, km, row) PROVE Wrote(t, k, row)
        <3>1. PICK j \in 1 .. km - 1 : st[j].do = "row" /\ st[j].row = row /\ Since(st, j, km)
            BY <2>3 DEF Wrote
        <3>2. CASE j \in 1 .. m
            <4>1. s[j].do = "row"
                BY <1>4, <3>1, <3>2
            <4>2. PICK h \in 1 .. m : h >= j /\ s[h].do = "held"
                BY <1>5, <3>2, <4>1 DEF SettledPlan, Settled
            <4>3. h \in j .. km - 1 /\ st[h].do = "held"
                BY <1>4, <2>0, <4>2
            <4>4. QED
                BY <3>1, <4>3 DEF Since
        <3>3. CASE j \notin 1 .. m
            <4>1. PICK i : i = j - m
                OBVIOUS
            <4>2. i \in 1 .. k - 1 /\ j = i + m
                BY <1>4, <2>0, <3>1, <3>3, <4>1
            <4>3. st[j] = t[i] /\ (Since(st, j, km) <=> Since(t, i, k))
                BY <2>1, <4>2
            <4>4. QED
                BY <3>1, <4>2, <4>3 DEF Wrote
        <3>4. QED
            BY <3>2, <3>3
    <2>4. QED
        BY <2>2, <2>3
<1>8. ASSUME NEW k \in DOMAIN st
      PROVE  k \in 1 .. m \/ (k - m \in 1 .. l /\ (k - m) + m = k)
    BY <1>4, <1>5
<1>9. ASSUME NEW k \in DOMAIN st
      PROVE  st[k].do # "pairings" /\ (st[k].do = "changeSet" => WroteWhole(st, k))
    <2>1. CASE k \in 1 .. m
        <3>1. st[k] = s[k] /\ k \in DOMAIN s
            BY <1>4, <1>5, <2>1
        <3>2. WroteWhole(s, k) => WroteWhole(st, k)
            BY <1>6, <2>1 DEF WroteWhole
        <3>3. QED
            BY <3>1, <3>2 DEF SettledPlan
    <2>2. CASE k - m \in 1 .. l /\ (k - m) + m = k
        <3>1. PICK i \in 1 .. l : i + m = k
            BY <2>2
        <3>2. st[k] = t[i] /\ i \in DOMAIN t
            BY <1>4, <1>5, <3>1
        <3>3. WroteWhole(t, i) => WroteWhole(st, k)
            BY <1>7, <3>1 DEF WroteWhole
        <3>4. QED
            BY <3>2, <3>3 DEF SettledPlan
    <2>3. QED
        BY <1>8, <2>1, <2>2
<1>10. Settled(st)
    <2>1. ASSUME NEW j \in DOMAIN st, st[j].do = "row"
          PROVE  \E h \in DOMAIN st : h >= j /\ st[h].do = "held"
        <3>1. CASE j \in 1 .. m
            <4>1. s[j].do = "row" /\ j \in DOMAIN s
                BY <1>4, <1>5, <2>1, <3>1
            <4>2. PICK h \in 1 .. m : h >= j /\ s[h].do = "held"
                BY <1>5, <4>1 DEF SettledPlan, Settled
            <4>3. h \in DOMAIN st /\ st[h].do = "held"
                BY <1>4, <1>5, <4>2
            <4>4. QED
                BY <4>2, <4>3
        <3>2. CASE j - m \in 1 .. l /\ (j - m) + m = j
            <4>1. PICK i \in 1 .. l : i + m = j
                BY <3>2
            <4>2. t[i].do = "row" /\ i \in DOMAIN t
                BY <1>4, <1>5, <2>1, <4>1
            <4>3. PICK h \in 1 .. l : h >= i /\ t[h].do = "held"
                BY <1>5, <4>2 DEF SettledPlan, Settled
            <4>4. h + m \in DOMAIN st /\ st[h + m].do = "held" /\ h + m >= j
                BY <1>4, <1>5, <4>1, <4>3
            <4>5. QED
                BY <4>4
        <3>3. QED
            BY <1>8, <2>1, <3>1, <3>2
    <2>2. QED
        BY <2>1 DEF Settled
<1>11. QED
    BY <1>2, <1>4, <1>9, <1>10 DEF SettledPlan

(* A seed part with an animal has its pairings. *)
LEMMA SeedPartWhole ==
    ASSUME NEW k \in DOMAIN seedPart, NEW i \in DOMAIN seedPart[k], IsAnimal(SeedRow(k, i)),
           NEW trait \in SeedRow(k, i).traits
    PROVE  \E j \in DOMAIN seedPart[k] : SeedRow(k, j) = AnimalTraitRow(SeedRow(k, i), trait)
<1>1. PICK animal : animal = SeedRow(k, i)
    OBVIOUS
<1>2. table(animal) = "animals"
    BY <1>1 DEF IsAnimal
<1>3. k = Len(seedTraits) + 3 /\ animal = SeedAnimal
    <2>1. table(SpeciesRow(SeedImage)) # "animals" /\ table(CustomerRow) # "animals"
        BY DEF table, SpeciesRow, CustomerRow
    <2>2. \A t : table(TraitRow(t)) # "animals"
        BY DEF table, TraitRow
    <2>3. \A t : table(AnimalTraitRow(SeedAnimal, t)) # "animals"
        BY DEF table, AnimalTraitRow
    <2>4. QED
        BY <1>1, <1>2, <2>1, <2>2, <2>3, SeedPlaces
<1>4. PICK t \in TraitIds : trait = TraitRow(t)
    BY <1>1, <1>3, SeedAnimalMade
<1>5. PICK j \in DOMAIN seedTraits : seedTraits[j] = t
    BY SeedTraits
<1>6. SeedRow(k, j + 1) = AnimalTraitRow(animal, trait)
    BY <1>3, <1>4, <1>5, SeedParts DEF SeedRow
<1>7. j + 1 \in DOMAIN seedPart[k]
    <2>1. IsSeq(seedPart[k]) /\ Len(seedPart[k]) = Len(seedTraits) + 1
        BY <1>3, SeedParts
    <2>2. DOMAIN seedPart[k] = 1 .. Len(seedTraits) + 1
        BY <2>1, SeqFacts
    <2>3. QED
        BY <2>2, SeedTraits
<1>8. QED
    BY <1>1, <1>6, <1>7

(* The plan of an entity of the seed is one. *)
LEMMA SeedSegmentSettled ==
    ASSUME NEW k \in DOMAIN seedPart
    PROVE  SettledPlan(SeedSegment(k))
<1>1. PICK s, m : s = SeedEntity(k) /\ m = Len(seedPart[k])
    OBVIOUS
<1>2. /\ m \in Nat /\ DOMAIN seedPart[k] = 1 .. m
      /\ IsSeq(s) /\ Len(s) = 2 * m + 2
      /\ \A i \in 1 .. m :
            /\ s[2 * i - 1] = PutRow(SeedRow(k, i))
            /\ s[2 * i] = PutSeedHistory(SeedRow(k, i), rowsBefore(k) + i)
      /\ s[2 * m + 1] = PutChangeSet
      /\ s[2 * m + 2] = PutHeld
    BY <1>1, SeedEntities
<1>3. m \in Nat /\ DOMAIN s = 1 .. 2 * m + 2
    BY <1>2, SeqFacts
<1>4. s[2 * m + 1].do = "changeSet" /\ s[2 * m + 2].do = "held"
    BY <1>2 DEF PutChangeSet, PutHeld
<1>5. ASSUME NEW i \in 1 .. m
      PROVE  /\ i \in Nat /\ 2 * i - 1 \in 1 .. 2 * m /\ 2 * i \in 1 .. 2 * m
             /\ s[2 * i - 1].do = "row" /\ s[2 * i - 1].row = SeedRow(k, i)
             /\ s[2 * i].do = "seed"
    <2>1. i \in Nat /\ 2 * i - 1 \in 1 .. 2 * m /\ 2 * i \in 1 .. 2 * m
        BY <1>3
    <2>2. s[2 * i - 1] = PutRow(SeedRow(k, i)) /\ \E j : s[2 * i] = PutSeedHistory(SeedRow(k, i), j)
        BY <1>2
    <2>3. QED
        BY <2>1, <2>2 DEF PutRow, PutSeedHistory
<1>6. ASSUME NEW j \in DOMAIN s
      PROVE  /\ s[j].do # "pairings"
             /\ s[j].do = "changeSet" => j = 2 * m + 1
             /\ s[j].do = "row" => \E i \in 1 .. m : j = 2 * i - 1
             /\ j \in 1 .. 2 * m => s[j].do # "held"
    <2>1. j \in 1 .. 2 * m + 2 /\ m \in Nat
        BY <1>3
    <2>2. CASE j = 2 * m + 1 \/ j = 2 * m + 2
        <3>1. j \notin 1 .. 2 * m /\ (j = 2 * m + 2 => j # 2 * m + 1)
            BY <2>1, <2>2
        <3>2. QED
            BY <1>4, <2>2, <3>1
    <2>3. CASE j \in 1 .. 2 * m
        <3>1. PICK i \in 1 .. m : j = 2 * i - 1 \/ j = 2 * i
            BY <2>1, <2>3, InPairs
        <3>2. (j = 2 * i - 1 /\ s[j].do = "row") \/ s[j].do = "seed"
            BY <1>5, <3>1
        <3>3. QED
            BY <3>2
    <2>4. QED
        BY <2>1, <2>2, <2>3, LastTwo
<1> DEFINE c == 2 * m + 1
<1>7. ASSUME NEW row, Wrote(s, c, row) PROVE \E i \in 1 .. m : row = SeedRow(k, i)
    <2>1. PICK j \in 1 .. c - 1 : s[j].do = "row" /\ s[j].row = row
        BY <1>7 DEF Wrote
    <2>2. j \in DOMAIN s
        BY <1>3
    <2>3. QED
        BY <1>5, <1>6, <2>1, <2>2
<1>8. ASSUME NEW i \in 1 .. m PROVE Wrote(s, c, SeedRow(k, i))
    <2>1. ASSUME NEW h \in 2 * i - 1 .. c - 1 PROVE s[h].do # "held"
        <3>1. h \in 1 .. 2 * m /\ h \in DOMAIN s
            BY <1>3
        <3>2. QED
            BY <1>6, <3>1
    <2>2. 2 * i - 1 \in 1 .. c - 1
        BY <1>3
    <2>3. QED
        BY <1>5, <2>1, <2>2 DEF Wrote, Since
<1>9. WroteWhole(s, c)
    <2>1. ASSUME NEW animal, Wrote(s, c, animal), IsAnimal(animal), NEW trait \in animal.traits
          PROVE  Wrote(s, c, AnimalTraitRow(animal, trait))
        <3>1. PICK i \in 1 .. m : animal = SeedRow(k, i)
            BY <1>7, <2>1
        <3>2. PICK j \in 1 .. m : SeedRow(k, j) = AnimalTraitRow(animal, trait)
            BY <1>2, <2>1, <3>1, SeedPartWhole
        <3>3. QED
            BY <1>8, <3>2
    <2>2. QED
        BY <2>1 DEF WroteWhole
<1>10. Settled(s)
    <2>1. 2 * m + 2 \in DOMAIN s /\ \A j \in DOMAIN s : 2 * m + 2 >= j
        BY <1>3
    <2>2. QED
        BY <1>4, <2>1 DEF Settled
<1>11. SettledPlan(s)
    BY <1>2, <1>6, <1>9, <1>10 DEF SettledPlan
<1>12. PICK b : b = IF k = 1 THEN <<PutBlob(SeedImage)>> ELSE <<>>
    OBVIOUS
<1>13. SettledPlan(b)
    <2>1. CASE k = 1
        <3>1. IsSeq(b) /\ Len(b) = 1 /\ b[1] = PutBlob(SeedImage)
            BY <1>12, <2>1, ShortSequences
        <3>2. DOMAIN b = {1} /\ b[1].do = "blob"
            BY <3>1, SeqFacts DEF PutBlob
        <3>3. QED
            BY <3>1, <3>2 DEF SettledPlan, Settled
    <2>2. CASE k # 1
        <3>1. IsSeq(b) /\ DOMAIN b = {}
            BY <1>12, <2>2, ShortPlans
        <3>2. QED
            BY <3>1 DEF SettledPlan, Settled
    <2>3. QED
        BY <2>1, <2>2
<1>14. SeedSegment(k) = s \o b
    BY <1>1, <1>12 DEF SeedSegment
<1>15. QED
    BY <1>11, <1>13, <1>14, SettledConcat

(* The seed is recorded in whole change sets. *)
LEMMA WholeSeedPlan ==
    ASSUME NEW items, items = {}
    PROVE  WholePlan(writeSeedPart, items)
<1>1. PICK U, ss : U = Elements(SeedSegments) /\ ss = SeedSegments
    OBVIOUS
<1>2. ss \in Seq(Seq(U))
    BY <1>1, SeedPlan, SequencesOfSequences
<1> DEFINE P == {p \in Seq(U) : SettledPlan(p)}
<1>3. <<>> \in P
    <2>1. SettledPlan(<<>>)
        BY ShortPlans DEF SettledPlan, Settled
    <2>2. QED
        BY <2>1, EmptySeq
<1>4. ASSUME NEW k \in 1 .. Len(ss), NEW p \in P PROVE p \o ss[k] \in P
    <2>1. ss[k] \in Seq(U)
        BY <1>2, ElementOfSeq
    <2>2. k \in DOMAIN seedPart /\ ss[k] = SeedSegment(k)
        BY <1>1, SeedPlan
    <2>3. SettledPlan(p \o ss[k])
        BY <2>2, SeedSegmentSettled, SettledConcat
    <2>4. p \o ss[k] \in Seq(U)
        BY <2>1, ConcatProperties
    <2>5. QED
        BY <2>3, <2>4
<1>5. FlattenSeq(ss) \in P
    <2>1. P \in SUBSET Seq(U)
        OBVIOUS
    <2> HIDE DEF P
    <2>2. QED
        BY <1>2, <1>3, <1>4, <2>1, FlattenStays
<1>6. PICK s : s = writeSeedPart
    OBVIOUS
<1>7. SettledPlan(s)
    BY <1>1, <1>5, <1>6, SeedPlan
<1>8. \A k, row : Gathers(s, k, items, row) <=> Wrote(s, k, row)
    BY DEF Gathers, Wrote, rowsOf
<1>9. WholePlan(s, items)
    BY <1>7, <1>8 DEF WholePlan, SettledPlan, CompleteAt, WroteWhole
<1>10. QED
    BY <1>6, <1>9

(* The change set of a pull is that of a pull before, or one a peer has. *)
PulledFrom(n, pull) ==
    \/ \E before \in pulls[n] : pull.changeSet = before.changeSet
    \/ \E p \in Nodes : pull.changeSet \in changeSets[p]

(* Where the change sets of a store come from, and those of its pulls. *)
LEMMA ChangeSetsGrow ==
    ASSUME StoreInv, Next, NEW m \in Nodes
    PROVE  /\ \A changeSet \in changeSets'[m] :
                \/ changeSet \in changeSets[m]
                \/ 1 \in DOMAIN chain[m] /\ Writes(m, 1, "changeSet") /\ changeSet = chain[m][1].items
                \/ \E pull \in pulls[m] : changeSet = pull.changeSet
           /\ \A pull \in pulls'[m] : PulledFrom(m, pull)
<1>1. PICK n \in Nodes :
        \/ Call(n) \/ Boot(n) \/ Serves(n) \/ Crash(n) \/ PullItems(n)
        \/ ReadInvoice(n) \/ ReadVersion(n) \/ ReadImage(n)
        \/ \E i \in DOMAIN chain[n] : JobStep(n, i)
        \/ \E pull \in pulls[n] : PullStep(n, pull)
    BY DEF Next
<1> DEFINE Sets ==
            \A changeSet \in changeSets'[m] :
                \/ changeSet \in changeSets[m]
                \/ 1 \in DOMAIN chain[m] /\ Writes(m, 1, "changeSet") /\ changeSet = chain[m][1].items
                \/ \E pull \in pulls[m] : changeSet = pull.changeSet
           Fetched == \A pull \in pulls'[m] : PulledFrom(m, pull)
<1>2. ASSUME changeSets' = changeSets PROVE Sets
    BY <1>2
<1>3. ASSUME pulls'[m] \subseteq pulls[m] PROVE Fetched
    BY <1>3 DEF PulledFrom
<1>4. ASSUME NEW others, others \subseteq pulls[n], NEW after,
             pulls' = [pulls EXCEPT ![n] = others \cup {after}], PulledFrom(n, after)
      PROVE  Fetched
    <2>1. pulls'[m] = pulls[m] \/ (m = n /\ pulls'[m] = others \cup {after})
        BY <1>4 DEF StoreInv, Shape
    <2>2. QED
        BY <1>3, <1>4, <2>1 DEF PulledFrom
<1>5. ASSUME NEW others, others \subseteq pulls[n], NEW pull, IsPull(pull), NEW items,
             WithItems(n, others, pull, items), PulledFrom(n, pull)
      PROVE  Fetched
    <2>1. PICK new : pulls' = [pulls EXCEPT ![n] = others \cup
                                {WalkSeenSet(pull, pull.walk \cup new, pull.seen \cup new)}]
        BY <1>5 DEF WithItems, WalkSeenSet
    <2>2. PICK after : after = WalkSeenSet(pull, pull.walk \cup new, pull.seen \cup new)
        OBVIOUS
    <2>3. after = PullRecord(pull.changeSet, pull.walk \cup new, pull.seen \cup new,
                             pull.pulled, pull.stage)
        BY <1>5, <2>2, PullWith
    <2>4. after.changeSet = pull.changeSet
        BY <2>3 DEF PullRecord
    <2>5. PulledFrom(n, after)
        BY <1>5, <2>4 DEF PulledFrom
    <2>6. QED
        BY <1>4, <1>5, <2>1, <2>2, <2>5
<1>6. CASE \/ Call(n) \/ Boot(n) \/ Serves(n) \/ Crash(n)
           \/ ReadInvoice(n) \/ ReadVersion(n) \/ ReadImage(n)
    <2>1. changeSets' = changeSets
        BY <1>6 DEF Call, Boot, Serves, Crash, ReadInvoice, ReadVersion, ReadImage, tables
    <2>2. pulls'[m] \subseteq pulls[m]
        BY <1>6 DEF Call, Boot, Serves, Crash, ReadInvoice, ReadVersion, ReadImage, StoreInv, Shape
    <2>3. QED
        BY <1>2, <1>3, <2>1, <2>2
<1>7. CASE PullItems(n)
    <2>1. PICK p, changeSet, pull :
            /\ p \in Peers(n) /\ changeSet \in held[p]
            /\ pull = PullRecord(changeSet, {}, {}, 0, "dependencies")
            /\ WithItems(n, pulls[n], pull, changeSet)
            /\ changeSets' = changeSets
        BY <1>7 DEF PullItems, PullRecord
    <2>2. IsPull(pull) /\ pull.changeSet = changeSet
        BY <2>1 DEF IsPull, PullRecord
    <2>3. p \in Nodes /\ changeSet \in changeSets[p]
        BY <2>1 DEF Peers, StoreInv, Kept
    <2>4. PulledFrom(n, pull)
        BY <2>2, <2>3 DEF PulledFrom
    <2>5. PICK others : others = pulls[n]
        OBVIOUS
    <2>6. WithItems(n, others, pull, changeSet) /\ others \subseteq pulls[n]
        BY <2>1, <2>5
    <2>7. QED
        BY <1>2, <1>5, <2>1, <2>2, <2>4, <2>6
<1>8. ASSUME NEW i \in DOMAIN chain[n], JobStep(n, i) PROVE Sets /\ Fetched
    <2>1. pulls' = pulls
        BY <1>8 DEF JobStep, Begin, WriteRow, WriteHistory, WriteSeedHistory, AddHistory, StoreImage,
            PlanPairings, WriteChangeSet, RecordChangeSet
    <2>2. CASE WriteChangeSet(n, i)
        <3>1. i = 1
            BY <2>2 DEF WriteChangeSet, Writes, pendingWrite
        <3>2. PICK items : items = chain[n][1].items
            OBVIOUS
        <3>3. Writes(n, 1, "changeSet") /\ changeSets' = [changeSets EXCEPT ![n] = @ \cup {items}]
            BY <2>2, <3>1, <3>2 DEF WriteChangeSet
        <3>4. changeSets'[m] = changeSets[m] \/ (m = n /\ changeSets'[m] = changeSets[m] \cup {items})
            BY <3>3 DEF StoreInv, Shape
        <3>5. Sets
            BY <1>8, <3>1, <3>2, <3>3, <3>4
        <3>6. QED
            BY <1>3, <2>1, <3>5
    <2>3. CASE ~WriteChangeSet(n, i)
        <3>1. changeSets' = changeSets
            BY <1>8, <2>3 DEF JobStep, Begin, WriteRow, WriteHistory, WriteSeedHistory, AddHistory,
                StoreImage, PlanPairings, RecordChangeSet, tables
        <3>2. QED
            BY <1>2, <1>3, <2>1, <3>1
    <2>4. QED
        BY <2>2, <2>3
<1>9. ASSUME NEW pull \in pulls[n], PullStep(n, pull) PROVE Sets /\ Fetched
    <2>0. IsPull(pull)
        BY <1>9 DEF StoreInv, Pulls, PullFits, IsPull, PullRecord
    <2>1. ASSUME NEW after, With(n, pull, after), after.changeSet = pull.changeSet PROVE Fetched
        <3>1. PICK others : others = pulls[n] \ {pull}
            OBVIOUS
        <3>2. pulls' = [pulls EXCEPT ![n] = others \cup {after}] /\ others \subseteq pulls[n]
            BY <2>1, <3>1 DEF With
        <3>3. PulledFrom(n, after)
            BY <1>9, <2>1 DEF PulledFrom
        <3>4. QED
            BY <1>4, <3>2, <3>3
    <2>2. ASSUME NEW walk, NEW after, after = WalkSet(pull, walk) PROVE after.changeSet = pull.changeSet
        BY <2>0, <2>2, PullWith DEF PullRecord
    <2>3. ASSUME NEW stage, NEW after, after = StageSet(pull, stage)
          PROVE  after.changeSet = pull.changeSet
        BY <2>0, <2>3, PullWith DEF PullRecord
    <2>4. CASE PullDependency(n, pull)
        <3> DEFINE walk == pull.walk \ {NextReference(pull)}
                   following == WalkSet(pull, walk)
                   served == UNION {Found(rows[p], history[p], NextReference(pull)) : p \in Peers(n)}
                   item == (CHOOSE i \in served : TRUE)
        <3>1. changeSets' = changeSets
            BY <2>4 DEF PullDependency
        <3>2. \/ With(n, pull, following)
              \/ WithItems(n, pulls[n] \ {pull}, PulledSet(following, following.pulled + 1), {item})
            BY <2>4 DEF PullDependency, WalkSet, PulledSet
        <3>3. following = PullRecord(pull.changeSet, walk, pull.seen, pull.pulled, pull.stage)
            BY <2>0, PullWith
        <3>4. CASE With(n, pull, following)
            <4>1. PICK after : after = following
                OBVIOUS
            <4>2. after.changeSet = pull.changeSet
                BY <2>2, <4>1
            <4>3. QED
                BY <1>2, <2>1, <3>1, <3>4, <4>1, <4>2
        <3>5. CASE WithItems(n, pulls[n] \ {pull}, PulledSet(following, following.pulled + 1), {item})
            <4>1. PICK next, others, items : /\ next = PulledSet(following, following.pulled + 1)
                                             /\ others = pulls[n] \ {pull}
                                             /\ items = {item}
                OBVIOUS
            <4>2. PICK f, pulled : f = following /\ pulled = following.pulled + 1
                OBVIOUS
            <4>3. IsPull(f) /\ f.changeSet = pull.changeSet
                BY <3>3, <4>2 DEF IsPull, PullRecord
            <4>4. next = PullRecord(f.changeSet, f.walk, f.seen, pulled, f.stage)
                BY <4>1, <4>2, <4>3, PullWith
            <4>5. IsPull(next) /\ next.changeSet = pull.changeSet
                BY <4>3, <4>4 DEF IsPull, PullRecord
            <4>6. PulledFrom(n, next)
                BY <1>9, <4>5 DEF PulledFrom
            <4>7. WithItems(n, others, next, items) /\ others \subseteq pulls[n]
                BY <3>5, <4>1
            <4>8. QED
                BY <1>2, <1>5, <3>1, <4>5, <4>6, <4>7
        <3>6. QED
            BY <3>2, <3>4, <3>5
    <2>5. CASE LeaveDependency(n, pull)
        <3>1. PICK walk : walk = IF pull.pulled = DependencyBound[n] THEN {}
                                 ELSE pull.walk \ {NextReference(pull)}
            OBVIOUS
        <3>2. PICK after : after = WalkSet(pull, walk)
            OBVIOUS
        <3>3. With(n, pull, after) /\ changeSets' = changeSets
            BY <2>5, <3>1, <3>2 DEF LeaveDependency, WalkSet, tables
        <3>4. QED
            BY <1>2, <2>1, <2>2, <3>2, <3>3
    <2>6. CASE PullBlobs(n, pull)
        <3>1. PICK after : after = StageSet(pull, "changeSet")
            OBVIOUS
        <3>2. With(n, pull, after) /\ changeSets' = changeSets
            BY <2>6, <3>1 DEF PullBlobs, StageSet, tables
        <3>3. QED
            BY <1>2, <2>1, <2>3, <3>1, <3>2
    <2>7. CASE WriteReceived(n, pull)
        <3>1. CASE pull.changeSet \in held[n]
            <4>1. pulls' = [pulls EXCEPT ![n] = @ \ {pull}] /\ changeSets' = changeSets
                BY <2>7, <3>1 DEF WriteReceived
            <4>2. pulls'[m] \subseteq pulls[m]
                BY <4>1 DEF StoreInv, Shape
            <4>3. QED
                BY <1>2, <1>3, <4>1, <4>2
        <3>2. CASE pull.changeSet \notin held[n]
            <4>1. PICK after : after = StageSet(pull, "held")
                OBVIOUS
            <4>2. /\ With(n, pull, after)
                  /\ changeSets' = [changeSets EXCEPT ![n] = @ \cup {pull.changeSet}]
                BY <2>7, <3>2, <4>1 DEF WriteReceived, StageSet
            <4>3. \/ changeSets'[m] = changeSets[m]
                  \/ m = n /\ changeSets'[m] = changeSets[m] \cup {pull.changeSet}
                BY <4>2 DEF StoreInv, Shape
            <4>4. Sets
                BY <1>9, <4>3
            <4>5. QED
                BY <2>1, <2>3, <4>1, <4>2, <4>4
        <3>3. QED
            BY <3>1, <3>2
    <2>8. CASE RecordReceived(n, pull)
        <3>1. pulls' = [pulls EXCEPT ![n] = @ \ {pull}] /\ changeSets' = changeSets
            BY <2>8 DEF RecordReceived
        <3>2. pulls'[m] \subseteq pulls[m]
            BY <3>1 DEF StoreInv, Shape
        <3>3. QED
            BY <1>2, <1>3, <3>1, <3>2
    <2>9. QED
        BY <1>9, <2>4, <2>5, <2>6, <2>7, <2>8 DEF PullStep
<1>10. QED
    BY <1>1, <1>6, <1>7, <1>8, <1>9

(* What the rest of a plan is to be recorded with. *)
LEMMA RestGathered ==
    ASSUME NEW m, NEW job, RestJob(m, job)
    PROVE  /\ IsSeq(chain[m][1].todo) /\ chain[m][1].todo # <<>>
           /\ Gathered(chain[m][1].todo, chain[m][1].items, job.items)
<1>1. PICK s, items, more : s = chain[m][1].todo /\ items = chain[m][1].items /\ more = job.items
    OBVIOUS
<1>2. IsSeq(s) /\ s # <<>> /\ \A k \in DOMAIN s : JobWrite(m, s, k, items)
    BY <1>1 DEF RestJob, Running
<1>3. 1 \in DOMAIN s
    BY <1>2, SeqFacts
<1>4. /\ s[1].do \in {"row", "history", "seed", "blob", "changeSet", "held"}
      /\ s[1].do = "row" => more = items \cup {s[1].row}
      /\ s[1].do \in {"history", "seed"} => \E v : IsHistoryRow(v) /\ more = items \cup {v}
      /\ s[1].do \in {"blob", "changeSet"} => more = items
      /\ s[1].do = "held" => more = {}
    BY <1>1 DEF RestJob
<1>5. CASE s[1].do = "row"
    <2>1. IsRow(s[1].row)
        BY <1>2, <1>3, <1>5 DEF JobWrite, FreshWrite
    <2>2. ~IsHistoryRow(s[1].row)
        BY <2>1, RowTables
    <2>3. rowsOf(more) = rowsOf(items) \cup {s[1].row}
        BY <1>4, <1>5, <2>2 DEF rowsOf
    <2>4. QED
        BY <1>1, <1>2, <1>5, <2>3 DEF Gathered
<1>6. CASE s[1].do \in {"history", "seed"}
    <2>1. rowsOf(more) = rowsOf(items)
        BY <1>4, <1>6 DEF rowsOf
    <2>2. QED
        BY <1>1, <1>2, <1>6, <2>1 DEF Gathered
<1>7. CASE s[1].do \in {"blob", "changeSet", "held"}
    BY <1>1, <1>2, <1>4, <1>7 DEF Gathered
<1>8. QED
    BY <1>4, <1>5, <1>6, <1>7

(* Every plan of a node stays one that records whole change sets. *)
LEMMA PlansWholeKept ==
    ASSUME StoreInv, WholeInv, Next, NEW m \in Nodes
    PROVE  PlansWhole(m)'
<1>1. ASSUME NEW i \in DOMAIN chain'[m], NEW job, job = chain'[m][i]
      PROVE  WholePlan(job.todo, job.items)
    <2>1. Comes(m, i, job)
        BY <1>1, ChainSteps
    <2>2. ASSUME 1 \in DOMAIN chain[m]
          PROVE  WholePlan(chain[m][1].todo, chain[m][1].items)
        BY <2>2 DEF WholeInv, PlansWhole
    <2>3. CASE job.todo = <<>>
        <3>1. DOMAIN job.todo = {}
            BY <2>3, ShortPlans
        <3>2. QED
            BY <3>1 DEF WholePlan
    <2>4. CASE 1 \in DOMAIN chain[m] /\ SameJob(m, job)
        BY <2>2, <2>4 DEF SameJob
    <2>5. CASE 1 \in DOMAIN chain[m] /\ RestJob(m, job)
        <3>1. PICK s, items, more : s = chain[m][1].todo /\ items = chain[m][1].items
                                    /\ more = job.items
            OBVIOUS
        <3>2. IsSeq(s) /\ s # <<>> /\ Gathered(s, items, more)
            BY <2>5, <3>1, RestGathered
        <3>3. WholePlan(s, items)
            BY <2>2, <2>5, <3>1
        <3>4. WholePlan(Tail(s), more)
            BY <3>2, <3>3, WholeRest
        <3>5. job.todo = Tail(s)
            BY <2>5, <3>1 DEF RestJob
        <3>6. QED
            BY <3>1, <3>4, <3>5
    <2>6. CASE BegunJob(m, job)
        <3>1. PICK items, call : items = job.items /\ call = chain[m][1].call
            OBVIOUS
        <3>2. items = {} /\ call \in Calls /\ job.todo = plan(m, call)
            BY <2>6, <3>1 DEF BegunJob, Waiting
        <3>3. WholePlan(plan(m, call), items)
            BY <3>2, WholeCallPlan DEF StoreInv
        <3>4. QED
            BY <3>1, <3>2, <3>3
    <2>7. CASE 1 \in DOMAIN chain[m] /\ PairingsJob(m, job)
        <3>1. PICK s, items : s = chain[m][1].todo /\ items = chain[m][1].items
            OBVIOUS
        <3>2. IsSeq(s) /\ s # <<>> /\ \A k \in DOMAIN s : JobWrite(m, s, k, items)
            BY <2>7, <3>1 DEF PairingsJob, Running
        <3>3. 1 \in DOMAIN s
            BY <3>2, SeqFacts
        <3>4. s[1].do = "pairings" /\ job.items = items
              /\ job.todo = writePairings(m, s[1].animal) \o recordChangeSet
            BY <2>7, <3>1 DEF PairingsJob
        <3>5. IsAnimal(s[1].animal)
            BY <3>2, <3>3, <3>4 DEF JobWrite, FreshWrite
        <3>6. PairingsAt(s, 1, items)
            BY <2>2, <2>7, <3>1, <3>3, <3>4 DEF WholePlan
        <3>7. OnlyAnimal(items, s[1].animal)
            BY <3>6, GathersFirst DEF PairingsAt, OnlyAnimal
        <3>8. PICK animal, todo : animal = s[1].animal
                                  /\ todo = writePairings(m, animal) \o recordChangeSet
            OBVIOUS
        <3>9. WholePlan(todo, items)
            BY <3>5, <3>7, <3>8, WholePairingsPlan
        <3>10. QED
            BY <3>4, <3>8, <3>9
    <2>8. CASE SeedingJob(job)
        <3>1. PICK items : items = job.items
            OBVIOUS
        <3>2. items = {} /\ job.todo = writeSeedPart
            BY <2>8, <3>1 DEF SeedingJob
        <3>3. QED
            BY <3>1, <3>2, WholeSeedPlan
    <2>9. QED
        BY <2>1, <2>3, <2>4, <2>5, <2>6, <2>7, <2>8 DEF Comes, Continues
<1>2. QED
    BY <1>1 DEF PlansWhole

(* Every change set that is recorded is whole. *)
LEMMA ChangeSetsWholeKept ==
    ASSUME StoreInv, WholeInv, Next, NEW m \in Nodes
    PROVE  ChangeSetsWhole(m)'
<1>1. \A p \in Nodes : ChangeSetsWhole(p)
    BY DEF WholeInv
<1>2. ASSUME 1 \in DOMAIN chain[m], Writes(m, 1, "changeSet")
      PROVE  Complete(chain[m][1].items)
    <2>1. PICK s, items : s = chain[m][1].todo /\ items = chain[m][1].items
        OBVIOUS
    <2>2. Running(m, chain[m][1]) /\ s[1].do = "changeSet"
        BY <1>2, <2>1, JobWriting DEF StoreInv
    <2>3. 1 \in DOMAIN s
        BY <2>1, <2>2, SeqFacts DEF Running
    <2>4. WholePlan(s, items)
        BY <1>2, <2>1 DEF WholeInv, PlansWhole
    <2>5. CompleteAt(s, 1, items)
        BY <2>2, <2>3, <2>4 DEF WholePlan
    <2>6. QED
        BY <2>1, <2>5, CompleteFirst
<1>3. ASSUME NEW changeSet \in changeSets'[m] PROVE Complete(changeSet)
    <2>1. \/ changeSet \in changeSets[m]
          \/ /\ 1 \in DOMAIN chain[m] /\ Writes(m, 1, "changeSet")
             /\ changeSet = chain[m][1].items
          \/ \E pull \in pulls[m] : changeSet = pull.changeSet
        BY <1>3, ChangeSetsGrow
    <2>2. QED
        BY <1>1, <1>2, <2>1 DEF ChangeSetsWhole
<1>4. ASSUME NEW pull \in pulls'[m] PROVE Complete(pull.changeSet)
    <2>1. PulledFrom(m, pull)
        BY <1>4, ChangeSetsGrow
    <2>2. QED
        BY <1>1, <2>1 DEF ChangeSetsWhole, PulledFrom
<1>5. QED
    BY <1>3, <1>4 DEF ChangeSetsWhole

(* The change sets of the seed are whole. *)
LEMMA SeedChangeSetsWhole ==
    ASSUME NEW n, NEW changeSet \in seedChangeSets(n)
    PROVE  Complete(changeSet)
<1>1. PICK k \in DOMAIN seedPart : changeSet = seedChangeSet(n, seedPart[k], rowsBefore(k))
    BY DEF seedChangeSets
<1>2. ASSUME NEW i \in DOMAIN seedPart[k] PROVE SeedRow(k, i) \in rowsOf(changeSet)
    <2>1. SeedRow(k, i) \in changeSet
        BY <1>1 DEF seedChangeSet, SeedRow
    <2>2. IsRow(SeedRow(k, i))
        BY SeedPlaces
    <2>3. QED
        BY <2>1, <2>2, RowTables DEF rowsOf
<1>3. ASSUME NEW row \in rowsOf(changeSet) PROVE \E i \in DOMAIN seedPart[k] : row = SeedRow(k, i)
    <2>1. ASSUME NEW i PROVE IsHistoryRow(HistoryRow(seedTimeId(n, rowsBefore(k) + i), seedPart[k][i], {}, "seed"))
        BY DEF IsHistoryRow, HistoryRow
    <2>2. QED
        BY <1>1, <1>3, <2>1 DEF rowsOf, seedChangeSet, SeedRow
<1>4. QED
    BY <1>2, <1>3, SeedPartWhole DEF Complete

(* WholeInv holds at first. *)
LEMMA WholeStarts == Init => WholeInv
<1> SUFFICES ASSUME Init, NEW n \in Nodes PROVE ChangeSetsWhole(n) /\ PlansWhole(n)
    BY DEF WholeInv
<1>1. changeSets[n] \subseteq seedChangeSets(n) /\ chain[n] = <<>> /\ pulls[n] = {}
    BY DEF Init
<1>2. ChangeSetsWhole(n)
    BY <1>1, SeedChangeSetsWhole DEF ChangeSetsWhole
<1>3. DOMAIN chain[n] = {}
    BY <1>1, ShortPlans
<1>4. QED
    BY <1>2, <1>3 DEF PlansWhole

(* It stays when nothing happens. *)
LEMMA WholeStays == WholeInv /\ UNCHANGED vars => WholeInv'
BY DEF WholeInv, ChangeSetsWhole, PlansWhole, vars, tables

(* Every change set that any store has, pulls or is going to record holds, for each animal     *)
(* version in it, the pairings of all its traits: the animal row is never recorded without its *)
(* junction rows.                                                                              *)
THEOREM WholeInvariant == Spec => []WholeInv
<1>1. Init => WholeInv
    BY WholeStarts
<1>2. StoreInv /\ WholeInv /\ [Next]_vars => WholeInv'
    <2>1. ASSUME StoreInv, WholeInv, Next PROVE WholeInv'
        BY <2>1, PlansWholeKept, ChangeSetsWholeKept DEF WholeInv
    <2>2. QED
        BY <2>1, WholeStays
<1>3. QED
    BY <1>1, <1>2, StoreInvariant, PTL DEF Spec

-----------------------------------------------------------------------------
(* Both representations of the relation. *)

(* An animal in a held change set is a row of the store, with its pairings. *)
LEMMA HeldAnimalsPaired ==
    ASSUME StoreInv, WholeInv, NEW n \in Nodes, NEW animal \in UNION held[n],
           "species" \in DOMAIN animal
    PROVE  /\ animal \in rows[n] /\ IsAnimal(animal)
           /\ \A trait \in animal.traits : AnimalTraitRow(animal, trait) \in rows[n]
<1>1. PICK changeSet \in held[n] : animal \in changeSet
    OBVIOUS
<1>2. changeSet \in changeSets[n] /\ changeSet \subseteq rows[n] \cup history[n]
    BY <1>1 DEF StoreInv, Kept
<1>3. /\ \A v \in history[n] : IsVersion(v)
      /\ \A row \in rows[n] : IsRow(row)
    BY DEF StoreInv, Stored
<1>4. \A v \in history[n] : IsHistoryRow(v) /\ "species" \notin DOMAIN v
    <2>1. ASSUME NEW v \in history[n] PROVE IsHistoryRow(v) /\ "species" \notin DOMAIN v
        <3>1. IsVersion(v)
            BY <1>3
        <3>2. v = HistoryRow(v.timeId, v.row, v.previous, v.origin)
            BY <3>1 DEF IsVersion
        <3>3. "species" \notin DOMAIN v
            BY <3>2 DEF HistoryRow
        <3>4. QED
            BY <3>1, <3>3, VersionsAreHistory
    <2>2. QED
        BY <2>1
<1>5. animal \in rows[n]
    BY <1>1, <1>2, <1>4
<1>6. IsAnimal(animal) /\ animal \in rowsOf(changeSet)
    BY <1>1, <1>3, <1>5, RowTables DEF rowsOf
<1>7. Complete(changeSet)
    BY <1>2 DEF WholeInv, ChangeSetsWhole
<1>8. ASSUME NEW trait \in animal.traits PROVE AnimalTraitRow(animal, trait) \in rows[n]
    <2>1. PICK row : row = AnimalTraitRow(animal, trait)
        OBVIOUS
    <2>2. row \in changeSet /\ ~IsHistoryRow(row)
        BY <1>6, <1>7, <2>1 DEF Complete, rowsOf
    <2>3. QED
        BY <1>2, <1>4, <2>1, <2>2
<1>9. QED
    BY <1>5, <1>6, <1>8

(* For such an animal both representations read the same traits. *)
LEMMA HeldTraitsAgree ==
    ASSUME StoreInv, WholeInv, NEW n \in Nodes, NEW animal \in UNION held[n],
           "species" \in DOMAIN animal
    PROVE  traitsOf(rows[n], "junction", animal) = traitsOf(rows[n], "multi-reference", animal)
<1>1. /\ IsAnimal(animal)
      /\ \A trait \in animal.traits : AnimalTraitRow(animal, trait) \in rows[n]
    BY HeldAnimalsPaired
<1>2. ASSUME NEW row \in rows[n], table(row) = "animalTraits", row.animal = animal
      PROVE  row.trait \in animal.traits
    <2>1. IsRow(row)
        BY DEF StoreInv, Stored
    <2>2. IsPairing(row)
        BY <1>2, <2>1, RowTables
    <2>3. QED
        BY <1>2, <2>2 DEF IsPairing
<1>3. ASSUME NEW trait \in animal.traits
      PROVE  \E row \in rows[n] : table(row) = "animalTraits" /\ row.animal = animal
                                  /\ row.trait = trait
    <2>1. PICK row : row = AnimalTraitRow(animal, trait)
        OBVIOUS
    <2>2. row \in rows[n]
        BY <1>1, <2>1
    <2>3. table(row) = "animalTraits" /\ row.animal = animal /\ row.trait = trait
        BY <2>1 DEF AnimalTraitRow, table
    <2>4. QED
        BY <2>2, <2>3
<1>4. JunctionTraitRelation(rows[n], animal) = MultiReferenceTraitRelation(rows[n], animal)
    BY <1>2, <1>3 DEF JunctionTraitRelation, MultiReferenceTraitRelation
<1>5. QED
    BY <1>4 DEF traitsOf

(* With complete change sets both representations answer alike. *)
LEMMA ModesAgree == StoreInv /\ WholeInv => HeldModesAgree
<1> SUFFICES ASSUME StoreInv, WholeInv, NEW n \in Nodes, NEW heldAnimals,
                    heldAnimals = {row \in UNION held[n] : "species" \in DOMAIN row}
             PROVE  /\ \A animal \in heldAnimals :
                        animalDetail(n, "junction", animal) =
                            animalDetail(n, "multi-reference", animal)
                    /\ readRows(n, "animals") \subseteq heldAnimals =>
                        /\ getAnimalHistory(n, "junction") =
                                getAnimalHistory(n, "multi-reference")
                        /\ \A trait \in readRows(n, "traits") :
                            listAnimals(n, "junction", trait) =
                                listAnimals(n, "multi-reference", trait)
    BY DEF HeldModesAgree
<1>1. \A animal \in heldAnimals :
        traitsOf(rows[n], "junction", animal) = traitsOf(rows[n], "multi-reference", animal)
    BY HeldTraitsAgree
<1>2. \A animal \in heldAnimals :
        animalDetail(n, "junction", animal) = animalDetail(n, "multi-reference", animal)
    BY <1>1 DEF animalDetail
<1>3. ASSUME readRows(n, "animals") \subseteq heldAnimals
      PROVE  getAnimalHistory(n, "junction") = getAnimalHistory(n, "multi-reference")
    BY <1>1, <1>3 DEF getAnimalHistory
<1>4. ASSUME readRows(n, "animals") \subseteq heldAnimals, NEW trait
      PROVE  listAnimals(n, "junction", trait) = listAnimals(n, "multi-reference", trait)
    <2>1. \A row \in current(n, "animals") : row \in rows[n] /\ table(row) = "animals"
        BY CurrentRows DEF StoreInv
    <2>2. current(n, "animals") \subseteq heldAnimals
        BY <1>4, <2>1 DEF readRows
    <2>3. QED
        BY <1>1, <2>2 DEF listAnimals
<1>5. QED
    BY <1>2, <1>3, <1>4

(* The junction rows and the references on the animal row answer alike for every animal version *)
(* whose change set a store holds, in details, lists and history, however the change set got    *)
(* there (TRAIT_RELATION only chooses which of them is read).                                   *)
THEOREM HeldModesAgreeAlways == Spec => []HeldModesAgree
BY ModesAgree, StoreInvariant, WholeInvariant, PTL
=============================================================================
