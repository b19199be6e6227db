---------------------------- MODULE PositionProofs ----------------------------
(* Facts about sets of positions: they have a least element, and finite ones  *)
(* a greatest.  What a recursive function over the positions up to n computes *)
(* is proved from the first: a property that failed somewhere would fail at a *)
(* least position.                                                            *)
EXTENDS Naturals, FiniteSetsExt, FiniteSetTheorems, TLAPS

\* A non-empty set of positions has a least element.
LEMMA LeastPosition ==
    ASSUME NEW S \in SUBSET Nat, S # {}
    PROVE  \E x \in S : \A y \in S : x <= y
<1> DEFINE Below == {0..n : n \in S}
           R == StrictSubsetOrdering(Nat)
<1>1. Below \subseteq FiniteSubsetsOf(Nat)
    <2>1. ASSUME NEW n \in S PROVE 0..n \in SUBSET Nat /\ IsFiniteSet(0..n)
        BY FS_Interval
    <2> QED
        BY <2>1 DEF FiniteSubsetsOf
<1>2. \E b \in Below : \A d \in Below : ~(<<d, b>> \in R)
    <2>1. Below # {}
        OBVIOUS
    <2> QED
        BY <1>1, <2>1, FS_StrictSubsetOrderingWellFounded, WFMin
<1>3. PICK x \in S : \A y \in S : ~(<<0..y, 0..x>> \in R)
    BY <1>2
<1>4. ASSUME NEW y \in S, y < x PROVE FALSE
    <2>1. 0..y \subseteq 0..x /\ 0..y # 0..x
        <3>1. x \in 0..x /\ x \notin 0..y
            BY <1>4
        <3> QED
            BY <1>4, <3>1
    <2>2. <<0..y, 0..x>> \in R
        <3> DEFINE low == 0..y
                   high == 0..x
        <3>1. low \in SUBSET Nat /\ high \in SUBSET Nat
            OBVIOUS
        <3>2. low \subseteq high /\ low # high
            BY <2>1
        <3> HIDE DEF low, high
        <3>3. <<low, high>> \in R
            BY <3>1, <3>2 DEF StrictSubsetOrdering
        <3> QED
            BY <3>3 DEF low, high
    <2> QED
        BY <1>3, <2>2
<1> QED
    BY <1>3, <1>4

\* What holds of 0, and of a position when it holds of the one before, holds up to k.
LEMMA UpTo ==
    ASSUME NEW k \in Nat, NEW S, 0 \in S, \A n \in 1 .. k : n - 1 \in S => n \in S
    PROVE  \A n \in 0 .. k : n \in S
<1> DEFINE Bad == {n \in 0 .. k : n \notin S}
<1>1. SUFFICES ASSUME Bad # {} PROVE FALSE
    OBVIOUS
<1>2. PICK n \in Bad : \A m \in Bad : n <= m
    <2>1. Bad \in SUBSET Nat
        OBVIOUS
    <2> QED
        BY <1>1, <2>1, LeastPosition
<1>3. n \in 1 .. k
    BY <1>2
<1>4. n - 1 \in 0 .. k /\ n - 1 \notin Bad
    BY <1>2, <1>3
<1> QED
    BY <1>2, <1>3, <1>4

\* A finite one has a greatest.
LEMMA GreatestPosition ==
    ASSUME NEW S \in SUBSET Nat, S # {}, IsFiniteSet(S)
    PROVE  \E x \in S : \A y \in S : x >= y
<1> DEFINE HasGreatest(U) == \E x \in U : \A y \in U : x >= y
           Bad == {n \in Nat : \E U \in SUBSET Nat :
                      U # {} /\ IsFiniteSet(U) /\ Cardinality(U) = n /\ ~HasGreatest(U)}
<1>1. SUFFICES ASSUME Bad # {} PROVE FALSE
    <2>1. Cardinality(S) \in Nat
        BY FS_CardinalityType
    <2> QED
        BY <1>1, <2>1
<1>2. PICK n \in Bad : \A k \in Bad : n <= k
    BY <1>1, LeastPosition
<1>3. PICK U \in SUBSET Nat : U # {} /\ IsFiniteSet(U) /\ Cardinality(U) = n /\ ~HasGreatest(U)
    BY <1>2
<1>4. PICK x \in U : TRUE
    BY <1>3
<1> DEFINE V == U \ {x}
<1>5. IsFiniteSet(V) /\ Cardinality(V) = n - 1
    BY <1>3, <1>4, FS_RemoveElement
<1>6. CASE V = {}
    BY <1>3, <1>4, <1>6
<1>7. CASE V # {}
    <2>1. n - 1 \in Nat
        BY <1>5, FS_CardinalityType
    <2>2. n - 1 \notin Bad
        BY <1>2, <2>1
    <2>3. HasGreatest(V)
        BY <1>5, <1>7, <2>1, <2>2
    <2>4. PICK m \in V : \A y \in V : m >= y
        BY <2>3
    <2>5. \E z \in {x, m} : \A y \in U : z >= y
        BY <1>3, <1>4, <2>4
    <2> QED
        BY <1>3, <1>4, <2>4, <2>5
<1> QED
    BY <1>6, <1>7

\* Max is the greatest position of a finite set.
LEMMA MaxOfPositions ==
    ASSUME NEW S \in SUBSET Nat, S # {}, IsFiniteSet(S)
    PROVE  Max(S) \in S /\ \A y \in S : Max(S) >= y
BY GreatestPosition DEF Max

\* The image of a finite set under a function is finite.
LEMMA FiniteImage ==
    ASSUME NEW S, NEW f, IsFiniteSet(S)
    PROVE  IsFiniteSet({f[x] : x \in S})
<1> DEFINE T == {f[x] : x \in S}
           g == [x \in S |-> f[x]]
<1>1. g \in Surjection(S, T)
    BY DEF Surjection
<1> QED
    BY <1>1, FS_Surjection

\* The positions of a finite set of rows.
LEMMA FiniteIds ==
    ASSUME NEW R, IsFiniteSet(R)
    PROVE  IsFiniteSet({r.id : r \in R})
<1> DEFINE f == [r \in R |-> r.id]
<1>1. {r.id : r \in R} = {f[r] : r \in R}
    OBVIOUS
<1> HIDE DEF f
<1>2. IsFiniteSet({f[r] : r \in R})
    BY FiniteImage
<1> QED
    BY <1>1, <1>2
=============================================================================
