------------------------------ MODULE FoldLemmas ------------------------------
(***************************************************************************)
(* Induction over the positions of a sequence, and that a fold from the    *)
(* left is what one expects: the tables its definition chooses from exist, *)
(* and one read off at the intervals 1..k takes one step at a time.  The   *)
(* library's induction theorem takes an operator, which the provers cannot *)
(* instantiate, so induction is stated here for the set of the numbers a   *)
(* claim holds of, and derived from the order on Nat being well-founded.   *)
(***************************************************************************)
EXTENDS Integers, SequencesExt, WellFoundedInduction, TLAPS

\* A set of numbers that is not empty has a least one.
LEMMA LeastElement ==
    ASSUME NEW T, T \subseteq Nat, T # {}
    PROVE  \E x \in T : \A y \in T : x <= y
<1> DEFINE R == {p \in Nat \X Nat : p[1] < p[2]}
<1>1. IsWellFoundedOn(R, Nat)
    BY NatLessThanWellFounded DEF OpToRel
<1>2. \E x \in T : \A y \in T : <<y, x>> \notin R
    <2> HIDE DEF R
    <2> QED BY <1>1, WFMin
<1>3. PICK x \in T : \A y \in T : <<y, x>> \notin R
    BY <1>2
<1>4. \A y \in T : x <= y
    <2> SUFFICES ASSUME NEW y \in T PROVE x <= y
        OBVIOUS
    <2>1. x \in Nat /\ y \in Nat
        OBVIOUS
    <2>2. ~(y < x)
        BY <1>3, <2>1
    <2> QED BY <2>1, <2>2
<1> QED BY <1>4

\* Induction on the numbers up to n, for the set S of those a claim holds of.
LEMMA InductionUpTo ==
    ASSUME NEW n \in Nat, NEW S, 0 \in S, \A k \in 1..n : k - 1 \in S => k \in S
    PROVE  \A k \in 0..n : k \in S
<1> DEFINE Out == {k \in 0..n : k \notin S}
<1>1. ASSUME Out # {} PROVE FALSE
    <2>1. Out \subseteq Nat
        OBVIOUS
    <2>2. PICK x \in Out : \A y \in Out : x <= y
        BY <1>1, <2>1, LeastElement
    <2>3. x \in 1..n /\ x - 1 \in 0..n /\ ~(x <= x - 1)
        OBVIOUS
    <2>4. x - 1 \in S
        BY <2>2, <2>3
    <2> QED BY <2>3, <2>4
<1> QED BY <1>1

\* The largest of 1..k.
LEMMA MaxOfInterval ==
    ASSUME NEW k \in Nat \ {0}
    PROVE  Max(1..k) = k
<1>1. k \in 1..k /\ \A y \in 1..k : k >= y
    OBVIOUS
<1>2. \A x \in 1..k : (\A y \in 1..k : x >= y) => x = k
    OBVIOUS
<1> QED BY <1>1, <1>2 DEF Max

\* Max is the largest element of a set of positions.
LEMMA MaxInside ==
    ASSUME NEW n \in Nat, NEW s \in SUBSET (1..n), s # {}
    PROVE  /\ Max(s) \in s /\ \A y \in s : Max(s) >= y
<1> DEFINE T == {n - i : i \in s}
<1>1. T \subseteq Nat /\ T # {}
    <2>1. PICK e \in s : TRUE
        OBVIOUS
    <2>2. n - e \in T
        BY <2>1
    <2>3. \A i \in s : n - i \in Nat
        OBVIOUS
    <2> QED BY <2>2, <2>3
<1>2. PICK x \in T : \A y \in T : x <= y
    BY <1>1, LeastElement
<1>3. PICK i \in s : x = n - i
    OBVIOUS
<1>4. \A y \in s : i >= y
    <2> TAKE y \in s
    <2>1. n - y \in T
        OBVIOUS
    <2> QED BY <2>1, <1>2, <1>3
<1> QED BY <1>4 DEF Max

\* g holds the results of a fold over the subsets of 1..k that takes their largest
\* element first, where step[<<x, i>>] is what position i makes of x.
IsTable(g, k, base, step) ==
    \A s \in SUBSET (1..k) :
       g[s] = IF s = {} THEN base ELSE step[<<g[s \ {Max(s)}], Max(s)>>]

\* There is such a table, whatever the step.
LEMMA FoldTable ==
    ASSUME NEW n \in Nat, NEW X, NEW base \in X, NEW step \in [X \X (1..n) -> X]
    PROVE  \E g \in [SUBSET (1..n) -> X] : IsTable(g, n, base, step)
<1> DEFINE Done == {k \in 0..n : \E g \in [SUBSET (1..k) -> X] : IsTable(g, k, base, step)}
<1>1. 0 \in Done
    <2> DEFINE h == [s \in SUBSET (1..0) |-> base]
    <2>1. h \in [SUBSET (1..0) -> X]
        OBVIOUS
    <2>2. \A s \in SUBSET (1..0) : s = {}
        OBVIOUS
    <2>3. IsTable(h, 0, base, step)
        BY <2>2 DEF IsTable
    <2>4. 0 \in 0..n
        OBVIOUS
    <2> HIDE DEF h
    <2> QED BY <2>1, <2>3, <2>4
<1>2. ASSUME NEW k \in 1..n, k - 1 \in Done PROVE k \in Done
    <2>1. PICK g \in [SUBSET (1..k - 1) -> X] : IsTable(g, k - 1, base, step)
        BY <1>2
    <2> DEFINE L == SUBSET (1..k - 1)
               B == SUBSET (1..k)
    <2>2. /\ L \subseteq B /\ {} \in L
          /\ \A s \in B : s \ {k} \in L
          /\ \A s \in B : s \notin L => k \in s
          /\ \A s \in L, x \in 1..k : s \ {x} \in L
        OBVIOUS
    <2>3. \A s \in B : s \notin L => Max(s) = k /\ s # {}
        <3> SUFFICES ASSUME NEW s \in B, s \notin L PROVE Max(s) = k /\ s # {}
            OBVIOUS
        <3>1. k \in s /\ s \in SUBSET (1..k) /\ s # {} /\ k \in Nat
            BY <2>2
        <3>2. Max(s) \in s /\ \A y \in s : Max(s) >= y
            BY <3>1, MaxInside
        <3>3. Max(s) \in 1..k /\ Max(s) >= k
            BY <3>1, <3>2
        <3> QED BY <3>1, <3>3
    <2>4. \A s \in L : s # {} => Max(s) \in 1..k
        <3> SUFFICES ASSUME NEW s \in L, s # {} PROVE Max(s) \in 1..k
            OBVIOUS
        <3>1. s \in SUBSET (1..k) /\ k \in Nat
            OBVIOUS
        <3>2. Max(s) \in s
            BY <3>1, MaxInside
        <3> QED BY <3>1, <3>2
    <2>5. g \in [L -> X] /\ k \in 1..n
        OBVIOUS
    <2>6. \A s \in L : g[s] = IF s = {} THEN base ELSE step[<<g[s \ {Max(s)}], Max(s)>>]
        BY <2>1 DEF IsTable
    <2> DEFINE h == [s \in B |-> IF s \in L THEN g[s] ELSE step[<<g[s \ {k}], k>>]]
    <2> HIDE DEF L, B
    <2>7. h \in [B -> X]
        <3>1. \A s \in B : s \notin L => step[<<g[s \ {k}], k>>] \in X
            BY <2>2, <2>5
        <3> QED BY <3>1, <2>5
    <2>8. ASSUME NEW s \in B
          PROVE  h[s] = IF s = {} THEN base ELSE step[<<h[s \ {Max(s)}], Max(s)>>]
        <3>1. CASE s \in L /\ s = {}
            BY <3>1, <2>6
        <3>2. CASE s \in L /\ s # {}
            <4>1. s \ {Max(s)} \in L /\ s \ {Max(s)} \in B
                BY <3>2, <2>2, <2>4
            <4>2. h[s \ {Max(s)}] = g[s \ {Max(s)}]
                BY <4>1
            <4>3. h[s] = g[s]
                BY <3>2
            <4> QED BY <4>2, <4>3, <2>6, <3>2
        <3>3. CASE s \notin L
            <4>1. s \ {k} \in L /\ s \ {k} \in B /\ Max(s) = k /\ s # {}
                BY <3>3, <2>2, <2>3
            <4>2. h[s \ {k}] = g[s \ {k}] /\ h[s] = step[<<g[s \ {k}], k>>]
                BY <4>1, <3>3
            <4> QED BY <4>1, <4>2
        <3> QED BY <3>1, <3>2, <3>3
    <2>9. IsTable(h, k, base, step)
        BY <2>8 DEF IsTable, B
    <2>10. h \in [SUBSET (1..k) -> X] /\ k \in 0..n
        BY <2>7 DEF B
    <2> HIDE DEF h
    <2> QED BY <2>9, <2>10
<1>3. \A k \in 0..n : k \in Done
    <2> HIDE DEF Done
    <2> QED BY <1>1, <1>2, InductionUpTo
<1>4. n \in 0..n
    OBVIOUS
<1>5. n \in Done
    <2> HIDE DEF Done
    <2> QED BY <1>3, <1>4
<1> QED BY <1>5

\* From an interval 1..k a table of this kind goes on to 1..k - 1.
LEMMA IntervalStep ==
    ASSUME NEW n \in Nat, NEW k \in 1..n
    PROVE  /\ 1..k \in SUBSET (1..n) /\ 1..k # {}
           /\ Max(1..k) = k /\ (1..k) \ {Max(1..k)} = 1..k - 1
<1>1. k \in Nat \ {0}
    OBVIOUS
<1>2. Max(1..k) = k
    BY <1>1, MaxOfInterval
<1> QED BY <1>2
=============================================================================
