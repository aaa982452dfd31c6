------------------------- MODULE CreditLedgerProofs -------------------------
(***************************************************************************)
(* Proofs about the credit ledger, for every set of holds, every price and *)
(* every order of purchases, refreshes and settlements.                    *)
(***************************************************************************)
EXTENDS CreditLedger, FiniteSetTheorems, WellFoundedInduction, TLAPS

-----------------------------------------------------------------------------
(* Sums over finite sets.  The library's fold is defined by recursion on  *)
(* the set; that the order of its choices does not matter is proved by     *)
(* induction on subsets.                                                   *)

\* A set of natural numbers that is not empty has a least one.
LEMMA LeastNat ==
    ASSUME NEW T, T \subseteq Nat, T # {}
    PROVE  \E n \in T : \A m \in T : n <= m
<1>1. PICK n \in T : \A m \in T : ~(<<m, n>> \in OpToRel(<, Nat))
    BY WFMin, NatLessThanWellFounded
<1>2. \A m \in T : ~(m < n)
    BY <1>1 DEF OpToRel
<1> QED
    BY <1>2

LEMMA NatInduct ==
    ASSUME NEW T, 0 \in T, \A n \in Nat : n \in T => n + 1 \in T
    PROVE  Nat \subseteq T
<1> SUFFICES ASSUME Nat \ T # {} PROVE FALSE
    OBVIOUS
<1>1. PICK n \in Nat \ T : \A m \in Nat \ T : n <= m
    BY LeastNat
<1>2. n # 0 /\ n - 1 \in Nat
    BY <1>1
<1>3. n - 1 \in T
    BY <1>1, <1>2
<1> QED
    BY <1>1, <1>2, <1>3

LEMMA SubsetInduct ==
    ASSUME NEW S, IsFiniteSet(S), NEW P,
           \A s \in SUBSET S : (\A x \in s : s \ {x} \in P) => s \in P
    PROVE  SUBSET S \subseteq P
<1> DEFINE T == {n \in Nat : \A s \in SUBSET S : Cardinality(s) = n => s \in P}
<1>1. \A s \in SUBSET S : IsFiniteSet(s) /\ Cardinality(s) \in Nat
    BY FS_Subset, FS_CardinalityType
<1>2. 0 \in T
    <2> SUFFICES ASSUME NEW s \in SUBSET S, Cardinality(s) = 0 PROVE s \in P
        OBVIOUS
    <2>1. s = {}
        BY <1>1, FS_EmptySet
    <2> QED
        BY <2>1
<1>3. ASSUME NEW n \in Nat, n \in T PROVE n + 1 \in T
    <2> SUFFICES ASSUME NEW s \in SUBSET S, Cardinality(s) = n + 1 PROVE s \in P
        OBVIOUS
    <2>1. ASSUME NEW x \in s PROVE s \ {x} \in P
        <3>1. Cardinality(s \ {x}) = n
            BY <1>1, FS_RemoveElement
        <3> QED
            BY <1>3, <3>1
    <2> QED
        BY <2>1
<1> HIDE DEF T
<1>4. Nat \subseteq T
    BY <1>2, <1>3, NatInduct
<1> QED
    BY <1>1, <1>4 DEF T

\* MapThenSumSet's and FoldSeq's sum: of the values w has on S, in the order CHOOSE picks.
Pick(s) == CHOOSE x \in s : TRUE

IsSum(f, w, S) ==
    f = [s \in SUBSET S |-> IF s = {} THEN 0 ELSE w[Pick(s)] + f[s \ {Pick(s)}]]

SumOver(w, S) == (CHOOSE f : IsSum(f, w, S))[S]

\* f sums w on the subsets of S with at most n elements.
SumsUpTo(f, w, S, n) ==
    \A s \in SUBSET S : Cardinality(s) <= n =>
        f[s] = IF s = {} THEN 0 ELSE w[Pick(s)] + f[s \ {Pick(s)}]

LEMMA Picked == ASSUME NEW s, s # {} PROVE Pick(s) \in s
BY DEF Pick

LEMMA SubsetCards ==
    ASSUME NEW S, IsFiniteSet(S), NEW s \in SUBSET S
    PROVE  /\ IsFiniteSet(s) /\ Cardinality(s) \in Nat /\ Cardinality(s) <= Cardinality(S)
           /\ \A x \in s : Cardinality(s \ {x}) = Cardinality(s) - 1
           /\ Cardinality(s) = 0 <=> s = {}
<1>1. IsFiniteSet(s) /\ Cardinality(s) <= Cardinality(S)
    BY FS_Subset
<1>2. \A x \in s : Cardinality(s \ {x}) = Cardinality(s) - 1
    BY <1>1, FS_RemoveElement
<1> QED
    BY <1>1, <1>2, FS_CardinalityType, FS_EmptySet

\* A finite set's sum is defined, by recursion on the size of its subsets.
LEMMA SumExists ==
    ASSUME NEW S, IsFiniteSet(S), NEW w, \A x \in S : w[x] \in Int
    PROVE  \E f \in [SUBSET S -> Int] : IsSum(f, w, S)
<1> DEFINE T == {n \in Nat : \E f \in [SUBSET S -> Int] : SumsUpTo(f, w, S, n)}
<1>1. 0 \in T
    <2> DEFINE f == [s \in SUBSET S |-> 0]
    <2>1. SumsUpTo(f, w, S, 0)
        <3> SUFFICES ASSUME NEW s \in SUBSET S, Cardinality(s) <= 0
                     PROVE  f[s] = IF s = {} THEN 0 ELSE w[Pick(s)] + f[s \ {Pick(s)}]
            BY DEF SumsUpTo
        <3>1. s = {}
            BY SubsetCards
        <3> QED
            BY <3>1
    <2>2. f \in [SUBSET S -> Int]
        OBVIOUS
    <2> HIDE DEF f
    <2> QED
        BY <2>1, <2>2
<1>2. ASSUME NEW n \in Nat, n \in T PROVE n + 1 \in T
    <2>1. PICK f \in [SUBSET S -> Int] : SumsUpTo(f, w, S, n)
        BY <1>2
    <2> DEFINE g == [s \in SUBSET S |-> IF s = {} THEN 0 ELSE w[Pick(s)] + f[s \ {Pick(s)}]]
    <2>2. g \in [SUBSET S -> Int]
        <3> SUFFICES ASSUME NEW s \in SUBSET S
                     PROVE  (IF s = {} THEN 0 ELSE w[Pick(s)] + f[s \ {Pick(s)}]) \in Int
            OBVIOUS
        <3>1. CASE s = {}
            BY <3>1
        <3>2. CASE s # {}
            <4>1. Pick(s) \in S /\ s \ {Pick(s)} \in SUBSET S
                BY <3>2, Picked
            <4> QED
                BY <3>2, <4>1, <2>1
        <3> QED
            BY <3>1, <3>2
    <2>3. SumsUpTo(g, w, S, n + 1)
        <3> SUFFICES ASSUME NEW s \in SUBSET S, Cardinality(s) <= n + 1, s # {}
                     PROVE  g[s] = w[Pick(s)] + g[s \ {Pick(s)}]
            BY DEF SumsUpTo
        <3> DEFINE r == s \ {Pick(s)}
        <3>1. Pick(s) \in s /\ r \in SUBSET S
            BY Picked
        <3>2. Cardinality(r) = Cardinality(s) - 1 /\ Cardinality(s) \in Nat
            BY <3>1, SubsetCards
        <3>3. Cardinality(r) <= n
            BY <3>2
        <3>4. g[r] = f[r]
            <4> HIDE DEF r, g
            <4>1. f[r] = IF r = {} THEN 0 ELSE w[Pick(r)] + f[r \ {Pick(r)}]
                BY <2>1, <3>1, <3>3 DEF SumsUpTo
            <4> QED
                BY <3>1, <4>1 DEF g
        <3>5. g[s] = w[Pick(s)] + f[r]
            OBVIOUS
        <3> QED
            BY <3>4, <3>5
    <2> HIDE DEF g
    <2> QED
        BY <2>2, <2>3
<1>3. Nat \subseteq T
    <2> HIDE DEF T
    <2> QED
        BY <1>1, <1>2, NatInduct
<1>4. PICK f \in [SUBSET S -> Int] : SumsUpTo(f, w, S, Cardinality(S))
    BY <1>3, FS_CardinalityType
<1>5. ASSUME NEW s \in SUBSET S
      PROVE  f[s] = IF s = {} THEN 0 ELSE w[Pick(s)] + f[s \ {Pick(s)}]
    BY <1>4, SubsetCards DEF SumsUpTo
<1> QED
    BY <1>4, <1>5 DEF IsSum

\* Two such sums agree on a subset on which the values do.
LEMMA SumsAgree ==
    ASSUME NEW S, NEW T, NEW U, U \subseteq S, U \subseteq T, IsFiniteSet(U),
           NEW v, NEW w, \A x \in U : v[x] = w[x],
           NEW f, IsSum(f, v, S), NEW g, IsSum(g, w, T)
    PROVE  f[U] = g[U]
<1> DEFINE P == {s \in SUBSET U : f[s] = g[s]}
<1>1. ASSUME NEW s \in SUBSET U, \A x \in s : s \ {x} \in P PROVE s \in P
    <2>1. /\ f[s] = IF s = {} THEN 0 ELSE v[Pick(s)] + f[s \ {Pick(s)}]
          /\ g[s] = IF s = {} THEN 0 ELSE w[Pick(s)] + g[s \ {Pick(s)}]
        BY DEF IsSum
    <2>2. CASE s = {}
        BY <2>1, <2>2
    <2>3. CASE s # {}
        <3>1. Pick(s) \in s
            BY <2>3, Picked
        <3>2. v[Pick(s)] = w[Pick(s)] /\ f[s \ {Pick(s)}] = g[s \ {Pick(s)}]
            BY <1>1, <3>1
        <3> QED
            BY <2>1, <2>3, <3>2
    <2> QED
        BY <2>2, <2>3
<1> HIDE DEF P
<1>2. SUBSET U \subseteq P
    BY <1>1, SubsetInduct
<1> QED
    BY <1>2 DEF P

\* SumOver is a sum.
LEMMA SumDefined ==
    ASSUME NEW S, IsFiniteSet(S), NEW w, \A x \in S : w[x] \in Int
    PROVE  \E f : /\ IsSum(f, w, S) /\ SumOver(w, S) = f[S]
                  /\ \A s \in SUBSET S : f[s] \in Int
<1>1. PICK h \in [SUBSET S -> Int] : IsSum(h, w, S)
    BY SumExists
<1>2. PICK f : IsSum(f, w, S) /\ SumOver(w, S) = f[S]
    <2> DEFINE c == CHOOSE f : IsSum(f, w, S)
    <2>1. IsSum(c, w, S)
        BY <1>1
    <2> QED
        BY <2>1 DEF SumOver
<1>3. SumOver(w, S) = h[S]
    BY <1>1, <1>2, SumsAgree
<1> QED
    BY <1>1, <1>3

\* Any element of a set may be taken first.
LEMMA SumTakesAny ==
    ASSUME NEW S, IsFiniteSet(S), NEW w, \A x \in S : w[x] \in Int,
           NEW f, IsSum(f, w, S), \A s \in SUBSET S : f[s] \in Int
    PROVE  \A x \in S : f[S] = w[x] + f[S \ {x}]
<1> DEFINE P == {s \in SUBSET S : \A x \in s : f[s] = w[x] + f[s \ {x}]}
<1>1. ASSUME NEW s \in SUBSET S, \A x \in s : s \ {x} \in P PROVE s \in P
    <2> SUFFICES ASSUME NEW x \in s PROVE f[s] = w[x] + f[s \ {x}]
        OBVIOUS
    <2> DEFINE c == Pick(s)
    <2>1. c \in s /\ f[s] = w[c] + f[s \ {c}]
        BY Picked DEF IsSum
    <2> HIDE DEF c
    <2>2. CASE x = c
        BY <2>1, <2>2
    <2>3. CASE x # c
        <3>1. f[s \ {c}] = w[x] + f[(s \ {c}) \ {x}]
            BY <1>1, <2>1, <2>3
        <3>2. f[s \ {x}] = w[c] + f[(s \ {x}) \ {c}]
            BY <1>1, <2>1, <2>3
        <3>3. (s \ {c}) \ {x} = (s \ {x}) \ {c} /\ (s \ {c}) \ {x} \in SUBSET S
            OBVIOUS
        <3> DEFINE a == w[x]
                   b == w[c]
                   d == f[(s \ {c}) \ {x}]
        <3>4. a \in Int /\ b \in Int /\ d \in Int
            BY <2>1, <3>3
        <3>5. f[s] = b + (a + d) /\ f[s \ {x}] = b + d
            BY <2>1, <3>1, <3>2, <3>3
        <3> HIDE DEF a, b, d
        <3>6. f[s] = a + f[s \ {x}]
            BY <3>4, <3>5
        <3> QED
            BY <3>6 DEF a
    <2> QED
        BY <2>2, <2>3
<1> HIDE DEF P
<1>2. SUBSET S \subseteq P
    BY <1>1, SubsetInduct
<1> QED
    BY <1>2 DEF P

\* The sum over nothing.
LEMMA SumOfNone == ASSUME NEW w PROVE SumOver(w, {}) = 0
<1>1. IsFiniteSet({})
    BY FS_EmptySet
<1>2. PICK f : IsSum(f, w, {}) /\ SumOver(w, {}) = f[{}]
    BY <1>1, SumDefined
<1> QED
    BY <1>2 DEF IsSum

LEMMA SumIsInt ==
    ASSUME NEW S, IsFiniteSet(S), NEW w, \A x \in S : w[x] \in Int
    PROVE  SumOver(w, S) \in Int
<1>1. PICK f : SumOver(w, S) = f[S] /\ \A s \in SUBSET S : f[s] \in Int
    BY SumDefined
<1> QED
    BY <1>1

\* Values that agree have one sum.
LEMMA SumOfSame ==
    ASSUME NEW S, IsFiniteSet(S), NEW v, NEW w, \A x \in S : v[x] \in Int /\ v[x] = w[x]
    PROVE  SumOver(v, S) = SumOver(w, S)
<1>1. PICK f : IsSum(f, v, S) /\ SumOver(v, S) = f[S]
    BY SumDefined
<1>2. PICK g : IsSum(g, w, S) /\ SumOver(w, S) = g[S]
    BY SumDefined
<1> QED
    BY <1>1, <1>2, SumsAgree

\* An element more or less.
LEMMA SumWithout ==
    ASSUME NEW S, IsFiniteSet(S), NEW w, \A x \in S : w[x] \in Int, NEW x \in S
    PROVE  SumOver(w, S) = w[x] + SumOver(w, S \ {x})
<1> DEFINE U == S \ {x}
<1>1. PICK f : /\ IsSum(f, w, S) /\ SumOver(w, S) = f[S]
               /\ \A s \in SUBSET S : f[s] \in Int
    BY SumDefined
<1>2. U \subseteq S /\ IsFiniteSet(U)
    BY FS_RemoveElement
<1>3. \A y \in S : f[S] = w[y] + f[S \ {y}]
    BY <1>1, SumTakesAny
<1>4. f[S] = w[x] + f[U]
    BY <1>3
<1> HIDE DEF U
<1>5. PICK g : IsSum(g, w, U) /\ SumOver(w, U) = g[U]
    BY <1>2, SumDefined
<1>6. f[U] = g[U]
    BY <1>1, <1>2, <1>5, SumsAgree
<1> QED
    BY <1>1, <1>4, <1>5, <1>6 DEF U

LEMMA SumWith ==
    ASSUME NEW S, IsFiniteSet(S), NEW x, x \notin S, NEW w,
           \A y \in S \cup {x} : w[y] \in Int
    PROVE  SumOver(w, S \cup {x}) = w[x] + SumOver(w, S)
<1>1. IsFiniteSet(S \cup {x}) /\ (S \cup {x}) \ {x} = S
    BY FS_AddElement
<1> QED
    BY <1>1, SumWithout

\* Natural numbers that add up to nothing are nothing.
LEMMA SumOfNats ==
    ASSUME NEW S, IsFiniteSet(S), NEW w, \A x \in S : w[x] \in Nat
    PROVE  SumOver(w, S) \in Nat
<1> DEFINE P == {s \in SUBSET S : SumOver(w, s) \in Nat}
<1>1. ASSUME NEW s \in SUBSET S, \A x \in s : s \ {x} \in P PROVE s \in P
    <2>1. CASE s = {}
        BY <2>1, SumOfNone
    <2>2. CASE s # {}
        <3>1. PICK x \in s : TRUE
            BY <2>2
        <3>2. IsFiniteSet(s)
            BY FS_Subset
        <3>3. SumOver(w, s) = w[x] + SumOver(w, s \ {x})
            BY <3>2, SumWithout
        <3> QED
            BY <1>1, <3>3
    <2> QED
        BY <2>1, <2>2
<1> HIDE DEF P
<1>2. SUBSET S \subseteq P
    BY <1>1, SubsetInduct
<1> QED
    BY <1>2 DEF P

\* One element's part of a sum changes.
LEMMA SumChanges ==
    ASSUME NEW S, IsFiniteSet(S), NEW T, NEW x, S \ {x} = T \ {x},
           NEW v, \A y \in S : v[y] \in Int, NEW w, \A y \in T : w[y] \in Int,
           \A y \in S \ {x} : v[y] = w[y]
    PROVE  /\ IsFiniteSet(T)
           /\ SumOver(w, T) = SumOver(v, S) - (IF x \in S THEN v[x] ELSE 0)
                                            + (IF x \in T THEN w[x] ELSE 0)
<1> DEFINE U == S \ {x}
<1>1. IsFiniteSet(U)
    BY FS_RemoveElement
<1>2. IsFiniteSet(T)
    <2>1. T = U \/ T = U \cup {x}
        OBVIOUS
    <2> HIDE DEF U
    <2> QED
        BY <1>1, <2>1, FS_AddElement
<1>3. SumOver(v, U) = SumOver(w, U) /\ SumOver(v, U) \in Int
    <2>1. \A y \in U : v[y] \in Int /\ v[y] = w[y]
        OBVIOUS
    <2> HIDE DEF U
    <2> QED
        BY <1>1, <2>1, SumOfSame, SumIsInt
<1>4. /\ SumOver(v, S) = SumOver(v, U) + (IF x \in S THEN v[x] ELSE 0)
      /\ (IF x \in S THEN v[x] ELSE 0) \in Int
    <2>1. CASE x \in S
        BY <1>3, <2>1, SumWithout
    <2>2. CASE x \notin S
        <3>1. U = S
            BY <2>2
        <3> HIDE DEF U
        <3> QED
            BY <1>3, <2>2, <3>1
    <2> QED
        BY <2>1, <2>2
<1>5. /\ SumOver(w, T) = SumOver(w, U) + (IF x \in T THEN w[x] ELSE 0)
      /\ (IF x \in T THEN w[x] ELSE 0) \in Int
    <2>1. CASE x \in T
        BY <1>2, <1>3, <2>1, SumWithout
    <2>2. CASE x \notin T
        <3>1. U = T
            BY <2>2
        <3> HIDE DEF U
        <3> QED
            BY <1>3, <2>2, <3>1
    <2> QED
        BY <2>1, <2>2
<1> DEFINE a == IF x \in S THEN v[x] ELSE 0
           b == IF x \in T THEN w[x] ELSE 0
<1>6. SumOver(w, T) = SumOver(v, S) - a + b
    <2> HIDE DEF a, b, U
    <2> QED
        BY <1>3, <1>4, <1>5 DEF a, b
<1> QED
    BY <1>2, <1>6

-----------------------------------------------------------------------------
(* Prices.                                                                 *)

USE LedgerAssumption

LEMMA AtLeastInt ==
    ASSUME NEW m \in Int, NEW n \in Int
    PROVE  AtLeast(m, n) \in Int /\ AtLeast(m, n) >= m /\ AtLeast(m, n) >= n
    BY DEF AtLeast

\* Prices are natural numbers, never below the minimum.
LEMMA NeededNat ==
    ASSUME NEW u \in Usages
    PROVE  Needed(u) \in Nat
<1> DEFINE q == (AtLeast(0, u.total - u.system) + TokensPerCredit - 1) \div TokensPerCredit
<1>1. u.total \in Nat /\ u.system \in Nat
    OBVIOUS
<1>2. AtLeast(0, u.total - u.system) \in Int
    BY <1>1, AtLeastInt
<1>3. q \in Int
    BY <1>2
<1> HIDE DEF q
<1>4. AtLeast(MinCredits, q) \in Nat
    BY <1>3 DEF AtLeast
<1>. QED
    BY <1>4 DEF Needed, q

-----------------------------------------------------------------------------
(* Types.                                                                  *)

HoldTyped ==
    /\ hold \in [Holds -> HoldType]
    /\ \A h \in Holds : ~FromBalance(h) => hold[h].of \in Grants

HistTyped ==
    /\ purchases \in Nat /\ purchased \in Nat /\ granted \in Int
    /\ held \in Int /\ heldPaid \in Int /\ charged \in Int /\ exhausted \in Nat

LEMMA ClosedHoldTyped ==
    ASSUME TypeOK, NEW h \in Holds, NEW s \in States, NEW price \in Nat, NEW charge \in Int,
           NEW took \in Int, NEW u \in Usages \cup {NoUsage},
           CloseHold(h, s, price, charge, took, u)
    PROVE  HoldTyped'
<1> DEFINE new == [hold[h] EXCEPT !.state = s, !.asked = price, !.charge = charge,
                                  !.took = took, !.usage = u, !.short = 0]
<1>1. hold[h] \in HoldType
    BY DEF TypeOK
<1>2. new \in HoldType
    BY <1>1 DEF HoldType
<1>3. hold' = [hold EXCEPT ![h] = new]
    BY <1>1 DEF TypeOK, CloseHold, HoldType
<1>4. new.of = hold[h].of /\ new.source = hold[h].source
    BY <1>1 DEF HoldType
<1> HIDE DEF new
<1>. QED
    BY <1>2, <1>3, <1>4 DEF TypeOK, HoldTyped, FromBalance

LEMMA ReleaseTyped ==
    ASSUME TypeOK, NEW h \in Holds, NEW charge \in Int, Release(h, charge)
    PROVE  HistTyped'
<1>1. hold[h].amount \in Int
    BY DEF TypeOK, HoldType
<1>. QED
    BY <1>1 DEF TypeOK, HistTyped, Release

LEMMA AnswerTyped ==
    ASSUME TypeOK, NEW h \in Holds, NEW c \in Int, Answer(h, c)
    PROVE  answers' \in [Holds -> SUBSET Int]
    BY DEF TypeOK, Answer

LEMMA SpendTyped ==
    ASSUME TypeOK, NEW n \in Int, SpendFreeFirst(n)
    PROVE  free' \in Int /\ paid' \in Int
    BY DEF TypeOK, SpendFreeFirst, AtLeast

LEMMA AddTyped ==
    ASSUME TypeOK, NEW n \in Int, NEW b, AddCredits(n, b)
    PROVE  free' \in Int /\ paid' \in Int
    BY DEF TypeOK, AddCredits

LEMMA AdjustTyped ==
    ASSUME TypeOK, NEW h \in Holds, NEW price \in Int, AdjustOnce(h, price)
    PROVE  free' \in Int /\ paid' \in Int
<1> DEFINE back == hold[h].amount - price
<1> DEFINE more == price - hold[h].amount
<1>1. hold[h].amount \in Int
    BY DEF TypeOK, HoldType
<1>2. back \in Int /\ more \in Int
    BY <1>1
<1>3. AddCredits(back, RefundBucket(h)) \/ SpendFreeFirst(more)
    BY DEF AdjustOnce
<1> HIDE DEF back, more
<1>4. CASE AddCredits(back, RefundBucket(h))
    BY <1>2, <1>4, AddTyped
<1>5. CASE SpendFreeFirst(more)
    BY <1>2, <1>5, SpendTyped
<1>. QED
    BY <1>3, <1>4, <1>5

LEMMA ShortTyped ==
    ASSUME TypeOK, NEW h \in Holds, NEW price \in Nat, NEW u \in Usages \cup {NoUsage},
           hold' = [hold EXCEPT ![h].short = price, ![h].usage = u]
    PROVE  HoldTyped'
<1> DEFINE new == [hold[h] EXCEPT !.short = price, !.usage = u]
<1>1. hold[h] \in HoldType
    BY DEF TypeOK
<1>2. new \in HoldType
    BY <1>1 DEF HoldType
<1>3. hold' = [hold EXCEPT ![h] = new]
    BY <1>1 DEF TypeOK, HoldType
<1>4. new.of = hold[h].of /\ new.source = hold[h].source
    BY <1>1 DEF HoldType
<1> HIDE DEF new
<1>. QED
    BY <1>2, <1>3, <1>4 DEF TypeOK, HoldTyped, FromBalance

LEMMA NewHoldTyped ==
    ASSUME TypeOK, NEW h \in Holds, NEW n \in Nat, NEW s \in Sources,
           NEW g \in Grants \cup {NoGrant}, s = "product_allowance" => g \in Grants,
           hold' = [hold EXCEPT ![h] = Unsettled("open", n, s, g)]
    PROVE  HoldTyped'
<1> DEFINE new == Unsettled("open", n, s, g)
<1>1. new \in HoldType
    BY DEF Unsettled, HoldType, States
<1>2. new.of = g /\ new.source = s
    BY DEF Unsettled
<1> HIDE DEF new
<1>3. hold' = [hold EXCEPT ![h] = new]
    BY DEF new
<1>. QED
    BY <1>1, <1>2, <1>3 DEF TypeOK, HoldTyped, FromBalance

LEMMA AllocTyped ==
    ASSUME TypeOK, NEW g \in Grants, NEW r \in Int, NEW c \in Int,
           alloc' = [alloc EXCEPT ![g].reserved = r, ![g].consumed = c]
    PROVE  alloc' \in [Grants -> [active : BOOLEAN, reserved : Int, consumed : Int]]
<1> DEFINE new == [alloc[g] EXCEPT !.reserved = r, !.consumed = c]
<1>1. new \in [active : BOOLEAN, reserved : Int, consumed : Int]
    BY DEF TypeOK
<1>2. alloc' = [alloc EXCEPT ![g] = new]
    BY DEF TypeOK
<1> HIDE DEF new
<1>. QED
    BY <1>1, <1>2 DEF TypeOK

LEMMA HoldFields ==
    ASSUME TypeOK, NEW h \in Holds
    PROVE  /\ hold[h] \in HoldType
           /\ hold[h].amount \in Nat /\ hold[h].short \in Nat /\ hold[h].asked \in Nat
           /\ hold[h].charge \in Int /\ hold[h].of \in Grants \cup {NoGrant}
           /\ hold[h].usage \in Usages \cup {NoUsage} /\ hold[h].source \in Sources
<1>1. hold[h] \in HoldType
    BY DEF TypeOK
<1>. QED
    BY <1>1 DEF HoldType

LEMMA MovedInt ==
    ASSUME TypeOK, free' \in Int, paid' \in Int, NEW h \in Holds, NEW price
    PROVE  Moved(h, price) \in Int
    BY HoldFields DEF Moved, TypeOK

LEMMA PriceNat ==
    ASSUME NEW p \in Prices
    PROVE  AtLeast(MinCredits, p) \in Nat
    BY DEF AtLeast

LEMMA ReserveTyped ==
    ASSUME TypeOK, NEW h \in Holds, NEW n \in Amounts, Reserve(h, n)
    PROVE  TypeOK'
<1>1. free' \in Int /\ paid' \in Int
    BY SpendTyped DEF Reserve
<1>2. FundingSourceOf(free') \in Sources \ {"product_allowance"}
    BY DEF FundingSourceOf, Sources
<1>3. HoldTyped'
    BY <1>2, NewHoldTyped DEF Reserve
<1>4. HistTyped'
    BY <1>1 DEF Reserve, TypeOK, HoldTyped, HistTyped, FromBalance
<1>. QED
    BY <1>1, <1>3, <1>4 DEF Reserve, TypeOK, HoldTyped, HistTyped, FromBalance

LEMMA ReserveProductTyped ==
    ASSUME TypeOK, NEW h \in Holds, NEW n \in Amounts, ReserveProduct(h, n)
    PROVE  TypeOK'
<1> DEFINE granting(g) == g = grant /\ Room(g) >= n
           more(g) == IF granting(g) THEN n ELSE 0
           row(g)  == [active   |-> g = grant,
                       reserved |-> alloc[g].reserved + more(g),
                       consumed |-> alloc[g].consumed]
<1>1. ASSUME NEW g \in Grants
      PROVE  row(g) \in [active : BOOLEAN, reserved : Int, consumed : Int]
  <2>1. alloc[g].reserved \in Int /\ alloc[g].consumed \in Int
      BY DEF TypeOK
  <2>2. more(g) \in Int
      OBVIOUS
  <2> DEFINE now == g = grant
             r   == alloc[g].reserved + more(g)
  <2>3. now \in BOOLEAN /\ r \in Int
      BY <2>1, <2>2
  <2> HIDE DEF now, r
  <2>4. [active |-> now, reserved |-> r, consumed |-> alloc[g].consumed]
            \in [active : BOOLEAN, reserved : Int, consumed : Int]
      BY <2>1, <2>3, Zenon
  <2>. QED
      BY <2>4 DEF now, r
<1>2. alloc' = [g \in Grants |-> row(g)]
    BY DEF ReserveProduct
<1>3. alloc' \in [Grants -> [active : BOOLEAN, reserved : Int, consumed : Int]]
  <2> HIDE DEF row
  <2>. QED
      BY <1>1, <1>2
<1>4. HoldTyped'
  <2>1. CASE hold' = hold
      BY <2>1 DEF TypeOK, HoldTyped, FromBalance
  <2>2. CASE /\ grant \in Grants
             /\ hold' = [hold EXCEPT ![h] = Unsettled("open", n, "product_allowance", grant)]
    <3>1. "product_allowance" \in Sources /\ grant \in Grants \cup {NoGrant} /\ n \in Nat
        BY DEF Sources, TypeOK
    <3>. QED
        BY <2>2, <3>1, NewHoldTyped
  <2>. QED
      BY <2>1, <2>2 DEF ReserveProduct
<1>. QED
    BY <1>3, <1>4 DEF ReserveProduct, TypeOK, HoldTyped, balance, history

LEMMA SettleTrackedTyped ==
    ASSUME TypeOK, NEW h \in Holds, NEW u \in Usages, SettleTracked(h, u)
    PROVE  TypeOK'
<1> DEFINE price == Needed(u)
           moved == Moved(h, price)
<1>1. price \in Nat
    BY NeededNat
<1>2. free' \in Int /\ paid' \in Int
    BY <1>1, AdjustTyped DEF SettleTracked, ZeroCredits
<1>3. moved \in Int
    BY <1>2, MovedInt
<1>4. /\ CloseHold(h, "settled", price, moved, moved, u)
      /\ Release(h, moved)
      /\ Answer(h, price)
    BY DEF SettleTracked
<1> HIDE DEF price, moved
<1>5. HoldTyped'
    BY <1>1, <1>3, <1>4, ClosedHoldTyped DEF States
<1>6. HistTyped'
    BY <1>3, <1>4, ReleaseTyped
<1>7. answers' \in [Holds -> SUBSET Int]
    BY <1>1, <1>4, AnswerTyped
<1>. QED
    BY <1>2, <1>5, <1>6, <1>7 DEF SettleTracked, TypeOK, HoldTyped, HistTyped, FromBalance

LEMMA SettleUnlockedAtTyped ==
    ASSUME TypeOK, NEW h \in Holds, NEW price \in Nat, NEW u \in Usages \cup {NoUsage},
           SettleUnlockedAt(h, price, u)
    PROVE  TypeOK'
<1>1. CASE FindShort(h, price, u)
    BY <1>1, ShortTyped DEF FindShort, TypeOK, HoldTyped, balance, history
<1>2. CASE /\ AdjustOnce(h, price)
           /\ CloseHold(h, "settled", price, price, price, u)
           /\ Release(h, price)
           /\ Answer(h, price)
           /\ UNCHANGED <<due, alloc, grant>>
  <2>1. free' \in Int /\ paid' \in Int
      BY <1>2, AdjustTyped
  <2>2. HoldTyped'
      BY <1>2, ClosedHoldTyped DEF States
  <2>3. HistTyped'
      BY <1>2, ReleaseTyped
  <2>4. answers' \in [Holds -> SUBSET Int]
      BY <1>2, AnswerTyped
  <2>. QED
      BY <1>2, <2>1, <2>2, <2>3, <2>4 DEF TypeOK, HoldTyped, HistTyped, FromBalance
<1>. QED
    BY <1>1, <1>2 DEF SettleUnlockedAt

LEMMA EmptyBalanceTyped ==
    ASSUME TypeOK, NEW h \in Holds, EmptyBalance(h)
    PROVE  TypeOK'
<1> DEFINE took == hold[h].amount + free + paid
<1>1. /\ hold[h].short \in Nat /\ took \in Int
      /\ hold[h].usage \in Usages \cup {NoUsage}
    BY HoldFields DEF TypeOK
<1>2. /\ CloseHold(h, "settled", hold[h].short, hold[h].short, took, hold[h].usage)
      /\ Release(h, hold[h].short)
      /\ Answer(h, hold[h].short)
    BY DEF EmptyBalance
<1> HIDE DEF took
<1>3. HoldTyped'
    BY <1>1, <1>2, ClosedHoldTyped DEF States
<1>4. HistTyped'
    BY <1>1, <1>2, ReleaseTyped
<1>5. answers' \in [Holds -> SUBSET Int]
    BY <1>1, <1>2, AnswerTyped
<1>. QED
    BY <1>3, <1>4, <1>5 DEF EmptyBalance, ZeroCredits, TypeOK, HoldTyped, HistTyped, FromBalance

LEMMA SettleProductTyped ==
    ASSUME TypeOK, NEW h \in Holds, NEW price \in Nat, NEW u \in Usages \cup {NoUsage},
           SettleProduct(h, price, u), hold[h].of \in Grants
    PROVE  TypeOK'
<1> DEFINE g == hold[h].of
           n == hold[h].amount
<1>1. g \in Grants /\ n \in Nat
    BY HoldFields
<1>2. /\ alloc[g].reserved \in Int /\ alloc[g].consumed \in Int
      /\ Included[g] \in Nat
    BY <1>1 DEF TypeOK
<1>3. PICK charge \in Int :
          /\ alloc' = [alloc EXCEPT ![g].reserved = @ - n, ![g].consumed = @ + charge]
          /\ CloseHold(h, "settled", price, charge, charge, u)
          /\ Answer(h, charge)
  <2>1. PICK fresh \in BOOLEAN :
            LET beyond == IF fresh /\ grant = g /\ alloc[g].active THEN Available(g) ELSE 0
                charge == IF price <= n + beyond THEN price ELSE n + beyond
            IN /\ alloc[g].reserved >= n
               /\ alloc' = [alloc EXCEPT ![g].reserved = @ - n, ![g].consumed = @ + charge]
               /\ CloseHold(h, "settled", price, charge, charge, u)
               /\ Answer(h, charge)
      BY DEF SettleProduct
  <2> DEFINE beyond == IF fresh /\ grant = g /\ alloc[g].active THEN Available(g) ELSE 0
             charge == IF price <= n + beyond THEN price ELSE n + beyond
  <2>2. beyond \in Int
      BY <1>2 DEF Available, Room
  <2> HIDE DEF beyond
  <2>3. charge \in Int
      BY <1>1, <2>2
  <2>. QED
      BY <2>1, <2>3 DEF beyond
<1>4. HoldTyped'
    BY <1>3, ClosedHoldTyped DEF States
<1>5. answers' \in [Holds -> SUBSET Int]
    BY <1>3, AnswerTyped
<1>6. alloc' = [alloc EXCEPT ![g].reserved = alloc[g].reserved - n,
                             ![g].consumed = alloc[g].consumed + charge]
    BY <1>1, <1>3 DEF TypeOK
<1>7. alloc[g].reserved - n \in Int /\ alloc[g].consumed + charge \in Int
    BY <1>1, <1>2, <1>3
<1>8. alloc' \in [Grants -> [active : BOOLEAN, reserved : Int, consumed : Int]]
  <2> HIDE DEF n, g
  <2>. QED
      BY <1>1, <1>6, <1>7, AllocTyped
<1>. QED
    BY <1>4, <1>5, <1>8 DEF SettleProduct, TypeOK, HoldTyped, balance

LEMMA RefundTyped ==
    ASSUME TypeOK, NEW h \in Holds, Refund(h)
    PROVE  TypeOK'
<1>1. free' \in Int /\ paid' \in Int
    BY HoldFields, AddTyped DEF Refund
<1>2. HoldTyped'
    BY ClosedHoldTyped DEF Refund, States
<1>3. HistTyped'
    BY ReleaseTyped DEF Refund
<1>. QED
    BY <1>1, <1>2, <1>3 DEF Refund, TypeOK, HoldTyped, HistTyped

LEMMA RefundProductTyped ==
    ASSUME TypeOK, NEW h \in Holds, RefundProduct(h)
    PROVE  TypeOK'
<1> DEFINE g == hold[h].of
           left == alloc[g].reserved - hold[h].amount
<1>1. g \in Grants
    BY DEF RefundProduct, TypeOK
<1>2. left \in Int /\ alloc[g].consumed \in Int
    BY <1>1, HoldFields DEF TypeOK
<1>3. alloc' = [alloc EXCEPT ![g].reserved = left, ![g].consumed = alloc[g].consumed]
    BY <1>1 DEF RefundProduct, TypeOK
<1>4. HoldTyped'
  <2>1. CloseHold(h, "refunded", 0, 0, 0, NoUsage) /\ "refunded" \in States
      BY DEF RefundProduct, States
  <2> HIDE DEF g, left
  <2>. QED
      BY <2>1, ClosedHoldTyped
<1> HIDE DEF g, left
<1>5. alloc' \in [Grants -> [active : BOOLEAN, reserved : Int, consumed : Int]]
    BY <1>1, <1>2, <1>3, AllocTyped
<1>. QED
    BY <1>4, <1>5 DEF RefundProduct, TypeOK, HoldTyped, balance, history

LEMMA ReplayTyped ==
    ASSUME TypeOK, NEW h \in Holds, NEW u \in Usages, ReplayTracked(h, u)
    PROVE  TypeOK'
<1>1. ReplayAnswer(h) \in Int
    BY HoldFields DEF ReplayAnswer
<1>2. answers' \in [Holds -> SUBSET Int]
    BY <1>1, AnswerTyped DEF ReplayTracked
<1>. QED
    BY <1>2 DEF ReplayTracked, TypeOK, FromBalance, balance

LEMMA AbandonTyped ==
    ASSUME TypeOK, NEW h \in Holds, AbandonShort(h)
    PROVE  TypeOK'
<1>1. HoldTyped'
    BY ShortTyped DEF AbandonShort
<1>. QED
    BY <1>1 DEF AbandonShort, TypeOK, HoldTyped, balance, history

LEMMA AccountTyped ==
    ASSUME TypeOK,
           (\E n \in Purchases : Purchase(n)) \/ Refresh \/ DayPasses \/ GrantChanges
    PROVE  TypeOK'
<1>1. ASSUME NEW n \in Purchases, Purchase(n)
      PROVE  TypeOK'
  <2>1. free' \in Int /\ paid' \in Int
      BY <1>1, AddTyped DEF Purchase
  <2>2. purchases' \in Nat /\ purchased' \in Nat /\ granted' \in Int
      BY <1>1 DEF Purchase, TypeOK
  <2>. QED
      BY <1>1, <2>1, <2>2 DEF Purchase, TypeOK, FromBalance
<1>2. CASE Refresh
  <2>1. free' \in Int /\ granted' \in Int /\ exhausted' \in Nat
      BY <1>2 DEF Refresh, TypeOK
  <2>2. due' \in BOOLEAN
      BY <1>2, Zenon DEF Refresh
  <2>3. UNCHANGED <<paid, hold, alloc, grant, purchases, purchased, held, heldPaid,
                    charged, answers>>
      BY <1>2 DEF Refresh
  <2>. QED
      BY <2>1, <2>2, <2>3 DEF TypeOK, FromBalance
<1>3. CASE DayPasses
    BY <1>3 DEF DayPasses, TypeOK, FromBalance, balance, history
<1>4. CASE GrantChanges
    BY <1>4 DEF GrantChanges, TypeOK, FromBalance, balance, history
<1>. QED
    BY <1>1, <1>2, <1>3, <1>4

LEMMA HoldStepTyped ==
    ASSUME TypeOK, NEW h \in Holds, HoldStep(h)
    PROVE  TypeOK'
<1>1. NoUsage \in Usages \cup {NoUsage}
    OBVIOUS
<1>2. ASSUME NEW n \in Amounts, Reserve(h, n) \/ ReserveProduct(h, n)
      PROVE  TypeOK'
    BY <1>2, ReserveTyped, ReserveProductTyped
<1>3. ASSUME NEW u \in Usages, SettleTracked(h, u)
      PROVE  TypeOK'
    BY <1>3, SettleTrackedTyped
<1>4. ASSUME NEW u \in Usages, SettleUntracked(h, u)
      PROVE  TypeOK'
    BY <1>4, NeededNat, SettleUnlockedAtTyped DEF SettleUntracked
<1>5. ASSUME NEW p \in Prices, SettleFixed(h, p)
      PROVE  TypeOK'
    BY <1>1, <1>5, PriceNat, SettleUnlockedAtTyped DEF SettleFixed
<1>6. ASSUME NEW price \in Nat, NEW u \in Usages \cup {NoUsage}, SettleProduct(h, price, u)
      PROVE  TypeOK'
  <2>1. hold[h].of \in Grants
      BY <1>6 DEF SettleProduct, TypeOK
  <2>. QED
      BY <1>6, <2>1, SettleProductTyped
<1>7. ASSUME NEW u \in Usages, SettleProductTokens(h, u) \/ ReplayTracked(h, u)
      PROVE  TypeOK'
    BY <1>6, <1>7, NeededNat, ReplayTyped DEF SettleProductTokens
<1>8. ASSUME NEW p \in Prices, SettleProductFixed(h, p)
      PROVE  TypeOK'
    BY <1>1, <1>6, <1>8, PriceNat DEF SettleProductFixed
<1>9. ASSUME NEW p \in Prices, ReplayFixed(h, p)
      PROVE  TypeOK'
  <2>1. answers' \in [Holds -> SUBSET Int]
      BY <1>9, HoldFields, AnswerTyped DEF ReplayFixed
  <2>. QED
      BY <1>9, <2>1 DEF ReplayFixed, TypeOK, FromBalance, balance
<1>10. CASE EmptyBalance(h) \/ AbandonShort(h) \/ Refund(h) \/ RefundProduct(h)
    BY <1>10, EmptyBalanceTyped, AbandonTyped, RefundTyped, RefundProductTyped
<1>. QED
    BY <1>2, <1>3, <1>4, <1>5, <1>7, <1>8, <1>9, <1>10 DEF HoldStep

LEMMA InitTyped == Init => TypeOK
<1> SUFFICES ASSUME Init PROVE TypeOK
    OBVIOUS
<1>1. NoHold \in HoldType /\ NoHold.source # "product_allowance"
    BY DEF NoHold, Unsettled, HoldType, States, Sources
<1>2. hold \in [Holds -> HoldType] /\ \A h \in Holds : ~FromBalance(h) => hold[h].of \in Grants
    BY <1>1 DEF Init, FromBalance
<1>3. alloc \in [Grants -> [active : BOOLEAN, reserved : Int, consumed : Int]]
  <2> DEFINE row == [active |-> FALSE, reserved |-> 0, consumed |-> 0]
  <2>1. row \in [active : BOOLEAN, reserved : Int, consumed : Int]
    <3>1. 0 \in Int
        OBVIOUS
    <3>. QED
        BY <3>1, Zenon
  <2>. QED
      BY <2>1 DEF Init
<1>4. answers \in [Holds -> SUBSET Int]
    BY DEF Init
<1>5. due \in BOOLEAN
    BY Zenon DEF Init
<1>6. /\ free \in Int /\ paid \in Int /\ grant \in Grants \cup {NoGrant}
      /\ HistTyped
    BY DEF Init, HistTyped
<1>. QED
    BY <1>2, <1>3, <1>4, <1>5, <1>6 DEF TypeOK, HistTyped

LEMMA NextTyped == TypeOK /\ [Next]_vars => TypeOK'
<1> SUFFICES ASSUME TypeOK, [Next]_vars PROVE TypeOK'
    OBVIOUS
<1>1. CASE \E h \in Holds : HoldStep(h)
    BY <1>1, HoldStepTyped
<1>2. CASE (\E n \in Purchases : Purchase(n)) \/ Refresh \/ DayPasses \/ GrantChanges
    BY <1>2, AccountTyped
<1>3. CASE UNCHANGED vars
    BY <1>3 DEF TypeOK, vars, FromBalance
<1>. QED
    BY <1>1, <1>2, <1>3 DEF Next

\* Types hold for every set of holds, prices and grants: among others no
\* price is ever below zero and every quota-funded hold names its grant.
THEOREM LedgerTyped == Spec => []TypeOK
<1>. QED
    BY InitTyped, NextTyped, PTL DEF Spec

-----------------------------------------------------------------------------
(* The balance row.                                                        *)

LEMMA SpendEffect ==
    ASSUME TypeOK, NoOverdraft, NEW n \in Nat, SpendFreeFirst(n)
    PROVE  /\ NoOverdraft'
           /\ free' + paid' = free + paid - n
           /\ paid' <= paid /\ paid' >= paid - n
           /\ free' > 0 => paid' = paid
    BY DEF TypeOK, NoOverdraft, SpendFreeFirst, Affords, AtLeast

LEMMA AddEffect ==
    ASSUME TypeOK, NoOverdraft, NEW n \in Nat, NEW b \in {"free", "paid"}, AddCredits(n, b)
    PROVE  /\ NoOverdraft'
           /\ free' + paid' = free + paid + n
           /\ b = "paid" => paid' = paid + n
           /\ b = "free" => paid' = paid
    BY DEF TypeOK, NoOverdraft, AddCredits

LEMMA BucketEffect ==
    ASSUME NEW h \in Holds
    PROVE  /\ RefundBucket(h) \in {"free", "paid"}
           /\ RefundBucket(h) = "paid" <=> hold[h].source = "paid_balance"
    BY DEF RefundBucket

\* A settlement in one statement moves the price, and only in or out of the
\* purchased bucket what the hold's label allows.
LEMMA AdjustEffect ==
    ASSUME TypeOK, NoOverdraft, NEW h \in Holds, NEW price \in Nat, AdjustOnce(h, price)
    PROVE  /\ NoOverdraft'
           /\ free' + paid' = free + paid + hold[h].amount - price
           /\ hold[h].source = "paid_balance" => paid' >= paid + hold[h].amount - price
           /\ hold[h].source # "paid_balance" => paid' >= paid - price
<1> DEFINE n == hold[h].amount
           b == RefundBucket(h)
<1>1. n \in Nat /\ free \in Int /\ paid \in Int
    BY HoldFields DEF TypeOK
<1>2. b \in {"free", "paid"} /\ (b = "paid" <=> hold[h].source = "paid_balance")
    BY BucketEffect
<1>3. CASE price <= n /\ AddCredits(n - price, b)
  <2>1. n - price \in Nat
      BY <1>1, <1>3
  <2> HIDE DEF n, b
  <2>2. /\ NoOverdraft'
        /\ free' + paid' = free + paid + (n - price)
        /\ b = "paid" => paid' = paid + (n - price)
        /\ b = "free" => paid' = paid
      BY <1>2, <1>3, <2>1, AddEffect
  <2>. QED
      BY <1>1, <1>2, <1>3, <2>2 DEF n
<1>4. CASE price > n /\ SpendFreeFirst(price - n)
  <2>1. price - n \in Nat
      BY <1>1, <1>4
  <2> HIDE DEF n, b
  <2>2. /\ NoOverdraft'
        /\ free' + paid' = free + paid - (price - n)
        /\ paid' <= paid /\ paid' >= paid - (price - n)
      BY <1>4, <2>1, SpendEffect
  <2>3. paid' \in Int /\ free' \in Int
      BY <1>4, <2>1, SpendTyped
  <2>. QED
      BY <1>1, <1>4, <2>2, <2>3 DEF n
<1>. QED
    BY <1>3, <1>4 DEF AdjustOnce

LEMMA NoOverdraftStep ==
    ASSUME TypeOK, NoOverdraft, [Next]_vars
    PROVE  NoOverdraft'
<1>1. ASSUME NEW h \in Holds, NEW n \in Amounts, Reserve(h, n)
      PROVE  NoOverdraft'
    BY <1>1, SpendEffect DEF Reserve
<1>2. ASSUME NEW h \in Holds, NEW price \in Nat, AdjustOnce(h, price)
      PROVE  NoOverdraft'
    BY <1>2, AdjustEffect
<1>3. CASE ZeroCredits
    BY <1>3 DEF ZeroCredits, NoOverdraft
<1>4. CASE UNCHANGED balance
    BY <1>4 DEF balance, NoOverdraft
<1>5. ASSUME NEW h \in Holds, Refund(h)
      PROVE  NoOverdraft'
    BY <1>5, HoldFields, BucketEffect, AddEffect DEF Refund
<1>6. ASSUME NEW n \in Purchases, Purchase(n)
      PROVE  NoOverdraft'
    BY <1>6, AddEffect DEF Purchase
<1>7. CASE Refresh
    BY <1>7 DEF Refresh, NoOverdraft
<1>8. ASSUME NEW h \in Holds, NEW u \in Usages, SettleTracked(h, u)
      PROVE  NoOverdraft'
    BY <1>2, <1>3, <1>8, NeededNat DEF SettleTracked
<1>9. ASSUME NEW h \in Holds, NEW price \in Nat, NEW u, SettleUnlockedAt(h, price, u)
      PROVE  NoOverdraft'
    BY <1>2, <1>4, <1>9 DEF SettleUnlockedAt, FindShort
<1>10. ASSUME NEW h \in Holds, HoldStep(h)
       PROVE  NoOverdraft'
  <2>1. ASSUME NEW u \in Usages, SettleUntracked(h, u)
        PROVE  NoOverdraft'
      BY <1>9, <2>1, NeededNat DEF SettleUntracked
  <2>2. ASSUME NEW p \in Prices, SettleFixed(h, p)
        PROVE  NoOverdraft'
      BY <1>9, <2>2, PriceNat DEF SettleFixed
  <2>3. CASE EmptyBalance(h)
      BY <1>3, <2>3 DEF EmptyBalance
  <2>4. ASSUME AbandonShort(h) \/ RefundProduct(h)
        PROVE  UNCHANGED balance
      BY <2>4 DEF AbandonShort, RefundProduct
  <2>5. ASSUME NEW n \in Amounts, ReserveProduct(h, n)
        PROVE  UNCHANGED balance
      BY <2>5 DEF ReserveProduct
  <2>6. ASSUME NEW u \in Usages, SettleProductTokens(h, u) \/ ReplayTracked(h, u)
        PROVE  UNCHANGED balance
      BY <2>6 DEF SettleProductTokens, SettleProduct, ReplayTracked
  <2>7. ASSUME NEW p \in Prices, SettleProductFixed(h, p) \/ ReplayFixed(h, p)
        PROVE  UNCHANGED balance
      BY <2>7 DEF SettleProductFixed, SettleProduct, ReplayFixed
  <2>. QED
      BY <1>1, <1>4, <1>5, <1>8, <1>10, <2>1, <2>2, <2>3, <2>4, <2>5, <2>6, <2>7 DEF HoldStep
<1>11. CASE DayPasses \/ GrantChanges \/ UNCHANGED vars
    BY <1>4, <1>11 DEF DayPasses, GrantChanges, vars, balance
<1>. QED
    BY <1>6, <1>7, <1>10, <1>11 DEF Next

\* No interleaving of reservations, extra charges, emptied balances, refunds
\* and refreshes overdraws a bucket (userCreditsRepository.ts:10-18).
THEOREM NeverOverdrawn == Spec => []NoOverdraft
<1>1. Init => NoOverdraft
    BY DEF Init, NoOverdraft
<1>2. TypeOK /\ NoOverdraft /\ [Next]_vars => NoOverdraft'
    BY NoOverdraftStep
<1>. QED
    BY <1>1, <1>2, LedgerTyped, PTL DEF Spec

-----------------------------------------------------------------------------
(* Holds that are tracked and settled by tokens, as chat turns are.        *)

AllByTokens == Tracked = Holds /\ FixedPriced = {}

\* No settlement of theirs is ever between two statements.
NoneShort == \A h \in Holds : hold[h].short = 0

\* Both claims about the balance, by the amounts a step moves.
Money == PurchasedNeverLost /\ LedgerExplainsBalance

LedgerInv == TypeOK /\ NoOverdraft /\ NoneShort /\ Money

LEMMA MoneyUnmoved ==
    ASSUME Money, UNCHANGED <<free, paid, held, heldPaid, charged, purchased, granted>>
    PROVE  Money'
    BY DEF Money, PurchasedNeverLost, LedgerExplainsBalance

\* The arithmetic of a reservation of n, f, p, k, x and c standing for free,
\* paid, heldPaid, held and charged.
LEMMA ReserveSums ==
    ASSUME NEW n \in Int, NEW f \in Int, NEW p \in Int, NEW k \in Int, NEW x \in Int,
           NEW c \in Int, NEW f1 \in Int, NEW p1 \in Int, NEW k1 \in Int,
           f1 + p1 = f + p - n, p1 >= p - n, k1 = k + n \/ (k1 = k /\ p1 = p)
    PROVE  /\ f1 + p1 + (x + n) + c = f + p + x + c
           /\ p1 + k1 + c >= p + k + c
    OBVIOUS

LEMMA ReserveMoney ==
    ASSUME LedgerInv, NEW h \in Holds, NEW n \in Amounts, Reserve(h, n)
    PROVE  Money'
<1>1. /\ free' + paid' = free + paid - n
      /\ paid' >= paid - n
      /\ free' > 0 => paid' = paid
    BY SpendEffect DEF Reserve, LedgerInv
<1>2. free' \in Int /\ paid' \in Int
    BY SpendTyped DEF Reserve, LedgerInv
<1>3. /\ held' = held + n
      /\ purchased' = purchased /\ granted' = granted /\ charged' = charged
    BY DEF Reserve
<1>4. /\ n \in Int /\ free \in Int /\ paid \in Int /\ held \in Int /\ heldPaid \in Int
      /\ charged \in Int /\ granted \in Int /\ purchased \in Int
    BY DEF LedgerInv, TypeOK
<1>5. heldPaid' = heldPaid + n \/ (heldPaid' = heldPaid /\ paid' = paid)
  <2>1. heldPaid' = heldPaid + (IF free' > 0 THEN 0 ELSE n)
      BY DEF Reserve
  <2>2. CASE free' > 0
    <3>1. heldPaid' = heldPaid + 0 /\ paid' = paid
        BY <1>1, <2>1, <2>2
    <3>. QED
        BY <1>4, <3>1
  <2>3. CASE ~(free' > 0)
      BY <2>1, <2>3
  <2>. QED
      BY <2>2, <2>3
<1>6. heldPaid' \in Int
    BY <1>4, <1>5
<1>7. /\ free' + paid' + (held + n) + charged = free + paid + held + charged
      /\ paid' + heldPaid' + charged >= paid + heldPaid + charged
  <2>1. \A f1, p1, k1 \in Int :
            f1 + p1 = free + paid - n /\ p1 >= paid - n
              /\ (k1 = heldPaid + n \/ (k1 = heldPaid /\ p1 = paid))
            => /\ f1 + p1 + (held + n) + charged = free + paid + held + charged
               /\ p1 + k1 + charged >= paid + heldPaid + charged
      BY <1>4, ReserveSums
  <2>. QED
      BY <1>1, <1>2, <1>5, <1>6, <2>1
<1>8. LedgerExplainsBalance'
    BY <1>3, <1>7 DEF LedgerInv, Money, LedgerExplainsBalance
<1>9. PurchasedNeverLost'
  <2> DEFINE before == paid + heldPaid + charged
             after  == paid' + heldPaid' + charged
  <2>1. before \in Int /\ after \in Int /\ purchased \in Int
      BY <1>2, <1>4, <1>6
  <2>2. purchased <= before /\ after >= before
      BY <1>7 DEF LedgerInv, Money, PurchasedNeverLost
  <2>3. purchased' <= paid' + heldPaid' + charged' <=> purchased <= after
      BY <1>3
  <2> HIDE DEF before, after
  <2>4. purchased <= after
      BY <2>1, <2>2
  <2>. QED
      BY <2>3, <2>4 DEF PurchasedNeverLost
<1>. QED
    BY <1>8, <1>9 DEF Money

\* A hold leaves the open state and `charge' of it is recorded: the balance
\* must move by the rest, the purchased bucket by no less than its label asks.
LEMMA ReleaseMoney ==
    ASSUME LedgerInv, NEW h \in Holds, NEW charge \in Int, Release(h, charge),
           free' \in Int, paid' \in Int,
           free' + paid' = free + paid + hold[h].amount - charge,
           hold[h].source = "paid_balance" => paid' >= paid + hold[h].amount - charge,
           hold[h].source # "paid_balance" => paid' >= paid - charge
    PROVE  Money'
<1>1. hold[h].amount \in Nat
    BY HoldFields DEF LedgerInv
<1>2. /\ held' = held - hold[h].amount
      /\ heldPaid' = heldPaid - (IF hold[h].source = "paid_balance" THEN hold[h].amount ELSE 0)
      /\ charged' = charged + charge
      /\ UNCHANGED <<purchased, granted>>
    BY DEF Release
<1> DEFINE n == hold[h].amount
<1>3. LedgerExplainsBalance'
    BY <1>1, <1>2 DEF LedgerInv, TypeOK, Money, LedgerExplainsBalance
<1>4. CASE hold[h].source = "paid_balance"
  <2>1. heldPaid' = heldPaid - n /\ paid' >= paid + n - charge
      BY <1>2, <1>4
  <2>. QED
      BY <1>1, <1>2, <1>3, <2>1 DEF LedgerInv, TypeOK, Money, PurchasedNeverLost
<1>5. CASE hold[h].source # "paid_balance"
  <2>1. heldPaid' = heldPaid /\ paid' >= paid - charge
      BY <1>2, <1>5 DEF LedgerInv, TypeOK
  <2>. QED
      BY <1>1, <1>2, <1>3, <2>1 DEF LedgerInv, TypeOK, Money, PurchasedNeverLost
<1>. QED
    BY <1>4, <1>5

LEMMA SettleMoney ==
    ASSUME LedgerInv, NEW h \in Holds, NEW u \in Usages, SettleTracked(h, u)
    PROVE  Money'
<1> DEFINE price == Needed(u)
           n     == hold[h].amount
           moved == Moved(h, price)
<1>1. price \in Nat /\ n \in Nat /\ free \in Int /\ paid \in Int /\ TypeOK /\ NoOverdraft
    BY NeededNat, HoldFields DEF LedgerInv, TypeOK
<1>2. free' \in Int /\ paid' \in Int
    BY <1>1, AdjustTyped DEF SettleTracked, ZeroCredits
<1>3. moved = n + (free + paid) - (free' + paid')
    BY DEF Moved
<1>4. moved \in Int /\ free' + paid' = free + paid + n - moved
  <2> HIDE DEF moved, n
  <2>. QED
      BY <1>1, <1>2, <1>3
<1>5. /\ hold[h].source = "paid_balance" => paid' >= paid + n - moved
      /\ hold[h].source # "paid_balance" => paid' >= paid - moved
  <2>1. CASE AdjustOnce(h, price)
    <3> HIDE DEF price
    <3>1. /\ free' + paid' = free + paid + n - price
          /\ hold[h].source = "paid_balance" => paid' >= paid + n - price
          /\ hold[h].source # "paid_balance" => paid' >= paid - price
        BY <1>1, <2>1, AdjustEffect
    <3> HIDE DEF moved, n
    <3>2. moved = price
        BY <1>1, <1>2, <1>3, <3>1
    <3>. QED
        BY <3>1, <3>2
  <2>2. CASE ZeroCredits
    <3>1. moved = n + free + paid /\ paid' = 0 /\ free >= 0 /\ paid >= 0
        BY <1>1, <1>3, <2>2 DEF ZeroCredits, NoOverdraft
    <3> HIDE DEF moved, n
    <3>. QED
        BY <1>1, <3>1
  <2>. QED
      BY <2>1, <2>2 DEF SettleTracked
<1>6. Release(h, moved)
    BY DEF SettleTracked
<1> HIDE DEF moved, price
<1>. QED
    BY <1>2, <1>4, <1>5, <1>6, ReleaseMoney

LEMMA RefundMoney ==
    ASSUME LedgerInv, NEW h \in Holds, Refund(h)
    PROVE  Money'
<1> DEFINE n == hold[h].amount
           b == RefundBucket(h)
<1>1. n \in Nat /\ free \in Int /\ paid \in Int /\ TypeOK /\ NoOverdraft
    BY HoldFields DEF LedgerInv, TypeOK
<1>2. b \in {"free", "paid"} /\ (b = "paid" <=> hold[h].source = "paid_balance")
    BY BucketEffect
<1>3. AddCredits(n, b) /\ Release(h, 0)
    BY DEF Refund
<1>4. free' \in Int /\ paid' \in Int
    BY <1>1, <1>3, AddTyped
<1>5. /\ free' + paid' = free + paid + n
      /\ b = "paid" => paid' = paid + n
      /\ b = "free" => paid' = paid
  <2> HIDE DEF b, n
  <2>. QED
      BY <1>1, <1>2, <1>3, AddEffect
<1>6. /\ free' + paid' = free + paid + n - 0
      /\ hold[h].source = "paid_balance" => paid' >= paid + n - 0
      /\ hold[h].source # "paid_balance" => paid' >= paid - 0
  <2> HIDE DEF b, n
  <2>. QED
      BY <1>1, <1>2, <1>4, <1>5
<1>. QED
    BY <1>3, <1>4, <1>6, ReleaseMoney

LEMMA MoneyStep ==
    ASSUME AllByTokens, LedgerInv, [Next]_vars
    PROVE  Money'
<1>1. Money
    BY DEF LedgerInv
<1>2. ASSUME NEW h \in Holds, HoldStep(h)
      PROVE  Money'
  <2>1. ASSUME NEW n \in Amounts, ReserveProduct(h, n)
        PROVE  Money'
      BY <1>1, <2>1, MoneyUnmoved DEF ReserveProduct, balance, history
  <2>2. ASSUME NEW u \in Usages, SettleUntracked(h, u)
        PROVE  FALSE
      BY <2>2 DEF SettleUntracked, AllByTokens
  <2>3. ASSUME NEW u \in Usages, SettleProductTokens(h, u) \/ ReplayTracked(h, u)
        PROVE  Money'
      BY <1>1, <2>3, MoneyUnmoved DEF SettleProductTokens, SettleProduct, ReplayTracked, balance
  <2>4. ASSUME NEW p \in Prices, SettleFixed(h, p) \/ SettleProductFixed(h, p)
        PROVE  FALSE
      BY <2>4 DEF SettleFixed, SettleProductFixed, AllByTokens
  <2>5. ASSUME NEW p \in Prices, ReplayFixed(h, p)
        PROVE  Money'
      BY <1>1, <2>5, MoneyUnmoved DEF ReplayFixed, balance
  <2>6. CASE EmptyBalance(h) \/ AbandonShort(h)
      BY <2>6 DEF EmptyBalance, AbandonShort, LedgerInv, NoneShort
  <2>7. CASE RefundProduct(h)
      BY <1>1, <2>7, MoneyUnmoved DEF RefundProduct, balance, history
  <2>. QED
      BY <1>2, <2>1, <2>2, <2>3, <2>4, <2>5, <2>6, <2>7, ReserveMoney, SettleMoney, RefundMoney
         DEF HoldStep
<1>3. ASSUME NEW n \in Purchases, Purchase(n)
      PROVE  Money'
  <2>1. /\ free' = free /\ paid' = paid + n
        /\ purchased' = purchased + n /\ granted' = granted + n
        /\ UNCHANGED <<held, heldPaid, charged>>
      BY <1>3 DEF Purchase, AddCredits
  <2>. QED
      BY <2>1 DEF LedgerInv, TypeOK, Money, PurchasedNeverLost, LedgerExplainsBalance
<1>4. CASE Refresh
    BY <1>4 DEF Refresh, LedgerInv, TypeOK, Money, PurchasedNeverLost, LedgerExplainsBalance
<1>5. CASE DayPasses \/ GrantChanges \/ UNCHANGED vars
    BY <1>1, <1>5, MoneyUnmoved DEF DayPasses, GrantChanges, vars, balance, history
<1>. QED
    BY <1>2, <1>3, <1>4, <1>5 DEF Next

LEMMA NoneShortStep ==
    ASSUME AllByTokens, LedgerInv, [Next]_vars
    PROVE  NoneShort'
<1>1. ASSUME NEW h \in Holds, NEW s, NEW price, NEW charge, NEW took, NEW u,
             CloseHold(h, s, price, charge, took, u)
      PROVE  NoneShort'
    BY <1>1 DEF CloseHold, LedgerInv, TypeOK, HoldType, NoneShort
<1>2. CASE UNCHANGED hold
    BY <1>2 DEF LedgerInv, NoneShort
<1>3. ASSUME NEW h \in Holds, NEW s, NEW n, NEW g,
             hold' = [hold EXCEPT ![h] = Unsettled("open", n, s, g)]
      PROVE  NoneShort'
    BY <1>3 DEF LedgerInv, TypeOK, NoneShort, Unsettled
<1>4. ASSUME NEW h \in Holds, HoldStep(h)
      PROVE  NoneShort'
  <2>1. ASSUME NEW n \in Amounts, Reserve(h, n)
        PROVE  NoneShort'
      BY <1>3, <2>1 DEF Reserve
  <2>2. ASSUME NEW n \in Amounts, ReserveProduct(h, n)
        PROVE  NoneShort'
      BY <1>2, <1>3, <2>2 DEF ReserveProduct
  <2>3. ASSUME NEW u \in Usages, SettleTracked(h, u)
        PROVE  NoneShort'
      BY <1>1, <2>3 DEF SettleTracked
  <2>4. ASSUME NEW u \in Usages, SettleUntracked(h, u)
        PROVE  FALSE
      BY <2>4 DEF SettleUntracked, AllByTokens
  <2>5. ASSUME NEW u \in Usages, SettleProductTokens(h, u)
        PROVE  NoneShort'
      BY <1>1, <2>5 DEF SettleProductTokens, SettleProduct
  <2>6. ASSUME NEW u \in Usages, ReplayTracked(h, u)
        PROVE  NoneShort'
      BY <1>2, <2>6 DEF ReplayTracked
  <2>7. ASSUME NEW p \in Prices, SettleFixed(h, p) \/ SettleProductFixed(h, p)
        PROVE  FALSE
      BY <2>7 DEF SettleFixed, SettleProductFixed, AllByTokens
  <2>8. ASSUME NEW p \in Prices, ReplayFixed(h, p)
        PROVE  NoneShort'
      BY <1>2, <2>8 DEF ReplayFixed
  <2>9. CASE EmptyBalance(h) \/ AbandonShort(h)
      BY <2>9 DEF EmptyBalance, AbandonShort, LedgerInv, NoneShort
  <2>10. CASE Refund(h) \/ RefundProduct(h)
      BY <1>1, <2>10 DEF Refund, RefundProduct
  <2>. QED
      BY <1>4, <2>1, <2>2, <2>3, <2>4, <2>5, <2>6, <2>7, <2>8, <2>9, <2>10 DEF HoldStep
<1>5. CASE (\E n \in Purchases : Purchase(n)) \/ Refresh \/ DayPasses \/ GrantChanges
    BY <1>2, <1>5 DEF Purchase, Refresh, DayPasses, GrantChanges
<1>6. CASE UNCHANGED vars
    BY <1>2, <1>6 DEF vars
<1>. QED
    BY <1>4, <1>5, <1>6 DEF Next

LEMMA LedgerInvariant ==
    ASSUME AllByTokens
    PROVE  Spec => []LedgerInv
<1>1. Init => LedgerInv
  <2> SUFFICES ASSUME Init PROVE LedgerInv
      OBVIOUS
  <2>1. NoneShort
      BY DEF Init, NoneShort, NoHold, Unsettled
  <2>2. NoOverdraft /\ Money
      BY DEF Init, NoOverdraft, Money, PurchasedNeverLost, LedgerExplainsBalance
  <2>. QED
      BY <2>1, <2>2, InitTyped DEF LedgerInv
<1>2. LedgerInv /\ [Next]_vars => LedgerInv'
  <2> SUFFICES ASSUME LedgerInv, [Next]_vars PROVE LedgerInv'
      OBVIOUS
  <2>1. TypeOK' /\ NoOverdraft'
      BY NextTyped, NoOverdraftStep DEF LedgerInv
  <2>2. Money' /\ NoneShort'
      BY MoneyStep, NoneShortStep
  <2>. QED
      BY <2>1, <2>2 DEF LedgerInv
<1>. QED
    BY <1>1, <1>2, PTL DEF Spec

\* Where every hold is tracked and settled by tokens, a purchased credit is
\* never lost: refunds and refreshes, in whatever order, leave it in the
\* durable bucket unless a recorded charge took it (credits-manager.ts:538).
THEOREM PurchasesAreKept ==
    ASSUME AllByTokens
    PROVE  Spec => []PurchasedNeverLost
<1>1. LedgerInv => PurchasedNeverLost
    BY DEF LedgerInv, Money
<1>. QED
    BY <1>1, LedgerInvariant, PTL

\* And the recorded charges explain the balance to the credit
\* (credits-manager.ts:781-785).
THEOREM ChargesExplainBalance ==
    ASSUME AllByTokens
    PROVE  Spec => []LedgerExplainsBalance
<1>1. LedgerInv => LedgerExplainsBalance
    BY DEF LedgerInv, Money
<1>. QED
    BY <1>1, LedgerInvariant, PTL

-----------------------------------------------------------------------------
(* Terminal holds.                                                         *)

\* Only an open hold is between the two statements of a short settlement.
ShortIsOpen == \A h \in Holds : hold[h].short > 0 => hold[h].state = "open"

\* What any step does to the holds: nothing, or it moves one that is not
\* terminal.
Moves(h, new) ==
    /\ hold[h].state \in {"none", "open"}
    /\ hold' = [hold EXCEPT ![h] = new]
    /\ new.short > 0 => new.state = "open"

MovesOne == UNCHANGED hold \/ \E h \in Holds : \E new : Moves(h, new)

LEMMA CloseMoves ==
    ASSUME TypeOK, NEW h \in Holds, hold[h].state = "open",
           NEW s, NEW price, NEW charge, NEW took, NEW u,
           CloseHold(h, s, price, charge, took, u)
    PROVE  MovesOne
<1> DEFINE new == [hold[h] EXCEPT !.state = s, !.asked = price, !.charge = charge,
                                  !.took = took, !.usage = u, !.short = 0]
<1>1. hold[h] \in HoldType
    BY DEF TypeOK
<1>2. new.short = 0
    BY <1>1 DEF HoldType
<1>3. hold' = [hold EXCEPT ![h] = new]
    BY <1>1 DEF TypeOK, CloseHold, HoldType
<1> HIDE DEF new
<1>4. Moves(h, new)
    BY <1>2, <1>3 DEF Moves
<1>. QED
    BY <1>4 DEF MovesOne

LEMMA ShortMoves ==
    ASSUME TypeOK, NEW h \in Holds, hold[h].state = "open", NEW price, NEW u,
           hold' = [hold EXCEPT ![h].short = price, ![h].usage = u]
    PROVE  MovesOne
<1> DEFINE new == [hold[h] EXCEPT !.short = price, !.usage = u]
<1>1. hold[h] \in HoldType
    BY DEF TypeOK
<1>2. new.state = "open"
    BY <1>1 DEF HoldType
<1>3. hold' = [hold EXCEPT ![h] = new]
    BY <1>1 DEF TypeOK, HoldType
<1> HIDE DEF new
<1>4. Moves(h, new)
    BY <1>2, <1>3 DEF Moves
<1>. QED
    BY <1>4 DEF MovesOne

LEMMA OpenMoves ==
    ASSUME NEW h \in Holds, hold[h].state = "none", NEW n, NEW s, NEW g,
           hold' = [hold EXCEPT ![h] = Unsettled("open", n, s, g)]
    PROVE  MovesOne
<1> DEFINE new == Unsettled("open", n, s, g)
<1>1. new.state = "open"
    BY DEF Unsettled
<1> HIDE DEF new
<1>2. Moves(h, new)
    BY <1>1 DEF Moves, new
<1>. QED
    BY <1>2 DEF MovesOne

LEMMA StepMovesOne ==
    ASSUME TypeOK, ShortIsOpen, [Next]_vars
    PROVE  MovesOne
<1>1. ASSUME NEW h \in Holds, HoldStep(h)
      PROVE  MovesOne
  <2>1. ASSUME NEW n \in Amounts, Reserve(h, n) \/ ReserveProduct(h, n)
        PROVE  MovesOne
    <3>1. UNCHANGED hold => MovesOne
        BY DEF MovesOne
    <3>. QED
        BY <2>1, <3>1, OpenMoves DEF Reserve, ReserveProduct
  <2>2. ASSUME NEW u \in Usages, SettleTracked(h, u)
        PROVE  MovesOne
      BY <2>2, CloseMoves DEF SettleTracked, Settleable
  <2>3. ASSUME NEW price, NEW u, SettleUnlockedAt(h, price, u)
        PROVE  MovesOne
      BY <2>3, CloseMoves, ShortMoves DEF SettleUnlockedAt, FindShort, Settleable
  <2>4. ASSUME NEW price, NEW u, SettleProduct(h, price, u)
        PROVE  MovesOne
      BY <2>4, CloseMoves DEF SettleProduct, Settleable
  <2>5. ASSUME NEW u \in Usages,
               SettleUntracked(h, u) \/ SettleProductTokens(h, u) \/ ReplayTracked(h, u)
        PROVE  MovesOne
      BY <2>3, <2>4, <2>5 DEF SettleUntracked, SettleProductTokens, ReplayTracked, MovesOne
  <2>6. ASSUME NEW p \in Prices,
               SettleFixed(h, p) \/ SettleProductFixed(h, p) \/ ReplayFixed(h, p)
        PROVE  MovesOne
      BY <2>3, <2>4, <2>6 DEF SettleFixed, SettleProductFixed, ReplayFixed, MovesOne
  <2>7. CASE EmptyBalance(h)
      BY <2>7, CloseMoves DEF EmptyBalance, ShortIsOpen
  <2>8. CASE AbandonShort(h)
      BY <2>8, ShortMoves DEF AbandonShort, ShortIsOpen
  <2>9. CASE Refund(h) \/ RefundProduct(h)
      BY <2>9, CloseMoves DEF Refund, RefundProduct, Settleable
  <2>. QED
      BY <1>1, <2>1, <2>2, <2>5, <2>6, <2>7, <2>8, <2>9 DEF HoldStep
<1>2. CASE (\E n \in Purchases : Purchase(n)) \/ Refresh \/ DayPasses \/ GrantChanges
    BY <1>2 DEF Purchase, Refresh, DayPasses, GrantChanges, MovesOne
<1>3. CASE UNCHANGED vars
    BY <1>3 DEF vars, MovesOne
<1>. QED
    BY <1>1, <1>2, <1>3 DEF Next

LEMMA ShortStaysOpen ==
    ASSUME TypeOK, ShortIsOpen, [Next]_vars
    PROVE  ShortIsOpen'
<1>1. CASE UNCHANGED hold
    BY <1>1 DEF ShortIsOpen
<1>2. ASSUME NEW h \in Holds, NEW new, Moves(h, new)
      PROVE  ShortIsOpen'
    BY <1>2 DEF Moves, ShortIsOpen, TypeOK
<1> QED
    BY <1>1, <1>2, StepMovesOne DEF MovesOne

\* A settled or refunded hold stays as it is, whoever repeats, retries or
\* recovers it: the status test under the row lock (credits-manager.ts:685-807).
THEOREM TerminalHoldsStay == Spec => TerminalForGood
<1> DEFINE Stay == \A h \in Holds : hold[h].state \in {"settled", "refunded"} => hold'[h] = hold[h]
<1>1. Init => ShortIsOpen
    BY DEF Init, ShortIsOpen, NoHold, Unsettled
<1>2. TypeOK /\ ShortIsOpen /\ [Next]_vars => ShortIsOpen'
    BY ShortStaysOpen
<1>3. TypeOK /\ ShortIsOpen /\ [Next]_vars => [Stay]_vars
  <2> SUFFICES ASSUME TypeOK, ShortIsOpen, [Next]_vars PROVE Stay
      OBVIOUS
  <2>1. CASE UNCHANGED hold
      BY <2>1
  <2>2. ASSUME NEW h \in Holds, NEW new, Moves(h, new)
        PROVE  Stay
      BY <2>2 DEF Moves, TypeOK
  <2>. QED
      BY <2>1, <2>2, StepMovesOne DEF MovesOne
<1>. QED
    BY <1>1, <1>2, <1>3, LedgerTyped, PTL DEF Spec, TerminalForGood

-----------------------------------------------------------------------------
(* What settlements say and take.                                          *)

\* Holds whose settlement locks the balance row: tracked ones settled by tokens.
Locking(h) == h \in Tracked \ FixedPriced

\* A hold that is not settled has been answered for by nobody; a settled one
\* always with what its replay answers, and a fixed price is charged in full.
AnswerFits(h) ==
    /\ hold[h].state # "settled" => answers[h] = {}
    /\ hold[h].state = "settled" => answers[h] \subseteq {ReplayAnswer(h)}
    /\ hold[h].state = "settled" /\ FromBalance(h) /\ hold[h].usage = NoUsage
           => hold[h].charge = hold[h].asked

\* A settlement that holds the balance row's lock, or that spends a product's
\* quota, takes no more than its price; the former is never between two statements.
TakingFits(h) ==
    /\ Locking(h) => hold[h].short = 0
    /\ hold[h].short > 0 => FromBalance(h)
    /\ hold[h].state = "settled" /\ (Locking(h) \/ ~FromBalance(h))
           => hold[h].took <= hold[h].asked

SettledFits == \A h \in Holds : AnswerFits(h) /\ TakingFits(h)

\* The kinds of step: a hold is opened, found short or refunded, ...
StaysUnsettled(h, new) ==
    /\ hold[h].state # "settled" /\ new.state # "settled"
    /\ hold' = [hold EXCEPT ![h] = new]
    /\ Locking(h) => new.short = 0
    /\ new.short > 0 => new.source # "product_allowance"
    /\ UNCHANGED answers

\* ... settled for a price, of which a charge is recorded, ...
SettlesFor(h, price, charge, took, u) ==
    /\ hold[h].state # "settled"
    /\ CloseHold(h, "settled", price, charge, took, u)
    /\ Answer(h, IF FromBalance(h) THEN price ELSE charge)
    /\ FromBalance(h) /\ u = NoUsage => charge = price
    /\ Locking(h) \/ ~FromBalance(h) => took <= price

\* ... or answered for once more.
AnswersAgain(h) ==
    /\ hold[h].state = "settled"
    /\ Answer(h, ReplayAnswer(h))
    /\ UNCHANGED hold

SettlingStep ==
    \/ UNCHANGED <<hold, answers>>
    \/ \E h \in Holds :
           \/ \E new : StaysUnsettled(h, new)
           \/ \E price, charge, took, u : SettlesFor(h, price, charge, took, u)
           \/ AnswersAgain(h)

\* Each kind preserves the invariant.
LEMMA SettlingKept ==
    ASSUME TypeOK, SettledFits, SettlingStep
    PROVE  SettledFits'
<1>0. hold \in [Holds -> HoldType] /\ answers \in [Holds -> SUBSET Int]
    BY DEF TypeOK
<1>1. ASSUME NEW k \in Holds, hold'[k] = hold[k], answers'[k] = answers[k]
      PROVE  AnswerFits(k)' /\ TakingFits(k)'
    BY <1>1 DEF SettledFits, AnswerFits, TakingFits, Locking, FromBalance, ReplayAnswer
<1>2. CASE UNCHANGED <<hold, answers>>
    BY <1>1, <1>2 DEF SettledFits
<1>3. ASSUME NEW h \in Holds, NEW new, StaysUnsettled(h, new)
      PROVE  SettledFits'
    <2>1. hold'[h] = new /\ answers'[h] = {}
        BY <1>0, <1>3 DEF StaysUnsettled, SettledFits, AnswerFits
    <2>2. AnswerFits(h)' /\ TakingFits(h)'
        BY <1>3, <2>1 DEF StaysUnsettled, AnswerFits, TakingFits, Locking, FromBalance
    <2> QED
        BY <1>0, <1>1, <1>3, <2>2 DEF StaysUnsettled, SettledFits
<1>4. ASSUME NEW h \in Holds, NEW price, NEW charge, NEW took, NEW u,
             SettlesFor(h, price, charge, took, u)
      PROVE  SettledFits'
    <2> DEFINE c == IF FromBalance(h) THEN price ELSE charge
    <2>1. answers[h] = {} /\ Answer(h, c)
        BY <1>4 DEF SettlesFor, SettledFits, AnswerFits
    <2> HIDE DEF c
    <2>2. answers'[h] = {c}
        BY <1>0, <2>1 DEF Answer
    <2>3. /\ hold'[h].state = "settled" /\ hold'[h].asked = price /\ hold'[h].charge = charge
          /\ hold'[h].took = took /\ hold'[h].usage = u /\ hold'[h].short = 0
          /\ hold'[h].source = hold[h].source
        BY <1>0, <1>4 DEF SettlesFor, CloseHold, HoldType
    <2>4. (FromBalance(h)' <=> FromBalance(h)) /\ ReplayAnswer(h)' = c
        BY <2>3 DEF FromBalance, ReplayAnswer, c
    <2>5. AnswerFits(h)' /\ TakingFits(h)'
        BY <1>4, <2>2, <2>3, <2>4 DEF SettlesFor, AnswerFits, TakingFits, Locking
    <2>6. \A k \in Holds \ {h} : hold'[k] = hold[k] /\ answers'[k] = answers[k]
        BY <1>0, <1>4, <2>1 DEF SettlesFor, CloseHold, Answer
    <2> QED
        BY <1>1, <2>5, <2>6 DEF SettledFits
<1>5. ASSUME NEW h \in Holds, AnswersAgain(h)
      PROVE  SettledFits'
    <2>1. answers[h] \subseteq {ReplayAnswer(h)} /\ Answer(h, ReplayAnswer(h)) /\ hold' = hold
        BY <1>5 DEF AnswersAgain, SettledFits, AnswerFits
    <2>2. answers'[h] \subseteq {ReplayAnswer(h)} /\ ReplayAnswer(h)' = ReplayAnswer(h)
        BY <1>0, <2>1 DEF Answer, ReplayAnswer, FromBalance
    <2>3. AnswerFits(h)' /\ TakingFits(h)'
        BY <1>5, <2>1, <2>2
           DEF AnswersAgain, SettledFits, AnswerFits, TakingFits, Locking, FromBalance
    <2>4. \A k \in Holds \ {h} : hold'[k] = hold[k] /\ answers'[k] = answers[k]
        BY <1>0, <2>1 DEF Answer
    <2> QED
        BY <1>1, <2>3, <2>4 DEF SettledFits
<1> QED
    BY <1>2, <1>3, <1>4, <1>5 DEF SettlingStep

\* A settlement of the balance under its lock takes its price, or what is there.
LEMMA MovedAtMost ==
    ASSUME TypeOK, NoOverdraft, NEW h \in Holds, NEW price \in Nat,
           AdjustOnce(h, price) \/ (TooShort(h, price) /\ ZeroCredits)
    PROVE  Moved(h, price) <= price
<1>1. hold[h].amount \in Nat /\ free \in Int /\ paid \in Int
    BY HoldFields DEF TypeOK
<1>2. CASE AdjustOnce(h, price)
    <2>1. free' + paid' = free + paid + hold[h].amount - price
        BY <1>2, AdjustEffect
    <2>2. free' \in Int /\ paid' \in Int
        BY <1>2, AdjustTyped
    <2> QED
        BY <1>1, <2>1, <2>2 DEF Moved
<1>3. CASE TooShort(h, price) /\ ZeroCredits
    BY <1>1, <1>3 DEF TooShort, Affords, ZeroCredits, Moved
<1> QED
    BY <1>2, <1>3

\* The product quota is charged the price, or what may be taken of it.
LEMMA ProductSettles ==
    ASSUME TypeOK, NEW h \in Holds, NEW price \in Nat, NEW u, SettleProduct(h, price, u)
    PROVE  SettlingStep
<1> DEFINE g == hold[h].of
           n == hold[h].amount
<1>1. hold[h].state # "settled" /\ ~FromBalance(h)
    BY DEF SettleProduct, Settleable
<1>2. g \in Grants /\ n \in Nat
    BY <1>1, HoldFields DEF TypeOK
<1>3. PICK charge : /\ charge <= price
                    /\ CloseHold(h, "settled", price, charge, charge, u)
                    /\ Answer(h, charge)
    <2>1. PICK fresh \in BOOLEAN :
              LET beyond == IF fresh /\ grant = g /\ alloc[g].active THEN Available(g) ELSE 0
                  charge == IF price <= n + beyond THEN price ELSE n + beyond
              IN  CloseHold(h, "settled", price, charge, charge, u) /\ Answer(h, charge)
        BY DEF SettleProduct
    <2> DEFINE beyond == IF fresh /\ grant = g /\ alloc[g].active THEN Available(g) ELSE 0
               charge == IF price <= n + beyond THEN price ELSE n + beyond
    <2>2. beyond \in Int
        BY <1>2 DEF Available, Room, TypeOK
    <2> HIDE DEF beyond
    <2>3. charge <= price
        BY <1>2, <2>2
    <2> QED
        BY <2>1, <2>3 DEF beyond
<1>4. SettlesFor(h, price, charge, charge, u)
    BY <1>1, <1>3 DEF SettlesFor
<1> QED
    BY <1>4 DEF SettlingStep

\* A balance-funded settlement outside the lock.
LEMMA UnlockedSettles ==
    ASSUME TypeOK, NEW h \in Holds, ~Locking(h), NEW price, NEW u,
           SettleUnlockedAt(h, price, u)
    PROVE  SettlingStep
<1>1. hold[h].state = "open" /\ FromBalance(h)
    BY DEF SettleUnlockedAt, Settleable
<1>2. CASE CloseHold(h, "settled", price, price, price, u) /\ Answer(h, price)
    <2>1. SettlesFor(h, price, price, price, u)
        BY <1>1, <1>2 DEF SettlesFor
    <2> QED
        BY <2>1 DEF SettlingStep
<1>3. CASE FindShort(h, price, u)
    <2> DEFINE new == [hold[h] EXCEPT !.short = price, !.usage = u]
    <2>1. hold[h] \in HoldType
        BY DEF TypeOK
    <2>2. /\ new.state = "open" /\ new.source = hold[h].source
          /\ hold' = [hold EXCEPT ![h] = new]
        BY <1>1, <1>3, <2>1 DEF FindShort, TypeOK, HoldType
    <2> HIDE DEF new
    <2>3. StaysUnsettled(h, new)
        BY <1>1, <1>3, <2>2 DEF StaysUnsettled, FindShort, history, FromBalance
    <2> QED
        BY <2>3 DEF SettlingStep
<1> QED
    BY <1>2, <1>3 DEF SettleUnlockedAt

\* A hold that is refunded stays unsettled.
LEMMA RefundSettles ==
    ASSUME TypeOK, NEW h \in Holds, Settleable(h),
           CloseHold(h, "refunded", 0, 0, 0, NoUsage), UNCHANGED answers
    PROVE  SettlingStep
<1> DEFINE new == [hold[h] EXCEPT !.state = "refunded", !.asked = 0, !.charge = 0,
                                  !.took = 0, !.usage = NoUsage, !.short = 0]
<1>1. hold[h] \in HoldType
    BY DEF TypeOK
<1>2. new.state = "refunded" /\ new.short = 0 /\ hold' = [hold EXCEPT ![h] = new]
    BY <1>1 DEF CloseHold, TypeOK, HoldType
<1> HIDE DEF new
<1>3. StaysUnsettled(h, new)
    BY <1>2 DEF StaysUnsettled, Settleable
<1> QED
    BY <1>3 DEF SettlingStep

\* One that is taken as well.
LEMMA OpenSettles ==
    ASSUME TypeOK, NEW h \in Holds, hold[h].state = "none", NEW n, NEW s, NEW g,
           hold' = [hold EXCEPT ![h] = Unsettled("open", n, s, g)], UNCHANGED answers
    PROVE  SettlingStep
<1> DEFINE new == Unsettled("open", n, s, g)
<1>1. new.state = "open" /\ new.short = 0
    BY DEF Unsettled
<1> HIDE DEF new
<1>2. StaysUnsettled(h, new)
    BY <1>1 DEF StaysUnsettled, new
<1> QED
    BY <1>2 DEF SettlingStep

LEMMA ReplaySettles ==
    ASSUME SettledFits, NEW h \in Holds,
           \/ \E u \in Usages : ReplayTracked(h, u)
           \/ \E p \in Prices : ReplayFixed(h, p)
    PROVE  SettlingStep
<1>1. AnswersAgain(h)
    BY DEF ReplayTracked, ReplayFixed, AnswersAgain, ReplayAnswer, SettledFits, AnswerFits
<1> QED
    BY <1>1 DEF SettlingStep

\* Every step of the ledger is of one of these kinds.
LEMMA StepSettles ==
    ASSUME TypeOK, NoOverdraft, ShortIsOpen, SettledFits, [Next]_vars
    PROVE  SettlingStep
<1>1. ASSUME UNCHANGED <<hold, answers>> PROVE SettlingStep
    BY <1>1 DEF SettlingStep
<1>2. ASSUME NEW h \in Holds, HoldStep(h)
      PROVE  SettlingStep
    <2>1. ASSUME NEW n \in Amounts, Reserve(h, n) \/ ReserveProduct(h, n)
          PROVE  SettlingStep
        BY <1>1, <2>1, OpenSettles DEF Reserve, ReserveProduct, history
    <2>2. ASSUME NEW u \in Usages, SettleTracked(h, u)
          PROVE  SettlingStep
        <3> DEFINE price == Needed(u)
                   moved == Moved(h, price)
        <3>1. price \in Nat /\ u # NoUsage
            BY NeededNat
        <3>2. moved <= price
            BY <2>2, <3>1, MovedAtMost DEF SettleTracked
        <3>3. /\ CloseHold(h, "settled", price, moved, moved, u) /\ Answer(h, price)
              /\ hold[h].state = "open" /\ FromBalance(h)
            BY <2>2 DEF SettleTracked, Settleable
        <3> HIDE DEF price, moved
        <3>4. SettlesFor(h, price, moved, moved, u)
            BY <3>1, <3>2, <3>3 DEF SettlesFor
        <3> QED
            BY <3>4 DEF SettlingStep
    <2>3. ASSUME NEW u \in Usages, SettleUntracked(h, u)
          PROVE  SettlingStep
        BY <2>3, UnlockedSettles DEF SettleUntracked, Locking
    <2>4. ASSUME NEW u \in Usages, SettleProductTokens(h, u)
          PROVE  SettlingStep
        BY <2>4, NeededNat, ProductSettles DEF SettleProductTokens
    <2>5. ASSUME NEW p \in Prices, SettleFixed(h, p)
          PROVE  SettlingStep
        BY <2>5, UnlockedSettles DEF SettleFixed, Locking
    <2>6. ASSUME NEW p \in Prices, SettleProductFixed(h, p)
          PROVE  SettlingStep
        BY <2>6, PriceNat, ProductSettles DEF SettleProductFixed
    <2>7. CASE EmptyBalance(h)
        <3> DEFINE took == hold[h].amount + free + paid
        <3>1. ~Locking(h) /\ hold[h].state = "open"
            BY <2>7 DEF EmptyBalance, SettledFits, TakingFits, ShortIsOpen
        <3>2. /\ CloseHold(h, "settled", hold[h].short, hold[h].short, took, hold[h].usage)
              /\ Answer(h, hold[h].short)
            BY <2>7 DEF EmptyBalance
        <3> HIDE DEF took
        <3>3. FromBalance(h)
            BY <2>7 DEF EmptyBalance, SettledFits, TakingFits
        <3>4. SettlesFor(h, hold[h].short, hold[h].short, took, hold[h].usage)
            BY <3>1, <3>2, <3>3 DEF SettlesFor
        <3> QED
            BY <3>4 DEF SettlingStep
    <2>8. CASE AbandonShort(h)
        <3> DEFINE new == [hold[h] EXCEPT !.short = 0, !.usage = NoUsage]
        <3>1. hold[h] \in HoldType /\ hold[h].state = "open"
            BY <2>8 DEF TypeOK, AbandonShort, ShortIsOpen
        <3>2. new.state = "open" /\ new.short = 0 /\ hold' = [hold EXCEPT ![h] = new]
            BY <2>8, <3>1 DEF AbandonShort, TypeOK, HoldType
        <3> HIDE DEF new
        <3>3. UNCHANGED answers
            BY <2>8 DEF AbandonShort, history
        <3>4. StaysUnsettled(h, new)
            BY <3>1, <3>2, <3>3 DEF StaysUnsettled
        <3> QED
            BY <3>4 DEF SettlingStep
    <2>9. CASE Refund(h) \/ RefundProduct(h)
        BY <2>9, RefundSettles DEF Refund, RefundProduct, history
    <2> QED
        BY <1>2, <2>1, <2>2, <2>3, <2>4, <2>5, <2>6, <2>7, <2>8, <2>9, ReplaySettles
           DEF HoldStep
<1>3. CASE (\E n \in Purchases : Purchase(n)) \/ Refresh \/ DayPasses \/ GrantChanges
    BY <1>1, <1>3 DEF Purchase, Refresh, DayPasses, GrantChanges, history
<1>4. CASE UNCHANGED vars
    BY <1>1, <1>4 DEF vars
<1> QED
    BY <1>2, <1>3, <1>4 DEF Next

LEMMA LedgerSettles == Spec => []SettledFits
<1>1. Init => TypeOK /\ NoOverdraft /\ ShortIsOpen /\ SettledFits
    <2> SUFFICES ASSUME Init PROVE TypeOK /\ NoOverdraft /\ ShortIsOpen /\ SettledFits
        OBVIOUS
    <2>1. \A h \in Holds : /\ hold[h].state = "none" /\ hold[h].short = 0 /\ answers[h] = {}
                           /\ FromBalance(h)
        BY DEF Init, NoHold, Unsettled, FromBalance
    <2>2. NoOverdraft
        BY DEF Init, NoOverdraft
    <2> QED
        BY <2>1, <2>2, InitTyped DEF ShortIsOpen, SettledFits, AnswerFits, TakingFits
<1>2. /\ TypeOK /\ NoOverdraft /\ ShortIsOpen /\ SettledFits
      /\ [Next]_vars
      => TypeOK' /\ NoOverdraft' /\ ShortIsOpen' /\ SettledFits'
    BY NextTyped, NoOverdraftStep, ShortStaysOpen, StepSettles, SettlingKept
<1> QED
    BY <1>1, <1>2, PTL DEF Spec

\* However often a settlement is repeated, by a retry or a recovery, its callers
\* are told one charge: a second settlement is answered from the row that the
\* first one wrote, or throws (credits-manager.ts:685-807).
THEOREM RepliesAlwaysAgree == Spec => []RepliesAgree
<1>1. SettledFits => RepliesAgree
    <2> SUFFICES ASSUME SettledFits, NEW h \in Holds PROVE Cardinality(answers[h]) <= 1
        BY DEF RepliesAgree
    <2>1. \E c : answers[h] \subseteq {c}
        BY DEF SettledFits, AnswerFits
    <2>2. answers[h] = {} \/ \E c : answers[h] = {c}
        BY <2>1
    <2>3. Cardinality({}) = 0
        BY FS_EmptySet, Zenon
    <2>4. \A c : Cardinality({c}) = 1
        BY FS_Singleton, Zenon
    <2>5. Cardinality(answers[h]) \in {0, 1}
        BY <2>2, <2>3, <2>4
    <2> QED
        BY <2>5
<1> QED
    BY <1>1, LedgerSettles, PTL

\* What a settlement takes that locks the balance row before it reads it, or
\* that spends a product's quota.
LockedTakesAtMostPrice ==
    \A h \in Holds :
        hold[h].state = "settled" /\ (Locking(h) \/ ~FromBalance(h))
            => hold[h].took <= hold[h].asked

\* In any mix of holds a settlement that locks the balance row, or that a
\* product's quota funds, takes at most its price: what other settlements,
\* purchases and refreshes do between its reads and writes does not matter
\* (credits-manager.ts:767-772).
THEOREM LockedSettlementsTakeAtMostPrice == Spec => []LockedTakesAtMostPrice
<1>1. SettledFits => LockedTakesAtMostPrice
    BY DEF SettledFits, TakingFits, LockedTakesAtMostPrice
<1> QED
    BY <1>1, LedgerSettles, PTL

\* So no settlement takes more where every hold is tracked and settled by tokens.
\* The others empty the balance in a second statement, which takes what arrived
\* since the first (credits-manager.ts:325-331).
THEOREM SettlementsTakeAtMostPrice ==
    ASSUME AllByTokens
    PROVE  Spec => []TakesAtMostPrice
<1>1. LockedTakesAtMostPrice => TakesAtMostPrice
    BY DEF AllByTokens, LockedTakesAtMostPrice, TakesAtMostPrice, Locking
<1> QED
    BY <1>1, LockedSettlementsTakeAtMostPrice, PTL

-----------------------------------------------------------------------------
(* Product quota.                                                          *)

RowWithin(g) ==
    /\ alloc[g].reserved >= 0
    /\ alloc[g].consumed + alloc[g].reserved <= Included[g]

LEMMA SettleWithin ==
    ASSUME NEW r \in Int, NEW c \in Int, NEW i \in Int, NEW n \in Int, NEW beyond \in Int,
           NEW charge \in Int, r >= n, c + r <= i, beyond = 0 \/ beyond = i - c - r,
           charge <= n + beyond
    PROVE  r - n >= 0 /\ (c + charge) + (r - n) <= i
    OBVIOUS

LEMMA QuotaStep ==
    ASSUME TypeOK, QuotaNeverExceeded, [Next]_vars
    PROVE  QuotaNeverExceeded'
<1>1. CASE UNCHANGED alloc
    BY <1>1 DEF QuotaNeverExceeded
<1>2. ASSUME NEW h \in Holds, NEW n \in Amounts, ReserveProduct(h, n)
      PROVE  QuotaNeverExceeded'
  <2> SUFFICES ASSUME NEW g \in Grants PROVE RowWithin(g)'
      BY DEF QuotaNeverExceeded, RowWithin
  <2>1. alloc[g].reserved \in Int /\ alloc[g].consumed \in Int /\ Included[g] \in Int /\ n \in Nat
      BY DEF TypeOK
  <2>2. RowWithin(g)
      BY DEF QuotaNeverExceeded, RowWithin
  <2>3. /\ alloc'[g].consumed = alloc[g].consumed
        /\ alloc'[g].reserved = alloc[g].reserved
               + (IF g = grant /\ Room(g) >= n THEN n ELSE 0)
      BY <1>2 DEF ReserveProduct
  <2>4. CASE g = grant /\ Room(g) >= n
    <3>1. alloc'[g].reserved = alloc[g].reserved + n
        BY <2>3, <2>4
    <3>. QED
        BY <2>1, <2>2, <2>3, <2>4, <3>1 DEF RowWithin, Room
  <2>5. CASE ~(g = grant /\ Room(g) >= n)
    <3>1. alloc'[g].reserved = alloc[g].reserved + 0
        BY <2>3, <2>5
    <3>. QED
        BY <2>1, <2>2, <2>3, <3>1 DEF RowWithin
  <2>. QED
      BY <2>4, <2>5
<1>3. ASSUME NEW h \in Holds, NEW price \in Nat, NEW u, SettleProduct(h, price, u)
      PROVE  QuotaNeverExceeded'
  <2> DEFINE g == hold[h].of
             n == hold[h].amount
             r == alloc[g].reserved
             c == alloc[g].consumed
             i == Included[g]
  <2>1. g \in Grants /\ n \in Nat /\ r \in Int /\ c \in Int /\ i \in Int /\ r + c \in Int
      BY <1>3, HoldFields DEF SettleProduct, TypeOK
  <2>2. r >= 0 /\ c + r <= i
      BY <2>1 DEF QuotaNeverExceeded
  <2>3. PICK fresh \in BOOLEAN :
            LET beyond == IF fresh /\ grant = g /\ alloc[g].active THEN Available(g) ELSE 0
                charge == IF price <= n + beyond THEN price ELSE n + beyond
            IN /\ alloc[g].reserved >= n
               /\ alloc' = [alloc EXCEPT ![g].reserved = @ - n, ![g].consumed = @ + charge]
               /\ CloseHold(h, "settled", price, charge, charge, u)
               /\ Answer(h, charge)
      BY <1>3 DEF SettleProduct
  <2> DEFINE beyond == IF fresh /\ grant = g /\ alloc[g].active THEN Available(g) ELSE 0
             charge == IF price <= n + beyond THEN price ELSE n + beyond
  <2>4. r >= n /\ alloc' = [alloc EXCEPT ![g].reserved = @ - n, ![g].consumed = @ + charge]
      BY <2>3
  <2>5. beyond = 0 \/ beyond = i - c - r
      BY DEF Available, Room
  <2>6. beyond \in Int
      BY <2>1, <2>5
  <2> HIDE DEF beyond
  <2>7. charge \in Int /\ charge <= n + beyond
      BY <2>1, <2>6
  <2> HIDE DEF charge
  <2>8. alloc'[g].reserved = r - n /\ alloc'[g].consumed = c + charge
      BY <2>1, <2>4 DEF TypeOK
  <2>9. \A x \in Grants : x # g => alloc'[x] = alloc[x]
      BY <2>1, <2>4 DEF TypeOK
  <2> HIDE DEF n, r, c, i
  <2>10. r - n >= 0 /\ (c + charge) + (r - n) <= i
    <3>1. \A k, b, d \in Int :
              r >= k /\ (b = 0 \/ b = i - c - r) /\ d <= k + b
              => r - k >= 0 /\ (c + d) + (r - k) <= i
        BY <2>1, <2>2, SettleWithin
    <3>2. n \in Int
        BY <2>1
    <3>. QED
        BY <2>4, <2>5, <2>6, <2>7, <3>1, <3>2
  <2>. QED
      BY <2>8, <2>9, <2>10 DEF QuotaNeverExceeded, i
<1>4. ASSUME NEW h \in Holds, RefundProduct(h)
      PROVE  QuotaNeverExceeded'
  <2> DEFINE g == hold[h].of
             n == hold[h].amount
  <2>1. g \in Grants /\ n \in Nat /\ alloc[g].reserved \in Int /\ alloc[g].consumed \in Int
        /\ Included[g] \in Int
      BY <1>4, HoldFields DEF RefundProduct, TypeOK
  <2>2. alloc[g].reserved >= n /\ alloc[g].consumed + alloc[g].reserved <= Included[g]
      BY <1>4, <2>1 DEF RefundProduct, QuotaNeverExceeded
  <2>3. /\ alloc'[g].reserved = alloc[g].reserved - n
        /\ alloc'[g].consumed = alloc[g].consumed
        /\ \A x \in Grants : x # g => alloc'[x] = alloc[x]
      BY <1>4, <2>1 DEF RefundProduct, TypeOK
  <2> HIDE DEF g, n
  <2>4. alloc'[g].reserved >= 0 /\ alloc'[g].consumed + alloc'[g].reserved <= Included[g]
      BY <2>1, <2>2, <2>3
  <2>. QED
      BY <2>3, <2>4 DEF QuotaNeverExceeded
<1>5. ASSUME NEW h \in Holds, HoldStep(h)
      PROVE  QuotaNeverExceeded'
  <2>1. ASSUME NEW n \in Amounts, Reserve(h, n) \/ ReserveProduct(h, n)
        PROVE  QuotaNeverExceeded'
      BY <1>1, <1>2, <2>1 DEF Reserve
  <2>2. ASSUME NEW u \in Usages, SettleTracked(h, u) \/ SettleUntracked(h, u)
        PROVE  QuotaNeverExceeded'
      BY <1>1, <2>2 DEF SettleTracked, SettleUntracked, SettleUnlockedAt, FindShort
  <2>3. ASSUME NEW u \in Usages, SettleProductTokens(h, u) \/ ReplayTracked(h, u)
        PROVE  QuotaNeverExceeded'
      BY <1>1, <1>3, <2>3, NeededNat DEF SettleProductTokens, ReplayTracked
  <2>4. ASSUME NEW p \in Prices, SettleFixed(h, p)
        PROVE  QuotaNeverExceeded'
      BY <1>1, <2>4 DEF SettleFixed, SettleUnlockedAt, FindShort
  <2>5. ASSUME NEW p \in Prices, SettleProductFixed(h, p) \/ ReplayFixed(h, p)
        PROVE  QuotaNeverExceeded'
      BY <1>1, <1>3, <2>5, PriceNat DEF SettleProductFixed, ReplayFixed
  <2>6. CASE EmptyBalance(h) \/ AbandonShort(h) \/ Refund(h)
      BY <1>1, <2>6 DEF EmptyBalance, AbandonShort, Refund
  <2>. QED
      BY <1>4, <1>5, <2>1, <2>2, <2>3, <2>4, <2>5, <2>6 DEF HoldStep
<1>6. CASE (\E n \in Purchases : Purchase(n)) \/ Refresh \/ DayPasses \/ GrantChanges
    BY <1>1, <1>6 DEF Purchase, Refresh, DayPasses, GrantChanges
<1>7. CASE UNCHANGED vars
    BY <1>1, <1>7 DEF vars
<1>. QED
    BY <1>5, <1>6, <1>7 DEF Next

\* A grant's quota is never handed out twice, whatever settlements take beyond
\* their reservations and however the grant changes
\* (product-credit-allocations.ts:113-183).
THEOREM QuotaHolds == Spec => []QuotaNeverExceeded
<1>1. Init => QuotaNeverExceeded
    BY DEF Init, QuotaNeverExceeded
<1>2. TypeOK /\ QuotaNeverExceeded /\ [Next]_vars => QuotaNeverExceeded'
    BY QuotaStep
<1>. QED
    BY <1>1, <1>2, LedgerTyped, PTL DEF Spec

-----------------------------------------------------------------------------
(* The rows explain the totals.                                            *)

HIDE LedgerAssumption

\* What funds a reservation: a grant, or the balance, written NoGrant.
Funds == Grants \cup {NoGrant}
FundOf(r) == IF r.source = "product_allowance" THEN r.of ELSE NoGrant

\* The totals a fund keeps, and the rows they are to be the sums of.
ReservedOn(f) == IF f = NoGrant THEN held ELSE alloc[f].reserved
ChargedOn(f)  == IF f = NoGrant THEN charged ELSE alloc[f].consumed

RowsOf(rows, f, s) == {h \in Holds : rows[h].state = s /\ FundOf(rows[h]) = f}
AmountRows == [h \in Holds |-> hold[h].amount]
ChargeRows == [h \in Holds |-> hold[h].charge]

Taken == {h \in Holds : hold[h].state # "none"}

\* However many holds there may be, finitely many have been taken, so the sums
\* over their rows are defined.
RowsInv ==
    /\ IsFiniteSet(Taken)
    /\ \A f \in Funds :
           /\ ReservedOn(f) = SumOver(AmountRows, RowsOf(hold, f, "open"))
           /\ ChargedOn(f) = SumOver(ChargeRows, RowsOf(hold, f, "settled"))

\* A row's part in the sum over the rows of a fund and a state.
Part(r, f, s, n) == IF r.state = s /\ FundOf(r) = f THEN n ELSE 0

\* A step that rewrites one hold's row, and moves its part of the totals.
Rewrites(h, new) == hold' = [hold EXCEPT ![h] = new]

RowStep(h, new) ==
    /\ Rewrites(h, new)
    /\ \A f \in Funds :
           /\ ReservedOn(f)' = ReservedOn(f) - Part(hold[h], f, "open", hold[h].amount)
                                             + Part(new, f, "open", new.amount)
           /\ ChargedOn(f)' = ChargedOn(f) - Part(hold[h], f, "settled", hold[h].charge)
                                           + Part(new, f, "settled", new.charge)

RowsStand ==
    /\ UNCHANGED hold
    /\ \A f \in Funds : UNCHANGED <<ReservedOn(f), ChargedOn(f)>>

RowsStep ==
    \/ RowsStand
    \/ \E h \in Holds : \E new \in HoldType : new.state # "none" /\ RowStep(h, new)

\* One row's rewriting in the sum over the rows of a fund and a state.
LEMMA RowChanges ==
    ASSUME TypeOK, IsFiniteSet(Taken), NEW f, NEW s, s # "none",
           NEW h \in Holds, NEW new \in HoldType, Rewrites(h, new),
           NEW v, \A k \in Holds : v[k] \in Int, NEW w, \A k \in Holds : w[k] \in Int,
           \A k \in Holds : k # h => v[k] = w[k]
    PROVE  SumOver(w, RowsOf(hold', f, s)) =
               SumOver(v, RowsOf(hold, f, s)) - Part(hold[h], f, s, v[h]) + Part(new, f, s, w[h])
<1> DEFINE S == RowsOf(hold, f, s)
           T == RowsOf(hold', f, s)
<1>1. \A k \in Holds : hold'[k] = IF k = h THEN new ELSE hold[k]
    BY DEF TypeOK, Rewrites
<1>2. S \subseteq Holds /\ T \subseteq Holds /\ S \ {h} = T \ {h}
    BY <1>1 DEF RowsOf, FundOf
<1>3. IsFiniteSet(S)
    <2>1. S \subseteq Taken
        BY DEF RowsOf, Taken
    <2> QED
        BY <2>1, FS_Subset
<1>4. (h \in S <=> hold[h].state = s /\ FundOf(hold[h]) = f)
      /\ (h \in T <=> new.state = s /\ FundOf(new) = f)
    BY <1>1 DEF RowsOf, FundOf
<1>5. /\ Part(hold[h], f, s, v[h]) = IF h \in S THEN v[h] ELSE 0
      /\ Part(new, f, s, w[h]) = IF h \in T THEN w[h] ELSE 0
    <2> HIDE DEF S, T
    <2> QED
        BY <1>4 DEF Part
<1> HIDE DEF S, T
<1>6. SumOver(w, T) = SumOver(v, S) - (IF h \in S THEN v[h] ELSE 0)
                                    + (IF h \in T THEN w[h] ELSE 0)
    <2>1. /\ \A y \in S : v[y] \in Int
          /\ \A y \in T : w[y] \in Int
          /\ \A y \in S \ {h} : v[y] = w[y]
        BY <1>2
    <2> QED
        BY <1>2, <1>3, <2>1, SumChanges
<1> QED
    BY <1>5, <1>6 DEF S, T

LEMMA RowsKept ==
    ASSUME TypeOK, TypeOK', RowsInv, RowsStep
    PROVE  RowsInv'
<1>1. CASE RowsStand
    <2>1. /\ AmountRows' = AmountRows /\ ChargeRows' = ChargeRows /\ Taken' = Taken
          /\ \A f, s : RowsOf(hold', f, s) = RowsOf(hold, f, s)
        BY <1>1 DEF RowsStand, AmountRows, ChargeRows, Taken, RowsOf
    <2> QED
        BY <1>1, <2>1 DEF RowsStand, RowsInv
<1>2. ASSUME NEW h \in Holds, NEW new \in HoldType, new.state # "none", RowStep(h, new)
      PROVE  RowsInv'
    <2>1. Rewrites(h, new)
        BY <1>2 DEF RowStep
    <2>2. \A k \in Holds : hold'[k] = IF k = h THEN new ELSE hold[k]
        BY <2>1 DEF TypeOK, Rewrites
    <2>3. IsFiniteSet(Taken')
        <3>1. Taken' = Taken \cup {h}
            BY <1>2, <2>2 DEF Taken
        <3> QED
            BY <3>1, FS_AddElement DEF RowsInv
    <2>4. \A k \in Holds : /\ AmountRows[k] = hold[k].amount /\ AmountRows'[k] = hold'[k].amount
                           /\ ChargeRows[k] = hold[k].charge /\ ChargeRows'[k] = hold'[k].charge
        BY DEF AmountRows, ChargeRows
    <2>5. \A k \in Holds : /\ hold[k].amount \in Int /\ hold[k].charge \in Int
                           /\ hold'[k].amount \in Int /\ hold'[k].charge \in Int
        BY DEF TypeOK, HoldType
    <2>7. IsFiniteSet(Taken) /\ "open" # "none" /\ "settled" # "none"
        BY DEF RowsInv
    <2>6. ASSUME NEW f \in Funds
          PROVE  /\ ReservedOn(f)' = SumOver(AmountRows', RowsOf(hold', f, "open"))
                 /\ ChargedOn(f)' = SumOver(ChargeRows', RowsOf(hold', f, "settled"))
        <3> DEFINE v == AmountRows
                   w == AmountRows'
                   x == ChargeRows
                   y == ChargeRows'
        <3>1. /\ \A k \in Holds : v[k] \in Int /\ w[k] \in Int /\ x[k] \in Int /\ y[k] \in Int
              /\ \A k \in Holds : k # h => v[k] = w[k] /\ x[k] = y[k]
              /\ v[h] = hold[h].amount /\ w[h] = new.amount
              /\ x[h] = hold[h].charge /\ y[h] = new.charge
            BY <2>2, <2>4, <2>5
        <3> HIDE DEF v, w, x, y
        <3>2. SumOver(w, RowsOf(hold', f, "open")) = SumOver(v, RowsOf(hold, f, "open"))
                  - Part(hold[h], f, "open", v[h]) + Part(new, f, "open", w[h])
            BY <2>1, <2>7, <3>1, RowChanges
        <3>3. SumOver(y, RowsOf(hold', f, "settled")) = SumOver(x, RowsOf(hold, f, "settled"))
                  - Part(hold[h], f, "settled", x[h]) + Part(new, f, "settled", y[h])
            BY <2>1, <2>7, <3>1, RowChanges
        <3>4. /\ ReservedOn(f) = SumOver(v, RowsOf(hold, f, "open"))
              /\ ChargedOn(f) = SumOver(x, RowsOf(hold, f, "settled"))
            BY DEF RowsInv, v, x
        <3>5. /\ ReservedOn(f)' = SumOver(w, RowsOf(hold', f, "open"))
              /\ ChargedOn(f)' = SumOver(y, RowsOf(hold', f, "settled"))
            BY <1>2, <3>1, <3>2, <3>3, <3>4 DEF RowStep
        <3> QED
            BY <3>5 DEF w, y
    <2> QED
        BY <2>3, <2>6 DEF RowsInv
<1> QED
    BY <1>1, <1>2 DEF RowsStep

\* An open hold's row becomes that of a terminal one, and its fund releases the
\* amount and books the charge.
LEMMA CloseMovesRow ==
    ASSUME TypeOK, NEW h \in Holds, hold[h].state = "open",
           NEW s \in {"settled", "refunded"}, NEW price \in Nat, NEW charge \in Int,
           NEW took \in Int, NEW u \in Usages \cup {NoUsage},
           CloseHold(h, s, price, charge, took, u), s = "refunded" => charge = 0,
           NEW f \in Funds, f = FundOf(hold[h]),
           ReservedOn(f)' = ReservedOn(f) - hold[h].amount, ChargedOn(f)' = ChargedOn(f) + charge,
           \A o \in Funds : o # f => UNCHANGED <<ReservedOn(o), ChargedOn(o)>>
    PROVE  RowsStep
<1> DEFINE new == [hold[h] EXCEPT !.state = s, !.asked = price, !.charge = charge,
                                  !.took = took, !.usage = u, !.short = 0]
<1>1. hold[h] \in HoldType
    BY DEF TypeOK
<1>2. /\ new.state = s /\ new.source = hold[h].source /\ new.of = hold[h].of
      /\ new.charge = charge /\ Rewrites(h, new)
    BY <1>1 DEF CloseHold, TypeOK, HoldType, Rewrites
<1>3. new \in HoldType
    BY <1>1 DEF HoldType, States
<1> HIDE DEF new
<1>4. /\ FundOf(new) = f /\ hold[h].amount \in Int
      /\ \A o \in Funds : ReservedOn(o) \in Int /\ ChargedOn(o) \in Int
    BY <1>1, <1>2 DEF FundOf, ReservedOn, ChargedOn, TypeOK, HoldType, Funds
<1>5. ASSUME NEW o \in Funds
      PROVE  /\ ReservedOn(o)' = ReservedOn(o) - Part(hold[h], o, "open", hold[h].amount)
                                             + Part(new, o, "open", new.amount)
             /\ ChargedOn(o)' = ChargedOn(o) - Part(hold[h], o, "settled", hold[h].charge)
                                           + Part(new, o, "settled", new.charge)
    <2>1. /\ Part(hold[h], o, "open", hold[h].amount) = IF o = f THEN hold[h].amount ELSE 0
          /\ Part(hold[h], o, "settled", hold[h].charge) = 0
          /\ Part(new, o, "open", new.amount) = 0
          /\ Part(new, o, "settled", new.charge) = IF o = f THEN charge ELSE 0
        BY <1>2, <1>4 DEF Part
    <2>2. CASE o = f
        BY <1>4, <2>1, <2>2
    <2>3. CASE o # f
        BY <1>4, <2>1, <2>3
    <2> QED
        BY <2>2, <2>3
<1>6. RowStep(h, new)
    BY <1>2, <1>5 DEF RowStep
<1>7. new.state # "none"
    BY <1>2
<1> QED
    BY <1>3, <1>6, <1>7 DEF RowsStep

\* A reservation's row is new, and its fund holds the amount.
LEMMA OpenMovesRow ==
    ASSUME TypeOK, NEW h \in Holds, hold[h].state = "none",
           NEW n \in Nat, NEW s \in Sources, NEW g \in Grants \cup {NoGrant},
           Rewrites(h, Unsettled("open", n, s, g)),
           NEW f \in Funds, f = FundOf(Unsettled("open", n, s, g)),
           ReservedOn(f)' = ReservedOn(f) + n, UNCHANGED ChargedOn(f),
           \A o \in Funds : o # f => UNCHANGED <<ReservedOn(o), ChargedOn(o)>>
    PROVE  RowsStep
<1> DEFINE new == Unsettled("open", n, s, g)
<1>1. new \in HoldType /\ new.state = "open" /\ new.amount = n
    BY DEF Unsettled, HoldType, States
<1>2. FundOf(new) = f /\ Rewrites(h, new)
    OBVIOUS
<1> HIDE DEF new
<1>3. \A o \in Funds : ReservedOn(o) \in Int /\ ChargedOn(o) \in Int
    BY DEF ReservedOn, ChargedOn, TypeOK, Funds
<1>4. ASSUME NEW o \in Funds
      PROVE  /\ ReservedOn(o)' = ReservedOn(o) - Part(hold[h], o, "open", hold[h].amount)
                                             + Part(new, o, "open", new.amount)
             /\ ChargedOn(o)' = ChargedOn(o) - Part(hold[h], o, "settled", hold[h].charge)
                                           + Part(new, o, "settled", new.charge)
    <2>1. /\ Part(hold[h], o, "open", hold[h].amount) = 0
          /\ Part(hold[h], o, "settled", hold[h].charge) = 0
          /\ Part(new, o, "open", new.amount) = IF o = f THEN n ELSE 0
          /\ Part(new, o, "settled", new.charge) = 0
        BY <1>1, <1>2 DEF Part
    <2>2. CASE o = f
        BY <1>3, <2>1, <2>2
    <2>3. CASE o # f
        BY <1>3, <2>1, <2>3
    <2> QED
        BY <2>2, <2>3
<1>5. RowStep(h, new)
    BY <1>2, <1>4 DEF RowStep
<1> QED
    BY <1>1, <1>5 DEF RowsStep

\* A row that stays open keeps its amount and its fund.
LEMMA ShortMovesNoRow ==
    ASSUME TypeOK, NEW h \in Holds, hold[h].state = "open", NEW price \in Nat,
           NEW u \in Usages \cup {NoUsage},
           hold' = [hold EXCEPT ![h].short = price, ![h].usage = u],
           UNCHANGED <<held, charged, alloc>>
    PROVE  RowsStep
<1> DEFINE new == [hold[h] EXCEPT !.short = price, !.usage = u]
<1>1. hold[h] \in HoldType
    BY DEF TypeOK
<1>2. /\ new.state = "open" /\ new.source = hold[h].source /\ new.of = hold[h].of
      /\ new.amount = hold[h].amount /\ Rewrites(h, new)
    BY <1>1 DEF TypeOK, HoldType, Rewrites
<1>3. new \in HoldType
    BY <1>1 DEF HoldType
<1> HIDE DEF new
<1>4. /\ FundOf(new) = FundOf(hold[h]) /\ hold[h].amount \in Int
      /\ \A o \in Funds : ReservedOn(o) \in Int /\ ChargedOn(o) \in Int
    BY <1>1, <1>2 DEF FundOf, ReservedOn, ChargedOn, TypeOK, HoldType, Funds
<1>5. ASSUME NEW o \in Funds
      PROVE  /\ ReservedOn(o)' = ReservedOn(o) - Part(hold[h], o, "open", hold[h].amount)
                                             + Part(new, o, "open", new.amount)
             /\ ChargedOn(o)' = ChargedOn(o) - Part(hold[h], o, "settled", hold[h].charge)
                                           + Part(new, o, "settled", new.charge)
    <2>1. /\ Part(new, o, "open", new.amount) = Part(hold[h], o, "open", hold[h].amount)
          /\ Part(hold[h], o, "open", hold[h].amount) \in Int
          /\ Part(hold[h], o, "settled", hold[h].charge) = 0
          /\ Part(new, o, "settled", new.charge) = 0
        BY <1>2, <1>4 DEF Part
    <2>2. UNCHANGED <<ReservedOn(o), ChargedOn(o)>>
        BY DEF ReservedOn, ChargedOn
    <2> QED
        BY <1>4, <2>1, <2>2
<1>6. RowStep(h, new)
    BY <1>2, <1>5 DEF RowStep
<1> QED
    BY <1>2, <1>3, <1>6 DEF RowsStep

LEMMA BalanceRowCloses ==
    ASSUME TypeOK, NEW h \in Holds, hold[h].state = "open", FromBalance(h),
           NEW s \in {"settled", "refunded"}, NEW price \in Nat, NEW charge \in Int,
           NEW took \in Int, NEW u \in Usages \cup {NoUsage}, s = "refunded" => charge = 0,
           CloseHold(h, s, price, charge, took, u), Release(h, charge), UNCHANGED alloc
    PROVE  RowsStep
<1>1. NoGrant \in Funds /\ NoGrant = FundOf(hold[h])
    BY DEF Funds, FundOf, FromBalance
<1>2. /\ ReservedOn(NoGrant)' = ReservedOn(NoGrant) - hold[h].amount
      /\ ChargedOn(NoGrant)' = ChargedOn(NoGrant) + charge
      /\ \A o \in Funds : o # NoGrant => UNCHANGED <<ReservedOn(o), ChargedOn(o)>>
    BY DEF Release, ReservedOn, ChargedOn
<1> QED
    BY <1>1, <1>2, CloseMovesRow

\* A row that a grant funds: the allocation row moves with it.
LEMMA QuotaRowCloses ==
    ASSUME TypeOK, NEW h \in Holds, hold[h].state = "open", ~FromBalance(h),
           NEW s \in {"settled", "refunded"}, NEW price \in Nat, NEW charge \in Int,
           NEW u \in Usages \cup {NoUsage}, s = "refunded" => charge = 0,
           CloseHold(h, s, price, charge, charge, u),
           NEW g \in Grants, g = hold[h].of,
           alloc'[g].reserved = alloc[g].reserved - hold[h].amount,
           alloc'[g].consumed = alloc[g].consumed + charge,
           \A o \in Grants : o # g => alloc'[o] = alloc[o],
           UNCHANGED <<held, charged>>
    PROVE  RowsStep
<1>1. g \in Funds /\ g = FundOf(hold[h]) /\ g # NoGrant
    BY LedgerAssumption DEF Funds, FundOf, FromBalance
<1>2. /\ ReservedOn(g)' = ReservedOn(g) - hold[h].amount
      /\ ChargedOn(g)' = ChargedOn(g) + charge
      /\ \A o \in Funds : o # g => UNCHANGED <<ReservedOn(o), ChargedOn(o)>>
    BY <1>1 DEF ReservedOn, ChargedOn, Funds
<1> QED
    BY <1>1, <1>2, CloseMovesRow

LEMMA ReserveMovesRow ==
    ASSUME TypeOK, NEW h \in Holds, NEW n \in Amounts, Reserve(h, n)
    PROVE  RowsStep
<1> DEFINE s == FundingSourceOf(free')
<1>1. s \in Sources /\ s # "product_allowance" /\ n \in Nat
    BY LedgerAssumption DEF FundingSourceOf, Sources
<1>2. hold[h].state = "none" /\ Rewrites(h, Unsettled("open", n, s, NoGrant))
    BY DEF Reserve, Rewrites
<1>3. held' = held + n /\ UNCHANGED <<charged, alloc>>
    BY DEF Reserve
<1> HIDE DEF s
<1>4. NoGrant \in Funds /\ NoGrant = FundOf(Unsettled("open", n, s, NoGrant))
    BY DEF Funds, FundOf, Unsettled
<1>5. /\ ReservedOn(NoGrant)' = ReservedOn(NoGrant) + n /\ UNCHANGED ChargedOn(NoGrant)
      /\ \A o \in Funds : o # NoGrant => UNCHANGED <<ReservedOn(o), ChargedOn(o)>>
    BY <1>3 DEF ReservedOn, ChargedOn
<1> QED
    BY <1>1, <1>2, <1>4, <1>5, OpenMovesRow

LEMMA ReserveProductMovesRow ==
    ASSUME TypeOK, NEW h \in Holds, NEW n \in Amounts, ReserveProduct(h, n)
    PROVE  RowsStep
<1> DEFINE granting(g) == g = grant /\ Room(g) >= n
<1>1. /\ hold[h].state = "none" /\ n \in Nat
      /\ UNCHANGED <<held, charged>>
    BY LedgerAssumption DEF ReserveProduct, history
<1>2. \A g \in Grants :
          /\ alloc'[g].reserved = alloc[g].reserved + (IF granting(g) THEN n ELSE 0)
          /\ alloc'[g].consumed = alloc[g].consumed
    BY DEF ReserveProduct
<1>3. hold' = IF \E g \in Grants : granting(g)
              THEN [hold EXCEPT ![h] = Unsettled("open", n, "product_allowance", grant)]
              ELSE hold
    BY DEF ReserveProduct
<1>4. \A g \in Grants : alloc[g].reserved \in Int
    BY DEF TypeOK
<1>5. CASE ~ \E g \in Grants : granting(g)
    <2>1. hold' = hold /\ \A g \in Grants : alloc'[g].reserved = alloc[g].reserved
        BY <1>2, <1>3, <1>4, <1>5
    <2>2. \A f \in Funds : UNCHANGED <<ReservedOn(f), ChargedOn(f)>>
        BY <1>1, <1>2, <2>1 DEF ReservedOn, ChargedOn, Funds
    <2> QED
        BY <2>1, <2>2 DEF RowsStep, RowsStand
<1>6. CASE \E g \in Grants : granting(g)
    <2>1. PICK g \in Grants : g = grant /\ granting(g)
        BY <1>6
    <2>2. Rewrites(h, Unsettled("open", n, "product_allowance", g))
        BY <1>3, <1>6, <2>1 DEF Rewrites
    <2>3. /\ g \in Funds /\ g # NoGrant
          /\ g = FundOf(Unsettled("open", n, "product_allowance", g))
        BY <2>1, LedgerAssumption DEF Funds, FundOf, Unsettled
    <2>4. alloc'[g].reserved = alloc[g].reserved + n
        BY <1>2, <2>1
    <2>5. \A o \in Grants : o # g => alloc'[o].reserved = alloc[o].reserved
        BY <1>2, <1>4, <2>1
    <2> HIDE DEF granting
    <2>6. ReservedOn(g)' = ReservedOn(g) + n /\ UNCHANGED ChargedOn(g)
        BY <1>2, <2>3, <2>4 DEF ReservedOn, ChargedOn
    <2>7. \A o \in Funds : o # g => UNCHANGED <<ReservedOn(o), ChargedOn(o)>>
        BY <1>1, <1>2, <2>5 DEF ReservedOn, ChargedOn, Funds
    <2>8. "product_allowance" \in Sources /\ g \in Grants \cup {NoGrant} /\ n \in Nat
        BY <1>1 DEF Sources
    <2> QED
        BY <1>1, <2>2, <2>3, <2>6, <2>7, <2>8, OpenMovesRow
<1> QED
    BY <1>5, <1>6

LEMMA SettleTrackedMovesRow ==
    ASSUME TypeOK, NEW h \in Holds, NEW u \in Usages, SettleTracked(h, u)
    PROVE  RowsStep
<1> DEFINE price == Needed(u)
           moved == Moved(h, price)
<1>1. price \in Nat
    BY NeededNat, LedgerAssumption
<1>2. free' \in Int /\ paid' \in Int
    BY <1>1, AdjustTyped, LedgerAssumption DEF SettleTracked, ZeroCredits
<1>3. moved \in Int
    BY <1>2, MovedInt, LedgerAssumption
<1>4. /\ hold[h].state = "open" /\ FromBalance(h)
      /\ CloseHold(h, "settled", price, moved, moved, u)
      /\ Release(h, moved) /\ UNCHANGED alloc
    BY DEF SettleTracked, Settleable
<1> HIDE DEF price, moved
<1> QED
    BY <1>1, <1>3, <1>4, BalanceRowCloses

LEMMA UnlockedMovesRow ==
    ASSUME TypeOK, NEW h \in Holds, NEW price \in Nat, NEW u \in Usages \cup {NoUsage},
           SettleUnlockedAt(h, price, u)
    PROVE  RowsStep
<1>1. hold[h].state = "open" /\ FromBalance(h)
    BY DEF SettleUnlockedAt, Settleable
<1>2. CASE FindShort(h, price, u)
    BY <1>1, <1>2, ShortMovesNoRow DEF FindShort, history
<1>3. CASE CloseHold(h, "settled", price, price, price, u) /\ Release(h, price) /\ UNCHANGED alloc
    BY <1>1, <1>3, BalanceRowCloses
<1> QED
    BY <1>2, <1>3 DEF SettleUnlockedAt

LEMMA EmptyMovesRow ==
    ASSUME TypeOK, ShortIsOpen, SettledFits, NEW h \in Holds, EmptyBalance(h)
    PROVE  RowsStep
<1> DEFINE took == hold[h].amount + free + paid
<1>1. hold[h].state = "open" /\ FromBalance(h)
    BY DEF EmptyBalance, ShortIsOpen, SettledFits, TakingFits
<1>2. /\ CloseHold(h, "settled", hold[h].short, hold[h].short, took, hold[h].usage)
      /\ Release(h, hold[h].short) /\ UNCHANGED alloc
    BY DEF EmptyBalance
<1>3. /\ hold[h].short \in Nat /\ hold[h].usage \in Usages \cup {NoUsage}
      /\ took \in Int
    BY HoldFields, LedgerAssumption DEF TypeOK
<1> HIDE DEF took
<1> QED
    BY <1>1, <1>2, <1>3, BalanceRowCloses

LEMMA SettleProductMovesRow ==
    ASSUME TypeOK, NEW h \in Holds, NEW price \in Nat, NEW u \in Usages \cup {NoUsage},
           SettleProduct(h, price, u)
    PROVE  RowsStep
<1> DEFINE g == hold[h].of
           n == hold[h].amount
<1>1. /\ g \in Grants /\ n \in Nat /\ hold[h].state = "open" /\ ~FromBalance(h)
      /\ UNCHANGED <<held, charged>>
    BY HoldFields, LedgerAssumption DEF SettleProduct, Settleable, TypeOK
<1>2. /\ alloc[g].reserved \in Int /\ alloc[g].consumed \in Int
      /\ Included[g] \in Nat
    BY <1>1, LedgerAssumption DEF TypeOK
<1>3. PICK charge \in Int :
          /\ alloc' = [alloc EXCEPT ![g].reserved = @ - n, ![g].consumed = @ + charge]
          /\ CloseHold(h, "settled", price, charge, charge, u)
    <2>1. PICK fresh \in BOOLEAN :
            LET beyond == IF fresh /\ grant = g /\ alloc[g].active THEN Available(g) ELSE 0
                charge == IF price <= n + beyond THEN price ELSE n + beyond
            IN /\ alloc[g].reserved >= n
               /\ alloc' = [alloc EXCEPT ![g].reserved = @ - n, ![g].consumed = @ + charge]
               /\ CloseHold(h, "settled", price, charge, charge, u)
               /\ Answer(h, charge)
        BY DEF SettleProduct
    <2> DEFINE beyond == IF fresh /\ grant = g /\ alloc[g].active THEN Available(g) ELSE 0
               charge == IF price <= n + beyond THEN price ELSE n + beyond
    <2>2. beyond \in Int
        BY <1>2 DEF Available, Room
    <2> HIDE DEF beyond
    <2>3. charge \in Int
        BY <1>1, <2>2
    <2> QED
        BY <2>1, <2>3 DEF beyond
<1>4. /\ alloc'[g].reserved = alloc[g].reserved - n
      /\ alloc'[g].consumed = alloc[g].consumed + charge
      /\ \A o \in Grants : o # g => alloc'[o] = alloc[o]
    BY <1>1, <1>3 DEF TypeOK
<1>5. /\ g = hold[h].of /\ n = hold[h].amount
      /\ CloseHold(h, "settled", price, charge, charge, u)
    BY <1>3
<1> HIDE DEF g, n
<1> QED
    BY <1>1, <1>4, <1>5, QuotaRowCloses

LEMMA RefundMovesRow ==
    ASSUME TypeOK, NEW h \in Holds, Refund(h) \/ RefundProduct(h)
    PROVE  RowsStep
<1>1. hold[h].state = "open" /\ CloseHold(h, "refunded", 0, 0, 0, NoUsage)
    BY DEF Refund, RefundProduct, Settleable
<1>2. CASE Refund(h)
    BY <1>1, <1>2, BalanceRowCloses DEF Refund
<1>3. CASE RefundProduct(h)
    <2> DEFINE g == hold[h].of
    <2>1. /\ ~FromBalance(h) /\ g \in Grants /\ UNCHANGED <<held, charged>>
        BY <1>3 DEF RefundProduct, TypeOK, history
    <2>2. /\ alloc'[g].reserved = alloc[g].reserved - hold[h].amount
          /\ alloc'[g].consumed = alloc[g].consumed
          /\ \A o \in Grants : o # g => alloc'[o] = alloc[o]
        BY <1>3, <2>1 DEF RefundProduct, TypeOK
    <2>3. alloc[g].consumed + 0 = alloc[g].consumed /\ g = hold[h].of
        BY <2>1 DEF TypeOK
    <2> HIDE DEF g
    <2> QED
        BY <1>1, <2>1, <2>2, <2>3, QuotaRowCloses
<1> QED
    BY <1>2, <1>3

\* Every step of the ledger moves a hold's part of the totals with its row.
LEMMA StepMovesRows ==
    ASSUME TypeOK, ShortIsOpen, SettledFits, [Next]_vars
    PROVE  RowsStep
<1>1. ASSUME UNCHANGED <<hold, held, charged, alloc>> PROVE RowsStep
    BY <1>1 DEF RowsStep, RowsStand, ReservedOn, ChargedOn
<1>2. ASSUME NEW h \in Holds, HoldStep(h)
      PROVE  RowsStep
    <2>1. ASSUME NEW n \in Amounts, Reserve(h, n) \/ ReserveProduct(h, n)
          PROVE  RowsStep
        BY <2>1, ReserveMovesRow, ReserveProductMovesRow
    <2>2. ASSUME NEW u \in Usages,
                 SettleTracked(h, u) \/ SettleUntracked(h, u) \/ SettleProductTokens(h, u)
          PROVE  RowsStep
        BY <2>2, SettleTrackedMovesRow, UnlockedMovesRow, SettleProductMovesRow, NeededNat,
           LedgerAssumption DEF SettleUntracked, SettleProductTokens
    <2>3. ASSUME NEW p \in Prices, SettleFixed(h, p) \/ SettleProductFixed(h, p)
          PROVE  RowsStep
        BY <2>3, UnlockedMovesRow, SettleProductMovesRow, PriceNat, LedgerAssumption
           DEF SettleFixed, SettleProductFixed
    <2>4. CASE \/ \E u \in Usages : ReplayTracked(h, u)
               \/ \E p \in Prices : ReplayFixed(h, p)
        BY <1>1, <2>4 DEF ReplayTracked, ReplayFixed
    <2>5. CASE EmptyBalance(h)
        BY <2>5, EmptyMovesRow
    <2>6. CASE AbandonShort(h)
        BY <2>6, ShortMovesNoRow DEF AbandonShort, ShortIsOpen, history
    <2>7. CASE Refund(h) \/ RefundProduct(h)
        BY <2>7, RefundMovesRow
    <2> QED
        BY <1>2, <2>1, <2>2, <2>3, <2>4, <2>5, <2>6, <2>7 DEF HoldStep
<1>3. CASE (\E n \in Purchases : Purchase(n)) \/ Refresh \/ DayPasses \/ GrantChanges
    BY <1>1, <1>3 DEF Purchase, Refresh, DayPasses, GrantChanges, history
<1>4. CASE UNCHANGED vars
    BY <1>1, <1>4 DEF vars
<1> QED
    BY <1>2, <1>3, <1>4 DEF Next

LEMMA RowsExplainTotals == Spec => []RowsInv
<1>1. Init => RowsInv
    <2> SUFFICES ASSUME Init PROVE RowsInv
        OBVIOUS
    <2>1. \A h \in Holds : hold[h].state = "none"
        BY DEF Init, NoHold, Unsettled
    <2>2. Taken = {} /\ \A f : RowsOf(hold, f, "open") = {} /\ RowsOf(hold, f, "settled") = {}
        BY <2>1 DEF Taken, RowsOf
    <2>3. \A f \in Funds : ReservedOn(f) = 0 /\ ChargedOn(f) = 0
        BY DEF Init, Funds, ReservedOn, ChargedOn
    <2>4. IsFiniteSet({})
        BY FS_EmptySet
    <2> QED
        BY <2>2, <2>3, <2>4, SumOfNone DEF RowsInv
<1>2. TypeOK /\ TypeOK' /\ ShortIsOpen /\ SettledFits /\ RowsInv /\ [Next]_vars => RowsInv'
    BY StepMovesRows, RowsKept
<1>3. TypeOK /\ ShortIsOpen /\ [Next]_vars => ShortIsOpen'
    BY ShortStaysOpen, LedgerAssumption
<1>4. Init => ShortIsOpen
    BY DEF Init, ShortIsOpen, NoHold, Unsettled
<1> QED
    BY <1>1, <1>2, <1>3, <1>4, LedgerTyped, LedgerSettles, LedgerAssumption, PTL DEF Spec

\* The sums that the invariants of the model are written with.
LEMMA RowSums ==
    ASSUME NEW S, S \subseteq Holds
    PROVE  /\ MapThenSumSet(AmountOf, S) = SumOver(AmountRows, S)
           /\ MapThenSumSet(ChargeOf, S) = SumOver(ChargeRows, S)
<1>1. MapThenSumSet(AmountOf, S) = SumOver(AmountRows, S)
    BY DEF MapThenSumSet, MapThenFoldSet, SumOver, IsSum, Pick, AmountOf, AmountRows
<1>2. MapThenSumSet(ChargeOf, S) = SumOver(ChargeRows, S)
    BY DEF MapThenSumSet, MapThenFoldSet, SumOver, IsSum, Pick, ChargeOf, ChargeRows
<1> QED
    BY <1>1, <1>2

\* The quota reserved on a grant is what its open holds reserved, and the quota
\* consumed what its settled ones were charged, in any order of reservations,
\* settlements, refunds and changes of the grant
\* (product-credit-allocations.ts:113-183).
THEOREM QuotaIsExplained == Spec => []QuotaExplained
<1>1. TypeOK /\ RowsInv => QuotaExplained
    <2> SUFFICES ASSUME TypeOK, RowsInv, NEW g \in Grants
                 PROVE  /\ alloc[g].reserved = MapThenSumSet(AmountOf, FundedBy(g, "open"))
                        /\ alloc[g].consumed = MapThenSumSet(ChargeOf, FundedBy(g, "settled"))
        BY DEF QuotaExplained
    <2>1. g \in Funds /\ g # NoGrant
        BY LedgerAssumption DEF Funds
    <2>2. \A s : FundedBy(g, s) = RowsOf(hold, g, s) /\ FundedBy(g, s) \subseteq Holds
        BY <2>1 DEF FundedBy, RowsOf, FundOf
    <2>3. /\ alloc[g].reserved = SumOver(AmountRows, RowsOf(hold, g, "open"))
          /\ alloc[g].consumed = SumOver(ChargeRows, RowsOf(hold, g, "settled"))
        BY <2>1 DEF RowsInv, ReservedOn, ChargedOn
    <2> QED
        BY <2>2, <2>3, RowSums
<1> QED
    BY <1>1, LedgerTyped, RowsExplainTotals, LedgerAssumption, PTL

\* What open holds keep from the balance and what settled ones were charged to
\* it are the sums of their rows, whatever kinds of hold there are.
TotalsAreRows ==
    /\ held = MapThenSumSet(AmountOf, OpenOnBalance)
    /\ charged = MapThenSumSet(ChargeOf, PaidFromBalance)

LEMMA TotalsExplained == Spec => []TotalsAreRows
<1>1. TypeOK /\ RowsInv => TotalsAreRows
    <2> SUFFICES ASSUME TypeOK, RowsInv PROVE TotalsAreRows
        OBVIOUS
    <2>1. NoGrant \in Funds
        BY DEF Funds
    <2>2. \A h \in Holds : FundOf(hold[h]) = NoGrant <=> FromBalance(h)
        BY LedgerAssumption DEF FundOf, FromBalance, TypeOK
    <2>3. /\ OpenOnBalance = RowsOf(hold, NoGrant, "open")
          /\ PaidFromBalance = RowsOf(hold, NoGrant, "settled")
          /\ OpenOnBalance \subseteq Holds /\ PaidFromBalance \subseteq Holds
        BY <2>2 DEF OpenOnBalance, PaidFromBalance, RowsOf
    <2>4. /\ held = SumOver(AmountRows, RowsOf(hold, NoGrant, "open"))
          /\ charged = SumOver(ChargeRows, RowsOf(hold, NoGrant, "settled"))
        BY <2>1 DEF RowsInv, ReservedOn, ChargedOn
    <2> QED
        BY <2>3, <2>4, RowSums DEF TotalsAreRows
<1> QED
    BY <1>1, LedgerTyped, RowsExplainTotals, LedgerAssumption, PTL

\* Where every hold is tracked and settled by tokens, the operation rows explain
\* the balance to the credit: what was granted is in the buckets, reserved by an
\* open row or charged by a settled one (credits-manager.ts:781-785).
THEOREM RowsExplainTheBalance ==
    ASSUME AllByTokens
    PROVE  Spec => []RowsExplainBalance
<1>1. LedgerExplainsBalance /\ TotalsAreRows => RowsExplainBalance
    BY DEF TotalsAreRows, RowsExplainBalance
<1> QED
    BY <1>1, TotalsExplained, ChargesExplainBalance, LedgerAssumption, PTL

=============================================================================
