--------------------------- MODULE ArithmeticProofs ---------------------------
(***************************************************************************)
(* Lemmas the proofs of every component rest on: what the rounding         *)
(* operators return for every natural argument, and what SumFunctionOnSet  *)
(* of the community modules computes, with which the modules total         *)
(* holdings, locked tokens and open requests.  That sum is a recursive     *)
(* function on the subsets of its index set, so everything about it rests  *)
(* on an induction over finite sets, stated on a set of sets in place of a *)
(* predicate.                                                              *)
(***************************************************************************)
EXTENDS FixedPoint, Functions, FiniteSetTheorems, WellFoundedInduction, TLAPS

-----------------------------------------------------------------------------
(* Roundings.                                                              *)

\* Both roundings of a product of naturals by a positive divisor are naturals.
LEMMA MulDivType ==
    ASSUME NEW x \in Nat, NEW y \in Nat, NEW d \in Nat \ {0}
    PROVE  MulDiv(x, y, d) \in Nat /\ MulDivUp(x, y, d) \in Nat
<1>1. x * y \in Nat
    OBVIOUS
<1>2. QED
    BY <1>1 DEF MulDiv, MulDivUp

\* Scaling by a ratio of at most one never adds, by one of at least one never takes.
LEMMA MulDivAtMost ==
    ASSUME NEW x \in Nat, NEW y \in Nat, NEW d \in Nat \ {0}, y <= d
    PROVE  MulDiv(x, y, d) <= x
<1>1. x * y <= x * d
    OBVIOUS
<1>2. QED
    BY <1>1 DEF MulDiv

LEMMA MulDivUpAtLeast ==
    ASSUME NEW x \in Nat, NEW y \in Nat, NEW d \in Nat \ {0}, d <= y
    PROVE  MulDivUp(x, y, d) >= x
<1>1. x * y >= x * d
    OBVIOUS
<1>2. QED
    BY <1>1 DEF MulDivUp

\* Dividing down and multiplying back never exceeds the start.
LEMMA DivMulAtMost ==
    ASSUME NEW x \in Nat, NEW d \in Nat \ {0}
    PROVE  /\ x \div d \in Nat
           /\ (x \div d) * d <= x
    OBVIOUS

LEMMA MulDivTimes ==
    ASSUME NEW x \in Nat, NEW y \in Nat, NEW d \in Nat \ {0}
    PROVE  MulDiv(x, y, d) * d <= x * y
<1>1. x * y \in Nat
    OBVIOUS
<1>2. QED
    BY <1>1, DivMulAtMost DEF MulDiv

\* Multiplying a quotient rounded up back never falls short.
LEMMA MulDivUpTimes ==
    ASSUME NEW x \in Nat, NEW y \in Nat, NEW d \in Nat \ {0}
    PROVE  MulDivUp(x, y, d) * d >= x * y
<1> DEFINE n == x * y
           q == (n + d - 1) \div d
<1>1. n \in Nat
    OBVIOUS
<1> HIDE DEF n
<1>2. q \in Nat /\ (q + 1) * d > n + d - 1
    BY <1>1
<1> HIDE DEF q
<1>3. (q + 1) * d = q * d + d /\ q * d \in Nat
    BY <1>1, <1>2
<1>4. q * d >= n
    BY <1>1, <1>2, <1>3
<1>5. QED
    BY <1>4 DEF MulDivUp, q, n

LEMMA MonusType ==
    ASSUME NEW a \in Nat, NEW b \in Nat
    PROVE  /\ Monus(a, b) \in Nat
           /\ Monus(a, b) <= a
           /\ Monus(a, b) >= a - b
    BY DEF Monus

\* A larger factor gives no smaller product.
LEMMA MulDivGrows ==
    ASSUME NEW x \in Nat, NEW z \in Nat, NEW y \in Nat, NEW d \in Nat \ {0}, x <= z
    PROVE  MulDiv(z, y, d) >= MulDiv(x, y, d)
<1>1. x * y \in Nat /\ z * y \in Nat /\ x * y <= z * y
    OBVIOUS
<1>2. (z * y) \div d >= (x * y) \div d
  <2> DEFINE m == x * y
             n == z * y
  <2>1. m \in Nat /\ n \in Nat /\ m <= n
      BY <1>1
  <2> HIDE DEF m, n
  <2>2. n \div d >= m \div d
      BY <2>1
  <2>3. QED
      BY <2>2 DEF m, n
<1>3. QED
    BY <1>2 DEF MulDiv

\* The two roundings are at most one apart.
LEMMA RoundingsClose ==
    ASSUME NEW x \in Nat, NEW y \in Nat, NEW d \in Nat \ {0}
    PROVE  /\ MulDiv(x, y, d) <= MulDivUp(x, y, d)
           /\ MulDivUp(x, y, d) <= MulDiv(x, y, d) + 1
<1> DEFINE m == x * y
<1>1. m \in Nat
    OBVIOUS
<1> HIDE DEF m
<1>2. m \div d <= (m + d - 1) \div d /\ (m + d - 1) \div d <= m \div d + 1
    BY <1>1
<1>3. QED
    BY <1>2 DEF m, MulDiv, MulDivUp

\* An amount w spread over d at a rate with p fractions, rounded down: the rate never
\* pays more than w over d, and falls short of it by less than one unit while d <= p.
LEMMA SpreadRate ==
    ASSUME NEW w \in Nat, NEW d \in Nat \ {0}, NEW p \in Nat \ {0}
    PROVE  LET rate == (w * p) \div d IN
           /\ rate \in Nat
           /\ MulDiv(d, rate, p) <= w
           /\ d <= p /\ w # 0 => rate # 0 /\ MulDivUp(d, rate, p) >= w
<1> DEFINE m == w * p
           rate == m \div d
<1>1. m \in Nat
    OBVIOUS
<1>2. rate \in Nat /\ rate * d <= m /\ m < rate * d + d
  <2> HIDE DEF m
  <2>1. QED
      BY <1>1
<1> HIDE DEF rate
<1>3. MulDiv(d, rate, p) <= w
  <2> DEFINE q == MulDiv(d, rate, p)
  <2>1. q \in Nat /\ q * p <= d * rate
      BY <1>2, MulDivType, MulDivTimes
  <2> HIDE DEF q
  <2>2. d * rate = rate * d /\ q * p \in Nat /\ d * rate \in Nat
      BY <1>2, <2>1
  <2>3. q * p <= w * p
      BY <1>1, <1>2, <2>1, <2>2
  <2>4. q <= w
      BY <2>1, <2>3
  <2>5. QED
      BY <2>4 DEF q
<1>4. ASSUME d <= p, w # 0
      PROVE  rate # 0 /\ MulDivUp(d, rate, p) >= w
  <2> DEFINE q == MulDivUp(d, rate, p)
  <2>1. q \in Nat /\ q * p >= d * rate
      BY <1>2, MulDivType, MulDivUpTimes
  <2> HIDE DEF q
  <2>2. d * rate = rate * d /\ q * p \in Nat /\ d * rate \in Nat
      BY <1>2, <2>1
  <2>3. q * p > (w - 1) * p
    <3>1. (w - 1) * p = w * p - p
        OBVIOUS
    <3>2. QED
        BY <1>1, <1>2, <1>4, <2>1, <2>2, <3>1
  <2>4. q >= w
    <3>1. SUFFICES ASSUME q <= w - 1 PROVE FALSE
        BY <2>1
    <3>2. q * p <= (w - 1) * p
        BY <2>1, <3>1
    <3>3. (w - 1) * p \in Int
        OBVIOUS
    <3>4. QED
        BY <2>2, <2>3, <3>2, <3>3
  <2>5. rate # 0
    <3>1. SUFFICES ASSUME rate = 0 PROVE FALSE
        OBVIOUS
    <3>2. w * p < d
        BY <1>1, <1>2, <3>1
    <3>3. w * p >= p
        BY <1>4
    <3>4. QED
        BY <1>1, <1>4, <3>2, <3>3
  <2>6. QED
      BY <2>4, <2>5 DEF q
<1>5. QED
    BY <1>2, <1>3, <1>4 DEF rate

-----------------------------------------------------------------------------
(* Finite sets and sums.                                                   *)

\* A collection of subsets that holds every set whose proper subsets it holds is
\* all of them.
LEMMA SubsetInduction ==
    ASSUME NEW S, IsFiniteSet(S), NEW G,
           \A A \in SUBSET S : (\A B \in SUBSET A : B # A => B \in G) => A \in G
    PROVE  SUBSET S \subseteq G
<1> DEFINE F == (SUBSET S) \ G
<1>1. SUFFICES ASSUME F # {} PROVE FALSE
    OBVIOUS
<1>2. IsWellFoundedOn(StrictSubsetOrdering(S), SUBSET S)
    BY FS_StrictSubsetOrderingWellFounded, FS_FiniteSubsetsOfFinite
<1>3. F \subseteq SUBSET S
    OBVIOUS
<1>4. PICK A \in F : \A B \in F : ~ (<<B, A>> \in StrictSubsetOrdering(S))
  <2> HIDE DEF F
  <2>1. QED
    BY <1>1, <1>2, <1>3, WFMin
<1>5. ASSUME NEW B \in SUBSET A, B # A
      PROVE  B \in G
  <2>1. <<B, A>> \in StrictSubsetOrdering(S)
    BY <1>5 DEF StrictSubsetOrdering
  <2>2. QED
    BY <1>4, <2>1
<1>6. QED
    BY <1>5

-----------------------------------------------------------------------------
(* The recursion behind the sum.                                           *)

\* The element a sum takes first.
FirstOf(s) == CHOOSE x \in s : TRUE

\* g gives, for every subset of T, the sum of f over it.
SumsOver(g, f, T) ==
    g = [s \in SUBSET T |-> IF s = {} THEN 0 ELSE f[FirstOf(s)] + g[s \ {FirstOf(s)}]]

LEMMA FirstOfIn ==
    ASSUME NEW s, s # {}
    PROVE  FirstOf(s) \in s
    BY DEF FirstOf

\* Two functions that solve the recursion agree wherever both are defined.
LEMMA SumsAgree ==
    ASSUME NEW T, IsFiniteSet(T), NEW U, NEW f, NEW g, NEW h,
           SumsOver(g, f, T), SumsOver(h, f, U), NEW s, s \subseteq T, s \subseteq U
    PROVE  g[s] = h[s]
<1> DEFINE G == {r \in SUBSET T : r \subseteq U => g[r] = h[r]}
<1>1. ASSUME NEW A \in SUBSET T, \A B \in SUBSET A : B # A => B \in G
      PROVE  A \in G
  <2>1. SUFFICES ASSUME A \subseteq U PROVE g[A] = h[A]
      OBVIOUS
  <2>2. /\ g[A] = IF A = {} THEN 0 ELSE f[FirstOf(A)] + g[A \ {FirstOf(A)}]
        /\ h[A] = IF A = {} THEN 0 ELSE f[FirstOf(A)] + h[A \ {FirstOf(A)}]
      BY <2>1 DEF SumsOver
  <2>3. A # {} => A \ {FirstOf(A)} \in G
      BY <1>1, FirstOfIn
  <2>4. QED
      BY <2>1, <2>2, <2>3
<1>2. SUBSET T \subseteq G
  <2> HIDE DEF G
  <2>1. QED
    BY <1>1, SubsetInduction
<1>3. QED
    BY <1>2

\* The recursion has a solution: the solutions for the proper subsets, put together.
LEMMA SumsExist ==
    ASSUME NEW S, IsFiniteSet(S), NEW f
    PROVE  \E g : SumsOver(g, f, S)
<1> DEFINE G == {T \in SUBSET S : \E g : SumsOver(g, f, T)}
<1>1. ASSUME NEW A \in SUBSET S, \A B \in SUBSET A : B # A => B \in G
      PROVE  A \in G
  <2> DEFINE rest(s) == s \ {FirstOf(s)}
             g(U) == CHOOSE h : SumsOver(h, f, U)
             whole == [s \in SUBSET A |->
                        IF s = {} THEN 0 ELSE f[FirstOf(s)] + g(rest(s))[rest(s)]]
  <2>1. ASSUME NEW U \in SUBSET A, U # A
        PROVE  SumsOver(g(U), f, U)
      BY <1>1, <2>1
  <2>2. ASSUME NEW U \in SUBSET A, U # A
        PROVE  whole[U] = g(U)[U]
    <3>1. SumsOver(g(U), f, U)
        BY <2>1, <2>2
    <3>2. CASE U = {}
      <4>1. g(U)[U] = 0
        <5> HIDE DEF g
        <5>1. QED
          BY <3>1, <3>2 DEF SumsOver
      <4>2. QED
        BY <4>1, <3>2
    <3>3. CASE U # {}
      <4>1. rest(U) \in SUBSET U /\ rest(U) # U
        BY <3>3, FirstOfIn
      <4>2. SumsOver(g(rest(U)), f, rest(U))
        BY <2>1, <2>2, <4>1
      <4>3. IsFiniteSet(U)
        BY FS_Subset
      <4>4. /\ g(U)[U] = f[FirstOf(U)] + g(U)[rest(U)]
            /\ g(U)[rest(U)] = g(rest(U))[rest(U)]
        <5> HIDE DEF g
        <5>1. g(U)[U] = f[FirstOf(U)] + g(U)[rest(U)]
          BY <3>1, <3>3 DEF SumsOver
        <5> HIDE DEF rest
        <5>2. QED
          BY <3>1, <4>1, <4>2, <4>3, <5>1, SumsAgree
      <4>5. whole[U] = f[FirstOf(U)] + g(rest(U))[rest(U)]
        BY <3>3
      <4>6. QED
        BY <4>4, <4>5
    <3>4. QED
        BY <3>2, <3>3
  <2>3. \A s \in SUBSET A : s # {} => whole[rest(s)] = g(rest(s))[rest(s)]
    <3>1. \A s \in SUBSET A : s # {} => rest(s) \in SUBSET A /\ rest(s) # A
        BY FirstOfIn
    <3> HIDE DEF whole, g, rest
    <3>2. QED
        BY <2>2, <3>1
  <2>4. whole = [s \in SUBSET A |-> IF s = {} THEN 0 ELSE f[FirstOf(s)] + whole[rest(s)]]
    <3> DEFINE part(s) == g(rest(s))[rest(s)]
    <3>1. whole = [s \in SUBSET A |-> IF s = {} THEN 0 ELSE f[FirstOf(s)] + part(s)]
        OBVIOUS
    <3>2. \A s \in SUBSET A : s # {} => whole[rest(s)] = part(s)
        BY <2>3
    <3> HIDE DEF whole, part, rest
    <3>3. QED
        BY <3>1, <3>2
  <2>5. SumsOver(whole, f, A)
    <3> HIDE DEF whole
    <3>1. QED
        BY <2>4 DEF SumsOver
  <2> HIDE DEF whole
  <2>6. QED
      BY <2>5
<1>2. SUBSET S \subseteq G
  <2> HIDE DEF G
  <2>1. QED
    BY <1>1, SubsetInduction
<1>3. QED
    BY <1>2

\* SumFunctionOnSet is the value of a solution.
LEMMA SumSolves ==
    ASSUME NEW S, IsFiniteSet(S), NEW f
    PROVE  \E g : SumsOver(g, f, S) /\ SumFunctionOnSet(f, S) = g[S]
<1> DEFINE g == CHOOSE h : SumsOver(h, f, S)
<1>1. SumsOver(g, f, S)
    BY SumsExist
<1>2. SumFunctionOnSet(f, S) = g[S]
    BY DEF SumFunctionOnSet, FoldFunctionOnSet, MapThenFoldSet, SumsOver, FirstOf
<1>3. QED
    BY <1>1, <1>2

LEMMA SumEmpty ==
    ASSUME NEW f
    PROVE  SumFunctionOnSet(f, {}) = 0
<1>1. PICK g : SumsOver(g, f, {}) /\ SumFunctionOnSet(f, {}) = g[{}]
    BY SumSolves, FS_EmptySet
<1>2. QED
    BY <1>1 DEF SumsOver

LEMMA SumFirst ==
    ASSUME NEW S, IsFiniteSet(S), S # {}, NEW f
    PROVE  SumFunctionOnSet(f, S) = f[FirstOf(S)] + SumFunctionOnSet(f, S \ {FirstOf(S)})
<1> DEFINE U == S \ {FirstOf(S)}
<1>1. PICK g : SumsOver(g, f, S) /\ SumFunctionOnSet(f, S) = g[S]
    BY SumSolves
<1>2. IsFiniteSet(U)
    BY FS_Subset
<1>3. PICK h : SumsOver(h, f, U) /\ SumFunctionOnSet(f, U) = h[U]
    BY <1>2, SumSolves
<1>4. g[S] = f[FirstOf(S)] + g[U]
    BY <1>1 DEF SumsOver
<1>5. g[U] = h[U]
    BY <1>1, <1>3, SumsAgree
<1>6. QED
    BY <1>1, <1>3, <1>4, <1>5

-----------------------------------------------------------------------------
(* Sums of integers.                                                       *)

LEMMA SumInt ==
    ASSUME NEW S, IsFiniteSet(S), NEW f, \A x \in S : f[x] \in Int
    PROVE  SumFunctionOnSet(f, S) \in Int
<1> DEFINE G == {T \in SUBSET S : SumFunctionOnSet(f, T) \in Int}
<1>1. ASSUME NEW A \in SUBSET S, \A B \in SUBSET A : B # A => B \in G
      PROVE  A \in G
  <2>1. CASE A = {}
      BY <2>1, SumEmpty
  <2>2. CASE A # {}
    <3>1. FirstOf(A) \in A /\ IsFiniteSet(A)
        BY <2>2, FirstOfIn, FS_Subset
    <3>2. SumFunctionOnSet(f, A \ {FirstOf(A)}) \in Int
        BY <1>1, <3>1
    <3>3. SumFunctionOnSet(f, A) = f[FirstOf(A)] + SumFunctionOnSet(f, A \ {FirstOf(A)})
        BY <2>2, <3>1, SumFirst
    <3>4. f[FirstOf(A)] \in Int
        BY <3>1
    <3>5. SumFunctionOnSet(f, A) \in Int
        BY <3>2, <3>3, <3>4
    <3>6. QED
        BY <3>5
  <2>3. QED
      BY <2>1, <2>2
<1>2. SUBSET S \subseteq G
  <2> HIDE DEF G
  <2>1. QED
    BY <1>1, SubsetInduction
<1>3. QED
    BY <1>2

\* A larger summand everywhere, a larger sum.
LEMMA SumAtMost ==
    ASSUME NEW S, IsFiniteSet(S), NEW f, NEW g,
           \A x \in S : f[x] \in Int /\ g[x] \in Int /\ f[x] <= g[x]
    PROVE  SumFunctionOnSet(f, S) <= SumFunctionOnSet(g, S)
<1> DEFINE G == {T \in SUBSET S : SumFunctionOnSet(f, T) <= SumFunctionOnSet(g, T)}
<1>1. ASSUME NEW A \in SUBSET S, \A B \in SUBSET A : B # A => B \in G
      PROVE  A \in G
  <2>1. CASE A = {}
      BY <2>1, SumEmpty
  <2>2. CASE A # {}
    <3> DEFINE z == FirstOf(A)
               rest == A \ {z}
    <3>1. z \in A /\ IsFiniteSet(A)
        BY <2>2, FirstOfIn, FS_Subset
    <3>2. IsFiniteSet(rest)
        BY <3>1, FS_Subset
    <3>3. SumFunctionOnSet(f, rest) \in Int /\ SumFunctionOnSet(g, rest) \in Int
        BY <3>2, SumInt
    <3>4. SumFunctionOnSet(f, rest) <= SumFunctionOnSet(g, rest)
        BY <1>1, <3>1
    <3>5. /\ SumFunctionOnSet(f, A) = f[z] + SumFunctionOnSet(f, rest)
          /\ SumFunctionOnSet(g, A) = g[z] + SumFunctionOnSet(g, rest)
        BY <2>2, <3>1, SumFirst
    <3>6. f[z] \in Int /\ g[z] \in Int /\ f[z] <= g[z]
        BY <3>1
    <3> HIDE DEF z, rest
    <3>7. QED
        BY <3>3, <3>4, <3>5, <3>6
  <2>3. QED
      BY <2>1, <2>2
<1>2. SUBSET S \subseteq G
  <2> HIDE DEF G
  <2>1. QED
    BY <1>1, SubsetInduction
<1>3. QED
    BY <1>2

\* The order in which a sum is taken does not matter: any element may come first.
LEMMA SumRemove ==
    ASSUME NEW S, IsFiniteSet(S), NEW f, \A x \in S : f[x] \in Int, NEW z \in S
    PROVE  SumFunctionOnSet(f, S) = f[z] + SumFunctionOnSet(f, S \ {z})
<1> DEFINE Sum(T) == SumFunctionOnSet(f, T)
           G == {T \in SUBSET S : \A x \in T : Sum(T) = f[x] + Sum(T \ {x})}
<1>1. ASSUME NEW A \in SUBSET S, \A B \in SUBSET A : B # A => B \in G, NEW x \in A
      PROVE  Sum(A) = f[x] + Sum(A \ {x})
  <2> DEFINE p == FirstOf(A)
             both == (A \ {p}) \ {x}
  <2>1. p \in A /\ IsFiniteSet(A) /\ IsFiniteSet(both)
      BY FirstOfIn, FS_Subset
  <2>2. f[p] \in Int /\ f[x] \in Int /\ Sum(both) \in Int
      BY <2>1, SumInt
  <2>3. Sum(A) = f[p] + Sum(A \ {p})
      BY <2>1, SumFirst
  <2>4. CASE p = x
      BY <2>3, <2>4
  <2>5. CASE p # x
    <3>1. A \ {p} \in G /\ A \ {x} \in G
        BY <1>1, <2>1
    <3>2. Sum(A \ {p}) = f[x] + Sum(both)
        BY <2>5, <3>1
    <3>3. both = (A \ {x}) \ {p}
        OBVIOUS
    <3>4. Sum(A \ {x}) = f[p] + Sum(both)
        BY <2>1, <2>5, <3>1, <3>3
    <3> HIDE DEF p, both, Sum
    <3>5. QED
        BY <2>2, <2>3, <3>2, <3>4
  <2>6. QED
      BY <2>4, <2>5
<1>2. SUBSET S \subseteq G
  <2>1. \A A \in SUBSET S : (\A B \in SUBSET A : B # A => B \in G) => A \in G
      BY <1>1
  <2> HIDE DEF G
  <2>2. QED
      BY <2>1, SubsetInduction
<1>3. QED
    BY <1>2

\* A change of one summand changes the sum by as much.
LEMMA SumChange ==
    ASSUME NEW S, IsFiniteSet(S), NEW f, NEW g, \A x \in S : f[x] \in Int /\ g[x] \in Int,
           NEW z \in S, \A x \in S \ {z} : f[x] = g[x]
    PROVE  SumFunctionOnSet(g, S) = SumFunctionOnSet(f, S) - f[z] + g[z]
<1> DEFINE rest == S \ {z}
<1>1. IsFiniteSet(rest)
    BY FS_Subset
<1>2. SumFunctionOnSet(f, rest) \in Int /\ SumFunctionOnSet(g, rest) \in Int
    BY <1>1, SumInt
<1>3. SumFunctionOnSet(f, rest) <= SumFunctionOnSet(g, rest)
    BY <1>1, SumAtMost
<1>4. SumFunctionOnSet(g, rest) <= SumFunctionOnSet(f, rest)
    BY <1>1, SumAtMost
<1>5. /\ SumFunctionOnSet(f, S) = f[z] + SumFunctionOnSet(f, rest)
      /\ SumFunctionOnSet(g, S) = g[z] + SumFunctionOnSet(g, rest)
    BY SumRemove
<1> HIDE DEF rest
<1>6. QED
    BY <1>2, <1>3, <1>4, <1>5

LEMMA SumSame ==
    ASSUME NEW S, IsFiniteSet(S), NEW f, NEW g,
           \A x \in S : f[x] \in Int /\ f[x] = g[x]
    PROVE  SumFunctionOnSet(f, S) = SumFunctionOnSet(g, S)
<1>1. SumFunctionOnSet(f, S) \in Int /\ SumFunctionOnSet(g, S) \in Int
    BY SumInt
<1>2. SumFunctionOnSet(f, S) <= SumFunctionOnSet(g, S)
    BY SumAtMost
<1>3. SumFunctionOnSet(g, S) <= SumFunctionOnSet(f, S)
    BY SumAtMost
<1>4. QED
    BY <1>1, <1>2, <1>3

\* A sum is that of a part and that of the rest.
LEMMA SumSplit ==
    ASSUME NEW S, IsFiniteSet(S), NEW f, \A x \in S : f[x] \in Int, NEW U, U \subseteq S
    PROVE  SumFunctionOnSet(f, S) = SumFunctionOnSet(f, U) + SumFunctionOnSet(f, S \ U)
<1> DEFINE Sum(T) == SumFunctionOnSet(f, T)
           G == {T \in SUBSET S : Sum(S) = Sum(T) + Sum(S \ T)}
<1>1. ASSUME NEW A \in SUBSET S, \A B \in SUBSET A : B # A => B \in G
      PROVE  A \in G
  <2>1. CASE A = {}
    <3>1. Sum(A) = 0 /\ Sum(S) \in Int
        BY <2>1, SumEmpty, SumInt
    <3>2. Sum(S \ A) = Sum(S)
      <4>1. S \ A = S
        BY <2>1
      <4>2. QED
        BY <4>1, Zenon
    <3>3. QED
        BY <3>1, <3>2
  <2>2. CASE A # {}
    <3> DEFINE z == FirstOf(A)
               less == A \ {z}
    <3>1. z \in A /\ IsFiniteSet(A)
        BY <2>2, FirstOfIn, FS_Subset
    <3>2. /\ IsFiniteSet(less) /\ IsFiniteSet(S \ less) /\ IsFiniteSet(S \ A)
          /\ (S \ less) \ {z} = S \ A
          /\ z \in S \ less
        BY <3>1, FS_Subset
    <3>3. /\ Sum(less) \in Int /\ Sum(S \ A) \in Int /\ f[z] \in Int
        BY <3>1, <3>2, SumInt
    <3>4. Sum(S) = Sum(less) + Sum(S \ less)
        BY <1>1, <3>1
    <3>5. Sum(A) = f[z] + Sum(less)
        BY <3>1, SumRemove
    <3>6. Sum(S \ less) = f[z] + Sum(S \ A)
      <4>1. Sum(S \ less) = f[z] + Sum((S \ less) \ {z})
        <5>1. \A x \in S \ less : f[x] \in Int
          OBVIOUS
        <5> HIDE DEF less, z
        <5>2. QED
          BY <3>2, <5>1, SumRemove
      <4>2. QED
        BY <3>2, <4>1
    <3>7. Sum(S) = Sum(A) + Sum(S \ A)
      <4> HIDE DEF z, less, Sum
      <4>1. QED
        BY <3>3, <3>4, <3>5, <3>6
    <3>8. QED
        BY <3>7
  <2>3. QED
      BY <2>1, <2>2
<1>2. SUBSET S \subseteq G
  <2> HIDE DEF G
  <2>1. QED
    BY <1>1, SubsetInduction
<1>3. QED
    BY <1>2

LEMMA SumZero ==
    ASSUME NEW S, IsFiniteSet(S), NEW f, \A x \in S : f[x] = 0
    PROVE  SumFunctionOnSet(f, S) = 0
<1> DEFINE G == {T \in SUBSET S : SumFunctionOnSet(f, T) = 0}
<1>1. ASSUME NEW A \in SUBSET S, \A B \in SUBSET A : B # A => B \in G
      PROVE  A \in G
  <2>1. CASE A = {}
      BY <2>1, SumEmpty
  <2>2. CASE A # {}
    <3>1. FirstOf(A) \in A /\ IsFiniteSet(A)
        BY <2>2, FirstOfIn, FS_Subset
    <3>2. SumFunctionOnSet(f, A \ {FirstOf(A)}) = 0 /\ f[FirstOf(A)] = 0
        BY <1>1, <3>1
    <3>3. SumFunctionOnSet(f, A) = f[FirstOf(A)] + SumFunctionOnSet(f, A \ {FirstOf(A)})
        BY <2>2, <3>1, SumFirst
    <3>4. SumFunctionOnSet(f, A) = 0
        BY <3>2, <3>3
    <3>5. QED
        BY <3>4
  <2>3. QED
      BY <2>1, <2>2
<1>2. SUBSET S \subseteq G
  <2> HIDE DEF G
  <2>1. QED
    BY <1>1, SubsetInduction
<1>3. QED
    BY <1>2

\* Naturals: the sum is one, and no part of it exceeds it.
LEMMA SumNat ==
    ASSUME NEW S, IsFiniteSet(S), NEW f, \A x \in S : f[x] \in Nat
    PROVE  /\ SumFunctionOnSet(f, S) \in Nat
           /\ \A U \in SUBSET S : /\ SumFunctionOnSet(f, U) \in Nat
                                  /\ SumFunctionOnSet(f, U) <= SumFunctionOnSet(f, S)
<1>1. ASSUME NEW U \in SUBSET S
      PROVE  SumFunctionOnSet(f, U) \in Nat
  <2> DEFINE zero == [x \in U |-> 0]
  <2>1. IsFiniteSet(U)
      BY FS_Subset
  <2>2. SumFunctionOnSet(zero, U) = 0
      BY <2>1, SumZero
  <2>3. SumFunctionOnSet(zero, U) <= SumFunctionOnSet(f, U)
    <3>1. \A x \in U : zero[x] \in Int /\ f[x] \in Int /\ zero[x] <= f[x]
        OBVIOUS
    <3> HIDE DEF zero
    <3>2. QED
        BY <2>1, <3>1, SumAtMost
  <2>4. SumFunctionOnSet(f, U) \in Int
      BY <2>1, SumInt
  <2>5. QED
      BY <2>2, <2>3, <2>4
<1>2. ASSUME NEW U \in SUBSET S
      PROVE  SumFunctionOnSet(f, U) <= SumFunctionOnSet(f, S)
  <2>1. SumFunctionOnSet(f, S) = SumFunctionOnSet(f, U) + SumFunctionOnSet(f, S \ U)
      BY SumSplit
  <2>2. SumFunctionOnSet(f, U) \in Nat /\ SumFunctionOnSet(f, S \ U) \in Nat
      BY <1>1
  <2>3. QED
      BY <2>1, <2>2
<1>3. QED
    BY <1>1, <1>2


-----------------------------------------------------------------------------
(* Induction over naturals, stated on a set in place of a predicate.       *)

LEMMA FromZeroUp ==
    ASSUME NEW G, 0 \in G, \A n \in Nat : n \in G => n + 1 \in G
    PROVE  Nat \subseteq G
<1>1. SUFFICES ASSUME NEW m \in Nat, m \notin G PROVE FALSE
    OBVIOUS
<1> DEFINE F == {n \in 0..m : n \notin G}
<1>2. IsFiniteSet(0..m)
    BY FS_Interval
<1>3. PICK A \in {0..n : n \in F} : \A B \in {0..n : n \in F} : ~ (<<B, A>> \in StrictSubsetOrdering(0..m))
  <2>1. {0..n : n \in F} \subseteq SUBSET (0..m) /\ {0..n : n \in F} # {}
    BY <1>1
  <2>2. IsWellFoundedOn(StrictSubsetOrdering(0..m), SUBSET (0..m))
    BY <1>2, FS_StrictSubsetOrderingWellFounded, FS_FiniteSubsetsOfFinite
  <2> HIDE DEF F
  <2>3. QED
    BY <2>1, <2>2, WFMin
<1>4. PICK n \in F : A = 0..n
    BY <1>3
<1>5. n # 0 /\ n - 1 \in F
    BY <1>4
<1>6. <<0..n - 1, 0..n>> \in StrictSubsetOrdering(0..m)
  <2>1. 0..n - 1 \in SUBSET (0..m) /\ 0..n \in SUBSET (0..m) /\ 0..n - 1 # 0..n /\ 0..n - 1 \subseteq 0..n
    BY <1>4, <1>5
  <2>2. QED
    BY <2>1 DEF StrictSubsetOrdering
<1>7. QED
    BY <1>3, <1>4, <1>5, <1>6
=============================================================================
