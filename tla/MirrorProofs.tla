------------------------------ MODULE MirrorProofs ------------------------------
(***************************************************************************)
(* The calls of a mirror batch, executed one after another, turn a new     *)
(* Treasury into an exact copy of the live one, for any collateral,        *)
(* settings, roles and vaults, but for an admin delay, which no call sets. *)
(***************************************************************************)
EXTENDS MirrorBatch, ArithmeticProofs

-----------------------------------------------------------------------------
(* Folds over a list, one element after another.                           *)

\* The states one call leads to.
RunStep(reached, call) == {Effect(at, call) : at \in {at \in reached : Accepts(at, call)}}

\* g gives, for every set of positions up to n, what the calls at them lead to.
RunsOver(g, c, txs, n) ==
    g = [s \in SUBSET (1..n) |-> IF s = {} THEN {c} ELSE RunStep(g[s \ {Max(s)}], txs[Max(s)])]

LEMMA MaxLast ==
    ASSUME NEW n \in Nat, NEW s \in SUBSET (1..n), n \in s
    PROVE  Max(s) = n
<1>1. \A y \in s : n >= y
    OBVIOUS
<1>2. \A x \in s : (\A y \in s : x >= y) => x = n
    OBVIOUS
<1>3. QED
    BY <1>1, <1>2 DEF Max

LEMMA RunsExist ==
    ASSUME NEW c, NEW txs
    PROVE  \A n \in Nat : \E g : RunsOver(g, c, txs, n)
<1> DEFINE G == {n \in Nat : \E g : RunsOver(g, c, txs, n)}
<1>1. 0 \in G
  <2> DEFINE g == [s \in SUBSET (1..0) |-> {c}]
  <2>1. 1..0 = {}
    OBVIOUS
  <2>2. g = [s \in SUBSET (1..0) |-> IF s = {} THEN {c} ELSE RunStep(g[s \ {Max(s)}], txs[Max(s)])]
    BY <2>1
  <2>3. RunsOver(g, c, txs, 0)
    <3> HIDE DEF g
    <3>1. QED
      BY <2>2 DEF RunsOver
  <2> HIDE DEF g
  <2>4. QED
    BY <2>3
<1>2. ASSUME NEW n \in Nat, n \in G
      PROVE  n + 1 \in G
  <2>1. PICK g : RunsOver(g, c, txs, n)
    BY <1>2
  <2> DEFINE h == [s \in SUBSET (1..n + 1) |-> IF n + 1 \in s THEN RunStep(g[s \ {n + 1}], txs[n + 1]) ELSE g[s]]
  <2>2. ASSUME NEW s \in SUBSET (1..n + 1)
        PROVE  h[s] = IF s = {} THEN {c} ELSE RunStep(h[s \ {Max(s)}], txs[Max(s)])
    <3>1. CASE n + 1 \in s
      <4>1. Max(s) = n + 1
        BY <2>2, <3>1, MaxLast
      <4>2. s \ {n + 1} \in SUBSET (1..n + 1) /\ n + 1 \notin s \ {n + 1}
        BY <2>2
      <4>3. h[s \ {n + 1}] = g[s \ {n + 1}] /\ h[s] = RunStep(g[s \ {n + 1}], txs[n + 1])
        BY <2>2, <3>1, <4>2
      <4>4. QED
        BY <3>1, <4>1, <4>3
    <3>2. CASE n + 1 \notin s
      <4>1. s \in SUBSET (1..n) /\ s \ {Max(s)} \in SUBSET (1..n)
        <5>1. \A y \in s : y \in 1..n + 1 /\ y # n + 1
          BY <2>2, <3>2
        <5>2. \A y \in s : y \in 1..n
          BY <5>1
        <5>3. QED
          BY <5>2
      <4>2. h[s] = g[s]
        BY <2>2, <3>2
      <4>3. h[s \ {Max(s)}] = g[s \ {Max(s)}]
        <5>1. s \ {Max(s)} \in SUBSET (1..n + 1) /\ n + 1 \notin s \ {Max(s)}
          BY <4>1
        <5>2. QED
          BY <5>1
      <4>4. g[s] = IF s = {} THEN {c} ELSE RunStep(g[s \ {Max(s)}], txs[Max(s)])
        BY <2>1, <4>1 DEF RunsOver
      <4>5. QED
        BY <4>2, <4>3, <4>4
    <3>3. QED
      BY <3>1, <3>2
  <2>3. h = [s \in SUBSET (1..n + 1) |-> h[s]]
    OBVIOUS
  <2>4. RunsOver(h, c, txs, n + 1)
    <3> HIDE DEF h
    <3>1. QED
      BY <2>2, <2>3 DEF RunsOver
  <2> HIDE DEF h
  <2>5. QED
    BY <2>4
<1>3. Nat \subseteq G
  <2> HIDE DEF G
  <2>1. QED
    BY <1>1, <1>2, FromZeroUp
<1>4. QED
    BY <1>3

\* RunCalls is reached call by call.
LEMMA RunTrace ==
    ASSUME NEW c, NEW S, NEW txs \in Seq(S)
    PROVE  \E f : /\ f[0] = {c}
                  /\ \A i \in 1..Len(txs) : f[i] = RunStep(f[i - 1], txs[i])
                  /\ f[Len(txs)] = RunCalls(c, txs)
<1> DEFINE n == Len(txs)
           g == CHOOSE h : RunsOver(h, c, txs, n)
           f == [i \in 0..n |-> g[1..i]]
<1>1. n \in Nat /\ DOMAIN txs = 1..n
    OBVIOUS
<1>2. RunsOver(g, c, txs, n)
    BY <1>1, RunsExist
<1>3. RunCalls(c, txs) = g[1..n]
    BY <1>1 DEF RunCalls, FoldLeft, MapThenFoldSet, RunsOver, RunStep
<1> HIDE DEF g, n
<1>4. f[0] = {c}
  <2>1. 1..0 = {} /\ {} \in SUBSET (1..n)
    OBVIOUS
  <2>2. g[{}] = {c}
    BY <1>2, <2>1 DEF RunsOver
  <2>3. QED
    BY <1>1, <2>1, <2>2
<1>5. ASSUME NEW i \in 1..n
      PROVE  f[i] = RunStep(f[i - 1], txs[i])
  <2>1. 1..i \in SUBSET (1..n) /\ 1..i # {} /\ i \in 1..i /\ i - 1 \in 0..n /\ i \in 0..n
    BY <1>1, <1>5
  <2>2. (1..i) \ {i} = 1..i - 1
    BY <1>1, <1>5
  <2>3. Max(1..i) = i
    BY <1>1, <1>5, MaxLast
  <2>4. g[1..i] = RunStep(g[(1..i) \ {i}], txs[i])
    BY <1>2, <2>1, <2>3 DEF RunsOver
  <2>5. QED
    BY <2>1, <2>2, <2>4
<1>6. f[n] = RunCalls(c, txs)
    BY <1>1, <1>3
<1> HIDE DEF f
<1>7. QED
    BY <1>4, <1>5, <1>6 DEF n

\* The name keeps the provers from taking a list apart before it is known to be one.
Then(list, next) == list \o next

\* g gives, for every position up to n, the lists up to it put together.
FlatOver(g, seqs, n) == g = [i \in 1..n |-> IF i = 1 THEN seqs[i] ELSE Then(g[i - 1], seqs[i])]

LEMMA FlatExists ==
    ASSUME NEW seqs
    PROVE  \A n \in Nat : \E g : FlatOver(g, seqs, n)
<1> DEFINE G == {n \in Nat : \E g : FlatOver(g, seqs, n)}
<1>1. 0 \in G
  <2> DEFINE g == [i \in 1..0 |-> <<>>]
  <2>1. g = [i \in 1..0 |-> IF i = 1 THEN seqs[i] ELSE Then(g[i - 1], seqs[i])]
    OBVIOUS
  <2>2. FlatOver(g, seqs, 0)
    <3> HIDE DEF g
    <3>1. QED
      BY <2>1 DEF FlatOver
  <2> HIDE DEF g
  <2>3. QED
    BY <2>2
<1>2. ASSUME NEW n \in Nat, n \in G
      PROVE  n + 1 \in G
  <2>1. PICK g : FlatOver(g, seqs, n)
    BY <1>2
  <2> DEFINE h == [i \in 1..n + 1 |-> IF i <= n THEN g[i] ELSE IF i = 1 THEN seqs[i] ELSE Then(g[n], seqs[i])]
  <2>2. ASSUME NEW i \in 1..n + 1
        PROVE  h[i] = IF i = 1 THEN seqs[i] ELSE Then(h[i - 1], seqs[i])
    <3>1. CASE i <= n
      <4>1. g[i] = IF i = 1 THEN seqs[i] ELSE Then(g[i - 1], seqs[i])
        BY <2>1, <2>2, <3>1 DEF FlatOver
      <4>2. i # 1 => i - 1 \in 1..n + 1 /\ i - 1 <= n
        BY <3>1
      <4>3. QED
        BY <3>1, <4>1, <4>2
    <3>2. CASE i = n + 1
      <4>1. i # 1 => i - 1 \in 1..n + 1 /\ i - 1 <= n /\ i - 1 = n
        BY <3>2
      <4>2. i # 1 => h[i - 1] = g[n]
        BY <4>1
      <4>3. QED
        BY <3>2, <4>2
    <3>3. QED
      BY <3>1, <3>2
  <2>3. h = [i \in 1..n + 1 |-> h[i]]
    OBVIOUS
  <2>4. FlatOver(h, seqs, n + 1)
    <3> HIDE DEF h
    <3>1. QED
      BY <2>2, <2>3 DEF FlatOver
  <2> HIDE DEF h
  <2>5. QED
    BY <2>4
<1>3. Nat \subseteq G
  <2> HIDE DEF G
  <2>1. QED
    BY <1>1, <1>2, FromZeroUp
<1>4. QED
    BY <1>3

\* FlattenSeq puts lists together one after another.
LEMMA FlatTrace ==
    ASSUME NEW S, NEW seqs \in Seq(Seq(S))
    PROVE  \E f : /\ f[0] = <<>>
                  /\ \A i \in 1..Len(seqs) : f[i] = Then(f[i - 1], seqs[i])
                  /\ \A i \in 0..Len(seqs) : f[i] \in Seq(S)
                  /\ f[Len(seqs)] = FlattenSeq(seqs)
<1> DEFINE n == Len(seqs)
           g == CHOOSE h : FlatOver(h, seqs, n)
           f == [i \in 0..n |-> IF i = 0 THEN <<>> ELSE g[i]]
<1>1. n \in Nat /\ \A i \in 1..n : seqs[i] \in Seq(S)
    OBVIOUS
<1>2. FlatOver(g, seqs, n)
    BY <1>1, FlatExists
<1>3. n # 0 => FlattenSeq(seqs) = g[n]
    BY <1>1 DEF FlattenSeq, FlatOver, Then
<1>4. n = 0 => FlattenSeq(seqs) = <<>>
    BY DEF FlattenSeq
<1> HIDE DEF g, n
<1>5. ASSUME NEW i \in 1..n
      PROVE  f[i] = Then(f[i - 1], seqs[i])
  <2>1. g[i] = IF i = 1 THEN seqs[i] ELSE Then(g[i - 1], seqs[i])
    BY <1>2 DEF FlatOver
  <2>2. i = 1 => f[i - 1] = <<>> /\ f[i] = seqs[i]
    BY <1>1, <1>5, <2>1
  <2>3. i = 1 => Then(f[i - 1], seqs[i]) = seqs[i]
    <3>1. seqs[i] \in Seq(S)
      BY <1>1, <1>5
    <3>2. \A s \in Seq(S) : Then(<<>>, s) = s
      BY DEF Then
    <3> HIDE DEF f
    <3>3. QED
      BY <2>2, <3>1, <3>2
  <2>4. i # 1 => f[i - 1] = g[i - 1] /\ f[i] = Then(g[i - 1], seqs[i])
    <3>1. i # 1 => i - 1 # 0 /\ i # 0 /\ i - 1 \in 0..n /\ i \in 0..n
      BY <1>1, <1>5
    <3>2. QED
      BY <2>1, <3>1
  <2> HIDE DEF f
  <2>5. QED
    BY <2>2, <2>3, <2>4
<1>6. f[0] = <<>> /\ f[n] = FlattenSeq(seqs)
    BY <1>1, <1>3, <1>4
<1> HIDE DEF f
<1>7. \A i \in 0..n : f[i] \in Seq(S)
  <2> DEFINE G == {i \in Nat : i <= n => f[i] \in Seq(S)}
  <2>1. 0 \in G
    <3>1. <<>> \in Seq(S)
      OBVIOUS
    <3>2. QED
      BY <1>6, <3>1
  <2>2. ASSUME NEW i \in Nat, i \in G
        PROVE  i + 1 \in G
    <3>1. SUFFICES ASSUME i + 1 <= n PROVE f[i + 1] \in Seq(S)
      OBVIOUS
    <3>2. i + 1 \in 1..n /\ f[i] \in Seq(S)
      BY <1>1, <2>2, <3>1
    <3>3. f[i + 1] = Then(f[i], seqs[i + 1])
      BY <1>1, <1>5, <3>2
    <3>4. f[i] \in Seq(S) /\ seqs[i + 1] \in Seq(S)
      BY <1>1, <3>2
    <3>5. Then(f[i], seqs[i + 1]) \in Seq(S)
      BY <3>4 DEF Then
    <3>6. QED
      BY <3>3, <3>5
  <2>3. Nat \subseteq G
    <3> HIDE DEF G
    <3>1. QED
      BY <2>1, <2>2, FromZeroUp
  <2>4. QED
    BY <1>1, <2>3
<1>8. QED
    BY <1>5, <1>6, <1>7 DEF n

\* What a list contributes element by element comes from what its elements are given.
LEMMA ForEachType ==
    ASSUME NEW S, NEW T, NEW list \in Seq(T), NEW given, \A t \in T : given[t] \in Seq(S)
    PROVE  ForEach(list, given) \in Seq(S)
<1> DEFINE seqs == [i \in DOMAIN list |-> given[list[i]]]
<1>1. \A i \in 1..Len(list) : given[list[i]] \in Seq(S)
    OBVIOUS
<1>2. seqs \in Seq(Seq(S)) /\ Len(seqs) = Len(list)
    BY <1>1
<1> HIDE DEF seqs
<1>3. FlattenSeq(seqs) \in Seq(S)
  <2>1. PICK f : /\ \A i \in 0..Len(seqs) : f[i] \in Seq(S)
                 /\ f[Len(seqs)] = FlattenSeq(seqs)
    BY <1>2, FlatTrace
  <2>2. Len(seqs) \in 0..Len(seqs)
    BY <1>2
  <2>3. QED
    BY <2>1, <2>2
<1>4. QED
    BY <1>3 DEF ForEach, seqs

LEMMA SetToSeqType ==
    ASSUME NEW S, IsFiniteSet(S)
    PROVE  SetToSeq(S) \in Seq(S)
<1>1. Cardinality(S) \in Nat /\ ExistsBijection(1..Cardinality(S), S)
    BY FS_CardinalityType
<1>2. PICK f : f \in Bijection(1..Cardinality(S), S)
    BY <1>1 DEF ExistsBijection
<1>3. f \in [1..Cardinality(S) -> S] /\ IsInjective(f)
    BY <1>2 DEF Bijection, Injection
<1>4. SetToSeq(S) \in [1..Cardinality(S) -> S]
    BY <1>3 DEF SetToSeq
<1>5. QED
    BY <1>1, <1>4

LEMMA GrantsFinite ==
    ASSUME NEW R, IsFiniteSet(R)
    PROVE  /\ IsFiniteSet({Grant(g) : g \in R})
           /\ IsFiniteSet({Revoke(g) : g \in R})
<1>1. [g \in R |-> Grant(g)] \in Surjection(R, {Grant(g) : g \in R})
    BY DEF Surjection
<1>2. [g \in R |-> Revoke(g)] \in Surjection(R, {Revoke(g) : g \in R})
    BY DEF Surjection
<1>3. QED
    BY <1>1, <1>2, FS_Surjection DEF ExistsSurjection

LEMMA WhenType ==
    ASSUME NEW S, NEW call \in S, NEW condition
    PROVE  When(condition, call) \in Seq(S)
<1>1. <<>> \in Seq(S) /\ <<call>> \in Seq(S)
    OBVIOUS
<1>2. QED
    BY <1>1 DEF When


-----------------------------------------------------------------------------
(* From one state to the next.                                             *)

\* The calls lead from state c to state d, and to no other.
Leads(c, txs, d) == RunCalls(c, txs) = {d}

\* What leads from state to state, call by call, leads from the first to the last.
LEMMA LeadsAlong ==
    ASSUME NEW S, NEW txs \in Seq(S), NEW at,
           \A i \in 1..Len(txs) : Accepts(at[i - 1], txs[i]) /\ Effect(at[i - 1], txs[i]) = at[i]
    PROVE  Leads(at[0], txs, at[Len(txs)])
<1>1. PICK f : /\ f[0] = {at[0]}
               /\ \A i \in 1..Len(txs) : f[i] = RunStep(f[i - 1], txs[i])
               /\ f[Len(txs)] = RunCalls(at[0], txs)
    BY RunTrace
<1> DEFINE n == Len(txs)
           G == {i \in Nat : i <= n => f[i] = {at[i]}}
<1>2. n \in Nat
    OBVIOUS
<1>3. 0 \in G
    BY <1>1
<1>4. ASSUME NEW i \in Nat, i \in G
      PROVE  i + 1 \in G
  <2>1. SUFFICES ASSUME i + 1 <= n PROVE f[i + 1] = {at[i + 1]}
    OBVIOUS
  <2>2. i + 1 \in 1..n /\ (i + 1) - 1 = i /\ i <= n
    BY <1>2, <2>1
  <2>3. f[i + 1] = RunStep(f[i], txs[i + 1]) /\ f[i] = {at[i]}
    BY <1>1, <1>4, <2>2
  <2>4. Accepts(at[i], txs[i + 1]) /\ Effect(at[i], txs[i + 1]) = at[i + 1]
    BY <2>2
  <2>5. RunStep({at[i]}, txs[i + 1]) = {Effect(at[i], txs[i + 1])}
    BY <2>4 DEF RunStep
  <2>6. QED
    BY <2>3, <2>4, <2>5
<1>5. Nat \subseteq G
  <2> HIDE DEF G
  <2>1. QED
    BY <1>3, <1>4, FromZeroUp
<1>6. QED
    BY <1>1, <1>2, <1>5 DEF Leads

\* The states on the way.
LEMMA LeadsTrace ==
    ASSUME NEW c, NEW S, NEW txs \in Seq(S), NEW d, Leads(c, txs, d)
    PROVE  \E at : /\ at[0] = c /\ at[Len(txs)] = d
                   /\ \A i \in 1..Len(txs) : Accepts(at[i - 1], txs[i]) /\ Effect(at[i - 1], txs[i]) = at[i]
<1> DEFINE n == Len(txs)
<1>1. n \in Nat
    OBVIOUS
<1>2. PICK f : /\ f[0] = {c}
               /\ \A i \in 1..n : f[i] = RunStep(f[i - 1], txs[i])
               /\ f[n] = RunCalls(c, txs)
    BY RunTrace
<1>3. f[n] = {d}
    BY <1>2 DEF Leads
<1> HIDE DEF n
<1> DEFINE H == {i \in Nat : i <= n => f[n - i] # {}}
<1>4. 0 \in H
  <2>1. n - 0 = n
    BY <1>1
  <2>2. QED
    BY <1>3, <2>1
<1>5. ASSUME NEW i \in Nat, i \in H
      PROVE  i + 1 \in H
  <2>1. SUFFICES ASSUME i + 1 <= n, f[n - (i + 1)] = {} PROVE FALSE
    OBVIOUS
  <2>2. n - i \in 1..n /\ (n - i) - 1 = n - (i + 1) /\ i <= n
    BY <1>1, <2>1
  <2>3. f[n - i] = RunStep({}, txs[n - i])
    BY <1>2, <2>1, <2>2
  <2>4. QED
    BY <1>5, <2>1, <2>2, <2>3 DEF RunStep
<1>6. Nat \subseteq H
  <2> HIDE DEF H
  <2>1. QED
    BY <1>4, <1>5, FromZeroUp
<1>7. \A i \in 0..n : f[i] # {}
  <2>1. SUFFICES ASSUME NEW i \in 0..n PROVE f[i] # {}
    OBVIOUS
  <2>2. n - i \in Nat /\ n - (n - i) = i /\ n - i <= n
    BY <1>1
  <2>3. QED
    BY <1>6, <2>2
<1>8. ASSUME NEW i \in 1..n, NEW x, f[i - 1] = {x}
      PROVE  Accepts(x, txs[i]) /\ f[i] = {Effect(x, txs[i])}
  <2>1. f[i] = RunStep({x}, txs[i])
    BY <1>2, <1>8
  <2>2. f[i] # {}
    BY <1>1, <1>7
  <2>3. QED
    BY <2>1, <2>2 DEF RunStep
<1> DEFINE One(i) == \E x : f[i] = {x}
           G == {i \in Nat : i <= n => One(i)}
<1>9. 0 \in G
    BY <1>2
<1>10. ASSUME NEW i \in Nat, i \in G
       PROVE  i + 1 \in G
  <2>1. SUFFICES ASSUME i + 1 <= n PROVE One(i + 1)
    <3> HIDE DEF One
    <3>1. QED
      OBVIOUS
  <2>2. i + 1 \in 1..n /\ (i + 1) - 1 = i /\ i <= n
    BY <1>1, <2>1
  <2>3. PICK x : f[i] = {x}
    BY <1>10, <2>2
  <2>4. f[(i + 1) - 1] = {x}
    BY <2>2, <2>3
  <2>5. f[i + 1] = {Effect(x, txs[i + 1])}
    BY <1>8, <2>2, <2>4
  <2>6. QED
    BY <2>5
<1>11. Nat \subseteq G
  <2> HIDE DEF G, H
  <2>1. QED
    BY <1>9, <1>10, FromZeroUp
<1> DEFINE at == [i \in 0..n |-> CHOOSE x : f[i] = {x}]
<1>12. ASSUME NEW i \in 0..n
       PROVE  f[i] = {at[i]}
  <2>1. i \in Nat /\ i <= n
    BY <1>1
  <2>2. \E x : f[i] = {x}
    BY <1>11, <2>1
  <2>3. QED
    BY <2>2
<1>13. 0 \in 0..n /\ n \in 0..n
    BY <1>1
<1> HIDE DEF at, G, H
<1>14. at[0] = c /\ at[n] = d
    BY <1>2, <1>3, <1>12, <1>13
<1>15. ASSUME NEW i \in 1..n
       PROVE  Accepts(at[i - 1], txs[i]) /\ Effect(at[i - 1], txs[i]) = at[i]
  <2>1. i \in 0..n /\ i - 1 \in 0..n
    BY <1>1
  <2>2. f[i - 1] = {at[i - 1]} /\ f[i] = {at[i]}
    BY <1>12, <2>1
  <2>3. Accepts(at[i - 1], txs[i]) /\ f[i] = {Effect(at[i - 1], txs[i])}
    BY <1>8, <2>2
  <2>4. QED
    BY <2>2, <2>3
<1>16. QED
    BY <1>14, <1>15 DEF n

LEMMA LeadsThen ==
    ASSUME NEW c, NEW S, NEW s \in Seq(S), NEW t \in Seq(S), NEW d, NEW e,
           Leads(c, s, d), Leads(d, t, e)
    PROVE  Leads(c, s \o t, e)
<1> DEFINE m == Len(s)
           n == Len(t)
           all == s \o t
<1>1. PICK one : /\ one[0] = c /\ one[m] = d
                 /\ \A i \in 1..m : Accepts(one[i - 1], s[i]) /\ Effect(one[i - 1], s[i]) = one[i]
    BY LeadsTrace
<1>2. PICK two : /\ two[0] = d /\ two[n] = e
                 /\ \A i \in 1..n : Accepts(two[i - 1], t[i]) /\ Effect(two[i - 1], t[i]) = two[i]
    BY LeadsTrace
<1>3. /\ m \in Nat /\ n \in Nat /\ all \in Seq(S) /\ Len(all) = m + n
      /\ \A i \in 1..m + n : all[i] = IF i <= m THEN s[i] ELSE t[i - m]
    OBVIOUS
<1> HIDE DEF m, n, all
<1> DEFINE at == [i \in 0..m + n |-> IF i <= m THEN one[i] ELSE two[i - m]]
<1>4. \A i \in 0..m + n : at[i] = IF i <= m THEN one[i] ELSE two[i - m]
    OBVIOUS
<1>5. at[0] = c
    BY <1>1, <1>3
<1>6. at[m + n] = e
  <2>1. CASE n = 0
    BY <1>1, <1>2, <1>3, <2>1
  <2>2. CASE n # 0
    <3>1. m + n \in 0..m + n /\ ~(m + n <= m) /\ (m + n) - m = n
      BY <1>3, <2>2
    <3>2. QED
      BY <1>2, <1>4, <3>1
  <2>3. QED
    BY <2>1, <2>2
<1> HIDE DEF at
<1>7. ASSUME NEW i \in 1..m + n
      PROVE  Accepts(at[i - 1], all[i]) /\ Effect(at[i - 1], all[i]) = at[i]
  <2>1. i \in 0..m + n /\ i - 1 \in 0..m + n
    BY <1>3
  <2>2. CASE i <= m
    <3>1. i \in 1..m /\ i - 1 <= m
      BY <1>3, <2>2
    <3>2. at[i] = one[i] /\ at[i - 1] = one[i - 1] /\ all[i] = s[i]
      BY <1>3, <1>4, <2>1, <2>2, <3>1
    <3>3. QED
      BY <1>1, <3>1, <3>2
  <2>3. CASE i = m + 1
    <3>1. 1 \in 1..n /\ ~(i <= m) /\ i - m = 1 /\ i - 1 = m /\ m <= m /\ 1 - 1 = 0
      BY <1>3, <2>3
    <3>2. at[i] = two[1] /\ at[i - 1] = one[m] /\ all[i] = t[1]
      BY <1>3, <1>4, <2>1, <3>1
    <3>3. Accepts(two[0], t[1]) /\ Effect(two[0], t[1]) = two[1]
      BY <1>2, <3>1
    <3>4. QED
      BY <1>1, <1>2, <3>2, <3>3
  <2>4. CASE i > m + 1
    <3>1. i - m \in 1..n /\ ~(i <= m) /\ ~(i - 1 <= m) /\ (i - 1) - m = (i - m) - 1
      BY <1>3, <2>4
    <3>2. at[i] = two[i - m] /\ at[i - 1] = two[(i - m) - 1] /\ all[i] = t[i - m]
      BY <1>3, <1>4, <2>1, <3>1
    <3>3. QED
      BY <1>2, <3>1, <3>2
  <2>5. QED
    BY <1>3, <2>2, <2>3, <2>4
<1>8. Leads(at[0], all, at[Len(all)])
    BY <1>3, <1>7, LeadsAlong
<1>9. QED
    BY <1>3, <1>5, <1>6, <1>8 DEF all

LEMMA LeadsNone ==
    ASSUME NEW c
    PROVE  Leads(c, <<>>, c)
<1> DEFINE at == [i \in {0} |-> c]
           txs == <<>>
<1>1. txs \in Seq({}) /\ Len(txs) = 0 /\ 1..0 = {} /\ at[0] = c
    OBVIOUS
<1> HIDE DEF at, txs
<1>2. Leads(at[0], txs, at[Len(txs)])
    BY <1>1, LeadsAlong
<1>3. QED
    BY <1>1, <1>2 DEF txs

LEMMA LeadsOne ==
    ASSUME NEW c, NEW call, Accepts(c, call)
    PROVE  Leads(c, <<call>>, Effect(c, call))
<1> DEFINE d == Effect(c, call)
           at == [i \in {0, 1} |-> IF i = 0 THEN c ELSE d]
           txs == <<call>>
<1>1. d = Effect(c, call)
    OBVIOUS
<1> HIDE DEF d
<1>2. txs \in Seq({call}) /\ Len(txs) = 1 /\ txs[1] = call /\ at[0] = c /\ at[1] = d
    OBVIOUS
<1> HIDE DEF at, txs
<1>3. \A i \in 1..Len(txs) : Accepts(at[i - 1], txs[i]) /\ Effect(at[i - 1], txs[i]) = at[i]
  <2>1. \A i \in 1..1 : i = 1 /\ i - 1 = 0
    OBVIOUS
  <2>2. QED
    BY <1>1, <1>2, <2>1
<1>4. Leads(at[0], txs, at[Len(txs)])
    BY <1>2, <1>3, LeadsAlong
<1>5. QED
    BY <1>2, <1>4 DEF d, txs

LEMMA LeadsWhen ==
    ASSUME NEW c, NEW d, NEW call, NEW condition \in BOOLEAN,
           condition => Accepts(c, call) /\ Effect(c, call) = d,
           ~condition => c = d
    PROVE  Leads(c, When(condition, call), d)
<1>1. CASE condition
  <2>1. When(condition, call) = <<call>>
    BY <1>1 DEF When
  <2>2. Leads(c, <<call>>, Effect(c, call))
    BY <1>1, LeadsOne
  <2>3. QED
    BY <1>1, <2>1, <2>2
<1>2. CASE ~condition
  <2>1. When(condition, call) = <<>>
    BY <1>2 DEF When
  <2>2. QED
    BY <1>2, <2>1, LeadsNone
<1>3. QED
    BY <1>1, <1>2

\* Element by element, if what each is given leads one state further.
LEMMA LeadsForEach ==
    ASSUME NEW S, NEW T, NEW list \in Seq(T), NEW given, \A t \in T : given[t] \in Seq(S),
           NEW at, \A i \in 1..Len(list) : Leads(at[i - 1], given[list[i]], at[i])
    PROVE  Leads(at[0], ForEach(list, given), at[Len(list)])
<1> DEFINE n == Len(list)
           seqs == [i \in DOMAIN list |-> given[list[i]]]
<1>1. n \in Nat /\ \A i \in 1..n : given[list[i]] \in Seq(S)
    OBVIOUS
<1>2. seqs \in Seq(Seq(S)) /\ Len(seqs) = n /\ \A i \in 1..n : seqs[i] = given[list[i]]
    BY <1>1
<1>3. ForEach(list, given) = FlattenSeq(seqs)
    BY DEF ForEach
<1>4. \A i \in 1..n : Leads(at[i - 1], seqs[i], at[i])
    BY <1>2
<1> HIDE DEF seqs, n
<1>5. PICK f : /\ f[0] = <<>>
               /\ \A i \in 1..n : f[i] = Then(f[i - 1], seqs[i])
               /\ \A i \in 0..n : f[i] \in Seq(S)
               /\ f[n] = FlattenSeq(seqs)
    BY <1>2, FlatTrace
<1> DEFINE G == {i \in Nat : i <= n => Leads(at[0], f[i], at[i])}
<1>6. 0 \in G
    BY <1>5, LeadsNone
<1>7. ASSUME NEW i \in Nat, i \in G
      PROVE  i + 1 \in G
  <2>1. SUFFICES ASSUME i + 1 <= n PROVE Leads(at[0], f[i + 1], at[i + 1])
    OBVIOUS
  <2>2. i + 1 \in 1..n /\ (i + 1) - 1 = i /\ i <= n /\ i \in 0..n
    BY <1>1, <2>1
  <2>3. f[i + 1] = Then(f[i], seqs[i + 1]) /\ f[i] \in Seq(S) /\ seqs[i + 1] \in Seq(S)
    BY <1>2, <1>5, <2>2
  <2>4. Leads(at[0], f[i], at[i]) /\ Leads(at[i], seqs[i + 1], at[i + 1])
    BY <1>4, <1>7, <2>2
  <2>5. Leads(at[0], Then(f[i], seqs[i + 1]), at[i + 1])
    BY <2>3, <2>4, LeadsThen DEF Then
  <2>6. QED
    BY <2>3, <2>5
<1>8. Nat \subseteq G
  <2> HIDE DEF G
  <2>1. QED
    BY <1>6, <1>7, FromZeroUp
<1>9. QED
    BY <1>1, <1>3, <1>5, <1>8 DEF n

-----------------------------------------------------------------------------
(* The states on the way.                                                  *)

\* c with the new Treasury and the vaults' access as given ...
At(c, access, new) ==
    [old |-> c.old, new |-> new, token |-> c.token, access |-> access, gateway |-> c.gateway, held |-> c.held]

\* ... and a Treasury of the Safe's with these settings.
Copy(tokens, cfg, tolerance, swapper, roles) ==
    [tokens |-> tokens, cfg |-> cfg, tolerance |-> tolerance, swapper |-> swapper, roles |-> roles,
     admin |-> Safe, delay |-> INIT_DELAY, pending |-> "none"]

LEMMA SetToSeqAll ==
    ASSUME NEW S, IsFiniteSet(S)
    PROVE  SetToSeq(S) \in Seq(S) /\ \A x \in S : \E i \in 1..Len(SetToSeq(S)) : SetToSeq(S)[i] = x
<1> DEFINE n == Cardinality(S)
           f == SetToSeq(S)
<1>1. n \in Nat /\ ExistsBijection(1..n, S)
    BY FS_CardinalityType
<1>2. PICK g : g \in Bijection(1..n, S)
    BY <1>1 DEF ExistsBijection
<1>3. g \in [1..n -> S] /\ IsInjective(g)
    BY <1>2 DEF Bijection, Injection
<1>4. f \in [1..n -> S] /\ IsInjective(f)
    BY <1>3 DEF SetToSeq
<1>5. f \in Injection(1..n, S)
    BY <1>4 DEF Injection
<1>6. IsFiniteSet(1..n) /\ Cardinality(1..n) = n
    BY <1>1, FS_Interval
<1> HIDE DEF f
<1>7. f \in Surjection(1..n, S)
    BY <1>5, <1>6, FS_Injection
<1> HIDE DEF n
<1>8. f \in Seq(S) /\ Len(f) = n
    BY <1>1, <1>4
<1>9. \A x \in S : \E i \in 1..n : f[i] = x
    BY <1>7 DEF Surjection
<1>10. QED
    BY <1>8, <1>9 DEF f

\* The calls of a set, in any order, if each leads on from whatever was done before it.
LEMMA LeadsAll ==
    ASSUME NEW S, IsFiniteSet(S), NEW at,
           \A done \in SUBSET S, call \in S :
               Accepts(at[done], call) /\ Effect(at[done], call) = at[done \cup {call}]
    PROVE  Leads(at[{}], SetToSeq(S), at[S])
<1> DEFINE txs == SetToSeq(S)
           n == Len(txs)
           upTo == [i \in 0..n |-> at[{txs[j] : j \in 1..i}]]
<1>1. txs \in Seq(S) /\ \A x \in S : \E i \in 1..n : txs[i] = x
    BY SetToSeqAll
<1>2. n \in Nat
    BY <1>1
<1> HIDE DEF txs
<1>3. \A i \in 1..n : txs[i] \in S
    BY <1>1
<1> HIDE DEF n
<1>4. \A i \in 0..n : upTo[i] = at[{txs[j] : j \in 1..i}]
    OBVIOUS
<1>5. upTo[0] = at[{}] /\ upTo[n] = at[S]
  <2>1. 0 \in 0..n /\ n \in 0..n /\ 1..0 = {}
    BY <1>2
  <2>2. {txs[j] : j \in 1..n} = S
    BY <1>1, <1>3
  <2>3. {txs[j] : j \in 1..0} = {}
    BY <2>1
  <2>4. QED
    BY <1>4, <2>1, <2>2, <2>3
<1> HIDE DEF upTo
<1>6. ASSUME NEW i \in 1..n
      PROVE  Accepts(upTo[i - 1], txs[i]) /\ Effect(upTo[i - 1], txs[i]) = upTo[i]
  <2> DEFINE done == {txs[j] : j \in 1..i - 1}
  <2>1. i \in 0..n /\ i - 1 \in 0..n /\ \A j : j \in 1..i <=> j \in 1..i - 1 \/ j = i
    BY <1>2
  <2>2. \A j \in 1..i - 1 : j \in 1..n
    BY <1>2
  <2>3. done \in SUBSET S /\ txs[i] \in S
    BY <1>3, <2>2
  <2>4. {txs[j] : j \in 1..i} = done \cup {txs[i]}
    BY <2>1
  <2>5. upTo[i - 1] = at[done] /\ upTo[i] = at[{txs[j] : j \in 1..i}]
    BY <1>4, <2>1
  <2> HIDE DEF done
  <2>6. upTo[i] = at[done \cup {txs[i]}]
    BY <2>4, <2>5
  <2>7. QED
    BY <2>3, <2>5, <2>6
<1>7. Leads(upTo[0], txs, upTo[Len(txs)])
    BY <1>1, <1>6, LeadsAlong DEF n
<1>8. QED
    BY <1>5, <1>7 DEF n, txs

\* The Safe grants roles ...
LEMMA GrantsLead ==
    ASSUME NEW c, NEW access, NEW tokens, NEW cfg, NEW tolerance, NEW swapper, NEW roles, NEW R, IsFiniteSet(R)
    PROVE  Leads(At(c, access, Copy(tokens, cfg, tolerance, swapper, roles)), SetToSeq({Grant(g) : g \in R}),
                 At(c, access, Copy(tokens, cfg, tolerance, swapper, roles \cup R)))
<1> DEFINE S == {Grant(g) : g \in R}
           State(held) == At(c, access, Copy(tokens, cfg, tolerance, swapper, held))
           at == [done \in SUBSET S |-> State(roles \cup {call.grant : call \in done})]
<1>1. IsFiniteSet(S)
    BY GrantsFinite
<1>2. ASSUME NEW held, NEW g
      PROVE  Accepts(State(held), Grant(g)) /\ Effect(State(held), Grant(g)) = State(held \cup {g})
    BY DEF Accepts, Effect, Grant, At, Copy
<1>3. \A g : Grant(g).grant = g
    BY DEF Grant
<1> HIDE DEF State
<1>4. ASSUME NEW done \in SUBSET S, NEW call \in S
      PROVE  Accepts(at[done], call) /\ Effect(at[done], call) = at[done \cup {call}]
  <2>1. PICK g \in R : call = Grant(g)
    OBVIOUS
  <2>2. (roles \cup {x.grant : x \in done}) \cup {g} = roles \cup {x.grant : x \in done \cup {call}}
    BY <1>3, <2>1
  <2>3. at[done \cup {call}] = State(roles \cup {x.grant : x \in done \cup {call}})
    OBVIOUS
  <2>4. QED
    BY <1>2, <2>1, <2>2, <2>3
<1>5. at[{}] = State(roles) /\ at[S] = State(roles \cup R)
  <2>1. {call.grant : call \in {}} = {} /\ {call.grant : call \in S} = R
    BY <1>3
  <2>2. QED
    BY <2>1
<1> HIDE DEF S, at
<1>6. Leads(at[{}], SetToSeq(S), at[S])
    BY <1>1, <1>4, LeadsAll
<1>7. QED
    BY <1>5, <1>6 DEF State, S

\* ... and revokes them.
LEMMA RevokesLead ==
    ASSUME NEW c, NEW access, NEW tokens, NEW cfg, NEW tolerance, NEW swapper, NEW roles, NEW R, IsFiniteSet(R)
    PROVE  Leads(At(c, access, Copy(tokens, cfg, tolerance, swapper, roles)), SetToSeq({Revoke(g) : g \in R}),
                 At(c, access, Copy(tokens, cfg, tolerance, swapper, roles \ R)))
<1> DEFINE S == {Revoke(g) : g \in R}
           State(held) == At(c, access, Copy(tokens, cfg, tolerance, swapper, held))
           at == [done \in SUBSET S |-> State(roles \ {call.grant : call \in done})]
<1>1. IsFiniteSet(S)
    BY GrantsFinite
<1>2. ASSUME NEW held, NEW g
      PROVE  Accepts(State(held), Revoke(g)) /\ Effect(State(held), Revoke(g)) = State(held \ {g})
    BY DEF Accepts, Effect, Revoke, At, Copy
<1>3. \A g : Revoke(g).grant = g
    BY DEF Revoke
<1> HIDE DEF State
<1>4. ASSUME NEW done \in SUBSET S, NEW call \in S
      PROVE  Accepts(at[done], call) /\ Effect(at[done], call) = at[done \cup {call}]
  <2>1. PICK g \in R : call = Revoke(g)
    OBVIOUS
  <2>2. (roles \ {x.grant : x \in done}) \ {g} = roles \ {x.grant : x \in done \cup {call}}
    BY <1>3, <2>1
  <2>3. at[done \cup {call}] = State(roles \ {x.grant : x \in done \cup {call}})
    OBVIOUS
  <2>4. QED
    BY <1>2, <2>1, <2>2, <2>3
<1>5. at[{}] = State(roles) /\ at[S] = State(roles \ R)
  <2>1. {call.grant : call \in {}} = {} /\ {call.grant : call \in S} = R
    BY <1>3
  <2>2. roles \ {} = roles
    OBVIOUS
  <2>3. QED
    BY <2>1, <2>2
<1> HIDE DEF S, at
<1>6. Leads(at[{}], SetToSeq(S), at[S])
    BY <1>1, <1>4, LeadsAll
<1>7. QED
    BY <1>5, <1>6 DEF State, S

-----------------------------------------------------------------------------
(* The batch, one part after another.                                      *)

\* Leads, for lists that are to be put together.
Path(c, txs, d) == txs \in Seq(ToSet(txs)) /\ Leads(c, txs, d)

LEMMA PathType ==
    ASSUME NEW S, NEW txs \in Seq(S)
    PROVE  txs \in Seq(ToSet(txs))
<1>1. \A i \in 1..Len(txs) : txs[i] \in ToSet(txs)
    BY DEF ToSet
<1>2. QED
    BY <1>1

LEMMA PathThen ==
    ASSUME NEW c, NEW s, NEW t, NEW d, NEW e, Path(c, s, d), Path(d, t, e)
    PROVE  Path(c, s \o t, e)
<1> DEFINE S == ToSet(s) \cup ToSet(t)
<1>1. s \in Seq(S) /\ t \in Seq(S)
    BY DEF Path
<1> HIDE DEF S
<1>2. Leads(c, s \o t, e)
    BY <1>1, LeadsThen DEF Path
<1>3. s \o t \in Seq(S)
    BY <1>1
<1> DEFINE all == s \o t
<1> HIDE DEF all
<1>4. all \in Seq(ToSet(all))
    BY <1>3, PathType DEF all
<1>5. QED
    BY <1>2, <1>4 DEF Path, all

LEMMA PathWhen ==
    ASSUME NEW c, NEW d, NEW call, NEW condition \in BOOLEAN,
           condition => Accepts(c, call) /\ Effect(c, call) = d,
           ~condition => c = d
    PROVE  Path(c, When(condition, call), d)
<1>1. When(condition, call) \in Seq({call})
    BY WhenType
<1> DEFINE txs == When(condition, call)
<1> HIDE DEF txs
<1>2. txs \in Seq(ToSet(txs))
    BY <1>1, PathType DEF txs
<1>3. Leads(c, txs, d)
    BY LeadsWhen DEF txs
<1>4. QED
    BY <1>2, <1>3 DEF Path, txs

\* From the other end: nothing leads on, the first call leads to where the others start.
LEMMA PathNone ==
    ASSUME NEW c, NEW d, Path(c, <<>>, d)
    PROVE  c = d
<1>1. RunCalls(c, <<>>) = {c} /\ RunCalls(c, <<>>) = {d}
    BY LeadsNone DEF Path, Leads
<1>2. QED
    BY <1>1

LEMMA PathHead ==
    ASSUME NEW c, NEW txs, txs # <<>>, NEW d, Path(c, txs, d)
    PROVE  Accepts(c, Head(txs)) /\ Path(Effect(c, Head(txs)), Tail(txs), d)
<1> DEFINE S == ToSet(txs)
           n == Len(txs)
           rest == Tail(txs)
<1>1. txs \in Seq(S) /\ Leads(c, txs, d)
    BY DEF Path
<1> HIDE DEF S
<1>2. /\ n \in Nat /\ n >= 1 /\ Head(txs) = txs[1]
      /\ rest \in Seq(S) /\ Len(rest) = n - 1
      /\ \A i \in 1..n - 1 : rest[i] = txs[i + 1]
    BY <1>1
<1>3. PICK at : /\ at[0] = c /\ at[n] = d
                /\ \A i \in 1..n : Accepts(at[i - 1], txs[i]) /\ Effect(at[i - 1], txs[i]) = at[i]
    BY <1>1, LeadsTrace
<1> DEFINE later == [i \in 0..n - 1 |-> at[i + 1]]
<1> HIDE DEF rest, n
<1>4. 1 \in 1..n /\ 1 - 1 = 0 /\ 0 + 1 = 1 /\ (n - 1) + 1 = n /\ 0 \in 0..n - 1 /\ n - 1 \in 0..n - 1
    BY <1>2
<1>5. Accepts(c, txs[1]) /\ Effect(c, txs[1]) = at[1]
    BY <1>3, <1>4
<1>6. later[0] = at[1] /\ later[n - 1] = d
    BY <1>3, <1>4
<1>7. \A i \in 1..n - 1 : Accepts(later[i - 1], rest[i]) /\ Effect(later[i - 1], rest[i]) = later[i]
  <2>1. SUFFICES ASSUME NEW i \in 1..n - 1
                 PROVE  Accepts(later[i - 1], rest[i]) /\ Effect(later[i - 1], rest[i]) = later[i]
    OBVIOUS
  <2>2. i + 1 \in 1..n /\ (i + 1) - 1 = i /\ i - 1 \in 0..n - 1 /\ (i - 1) + 1 = i /\ i \in 0..n - 1
    BY <1>2, <2>1
  <2>3. later[i - 1] = at[i] /\ later[i] = at[i + 1] /\ rest[i] = txs[i + 1]
    BY <1>2, <2>2
  <2> HIDE DEF later
  <2>4. Accepts(at[i], txs[i + 1]) /\ Effect(at[i], txs[i + 1]) = at[i + 1]
    BY <1>3, <2>2
  <2>5. QED
    BY <2>3, <2>4
<1> HIDE DEF later
<1>8. Leads(later[0], rest, later[n - 1])
  <2>1. \A i \in 1..Len(rest) : Accepts(later[i - 1], rest[i]) /\ Effect(later[i - 1], rest[i]) = later[i]
    BY <1>2, <1>7
  <2>2. Leads(later[0], rest, later[Len(rest)])
    BY <1>2, <2>1, LeadsAlong
  <2>3. QED
    BY <1>2, <2>2
<1>9. rest \in Seq(ToSet(rest))
    BY <1>2, PathType
<1>10. QED
    BY <1>2, <1>5, <1>6, <1>8, <1>9 DEF Path, rest

\* Element by element.
LEMMA PathForEach ==
    ASSUME NEW T, NEW list \in Seq(T), NEW S, NEW given, \A t \in T : given[t] \in Seq(S),
           NEW at, \A i \in 1..Len(list) : Leads(at[i - 1], given[list[i]], at[i])
    PROVE  Path(at[0], ForEach(list, given), at[Len(list)])
<1>1. ForEach(list, given) \in Seq(S)
    BY ForEachType
<1>2. Leads(at[0], ForEach(list, given), at[Len(list)])
    BY LeadsForEach
<1> DEFINE txs == ForEach(list, given)
<1> HIDE DEF txs
<1>3. txs \in Seq(ToSet(txs))
    BY <1>1, PathType DEF txs
<1>4. QED
    BY <1>2, <1>3 DEF Path, txs

\* Configurations, where those of the first k tokens are changed.
UpTo(list, k, from, to) == [t \in Tokens |-> IF \E j \in 1..k : list[j] = t THEN to[t] ELSE from[t]]

LEMMA UpToOneMore ==
    ASSUME NEW list \in Seq(Tokens), \A i, j \in DOMAIN list : list[i] = list[j] => i = j,
           NEW from, NEW to, NEW i \in 1..Len(list)
    PROVE  /\ UpTo(list, i, from, to) = [UpTo(list, i - 1, from, to) EXCEPT ![list[i]] = to[list[i]]]
           /\ UpTo(list, i - 1, from, to)[list[i]] = from[list[i]]
<1>1. /\ i \in Nat /\ DOMAIN list = 1..Len(list) /\ list[i] \in Tokens
      /\ \A j : j \in 1..i <=> j \in 1..i - 1 \/ j = i
      /\ \A j \in 1..i - 1 : j \in DOMAIN list /\ j # i
    OBVIOUS
<1>2. ~ \E j \in 1..i - 1 : list[j] = list[i]
    BY <1>1
<1>3. ASSUME NEW t \in Tokens
      PROVE  UpTo(list, i, from, to)[t]
                = IF t = list[i] THEN to[list[i]] ELSE UpTo(list, i - 1, from, to)[t]
    BY <1>1 DEF UpTo
<1>4. /\ UpTo(list, i, from, to) = [t \in Tokens |-> UpTo(list, i, from, to)[t]]
      /\ DOMAIN UpTo(list, i - 1, from, to) = Tokens
    BY DEF UpTo
<1>5. UpTo(list, i - 1, from, to)[list[i]] = from[list[i]]
    BY <1>1, <1>2 DEF UpTo
<1> DEFINE one == UpTo(list, i, from, to)
           two == UpTo(list, i - 1, from, to)
<1> HIDE DEF one, two
<1>6. one = [two EXCEPT ![list[i]] = to[list[i]]]
    BY <1>3, <1>4 DEF one, two
<1>7. QED
    BY <1>5, <1>6 DEF one, two

LEMMA UpToEnds ==
    ASSUME NEW list \in Seq(Tokens), NEW from, from = [t \in Tokens |-> from[t]], NEW to
    PROVE  /\ UpTo(list, 0, from, to) = from
           /\ UpTo(list, Len(list), from, to)
                = [t \in Tokens |-> IF t \in ToSet(list) THEN to[t] ELSE from[t]]
<1>1. 1..0 = {} /\ DOMAIN list = 1..Len(list)
    OBVIOUS
<1>2. \A t : t \in ToSet(list) <=> \E j \in 1..Len(list) : list[j] = t
    BY <1>1 DEF ToSet
<1>3. QED
    BY <1>1, <1>2 DEF UpTo


\* The new Treasury is let into the vaults ...
AllowCalls(access) ==
    [t \in Tokens |-> When(t \in Gated /\ (<<t, "new">> \in access) = FALSE, [do |-> "allow", token |-> t])]

LEMMA AllowPath ==
    ASSUME NEW c, NEW list \in Seq(Tokens), NEW access, NEW new
    PROVE  Path(At(c, access, new), ForEach(list, AllowCalls(access)),
                At(c, access \cup {<<t, "new">> : t \in ToSet(list) \cap Gated}, new))
<1> DEFINE S == {[do |-> "allow", token |-> t] : t \in Tokens}
           given == AllowCalls(access)
           n == Len(list)
           In(i) == {<<t, "new">> : t \in {list[j] : j \in 1..i} \cap Gated}
           at == [i \in 0..n |-> At(c, access \cup In(i), new)]
<1>1. n \in Nat /\ (\A i \in 1..n : list[i] \in Tokens) /\ DOMAIN list = 1..n
    OBVIOUS
<1>2. \A t \in Tokens : given[t] \in Seq(S)
    BY WhenType DEF AllowCalls
<1>3. ASSUME NEW i \in 1..n
      PROVE  Leads(at[i - 1], given[list[i]], at[i])
  <2> DEFINE t == list[i]
             call == [do |-> "allow", token |-> t]
             one == At(c, access \cup In(i - 1), new)
             two == At(c, access \cup In(i), new)
  <2>1. i \in 0..n /\ i - 1 \in 0..n /\ t \in Tokens /\ \A j : j \in 1..i <=> j \in 1..i - 1 \/ j = i
    BY <1>1
  <2>2. {list[j] : j \in 1..i} = {list[j] : j \in 1..i - 1} \cup {t}
    BY <2>1
  <2>3. t \in Gated => In(i) = In(i - 1) \cup {<<t, "new">>}
    BY <2>2
  <2>4. t \notin Gated => In(i) = In(i - 1)
    BY <2>2
  <2>5. at[i - 1] = one /\ at[i] = two
    BY <2>1
  <2>6. given[t] = When(t \in Gated /\ (<<t, "new">> \in access) = FALSE, call)
    BY <2>1 DEF AllowCalls
  <2>7. Accepts(one, call) /\ Effect(one, call) = At(c, (access \cup In(i - 1)) \cup {<<t, "new">>}, new)
    BY DEF Accepts, Effect, At
  <2> HIDE DEF In
  <2>8. t \in Gated => access \cup In(i) = (access \cup In(i - 1)) \cup {<<t, "new">>}
    BY <2>3
  <2>9. ~(t \in Gated /\ (<<t, "new">> \in access) = FALSE) => access \cup In(i) = access \cup In(i - 1)
    BY <2>3, <2>4
  <2> HIDE DEF call, given, t
  <2>10. Leads(one, When(t \in Gated /\ (<<t, "new">> \in access) = FALSE, call), two)
    <3> DEFINE condition == t \in Gated /\ (<<t, "new">> \in access) = FALSE
    <3>1. condition \in BOOLEAN
      OBVIOUS
    <3>2. condition => Accepts(one, call) /\ Effect(one, call) = two
      BY <2>7, <2>8
    <3>3. ~condition => one = two
      BY <2>9
    <3> HIDE DEF condition, one, two
    <3>4. Leads(one, When(condition, call), two)
      BY <3>1, <3>2, <3>3, LeadsWhen
    <3>5. QED
      BY <3>4 DEF condition
  <2> HIDE DEF one, two, at
  <2>11. QED
    BY <2>5, <2>6, <2>10 DEF t
<1>4. at[0] = At(c, access, new) /\ at[n] = At(c, access \cup {<<t, "new">> : t \in ToSet(list) \cap Gated}, new)
  <2>1. 0 \in 0..n /\ n \in 0..n /\ 1..0 = {}
    BY <1>1
  <2>2. In(0) = {}
    BY <2>1
  <2>3. {list[j] : j \in 1..n} = ToSet(list)
    BY <1>1 DEF ToSet
  <2>4. In(n) = {<<t, "new">> : t \in ToSet(list) \cap Gated}
    BY <2>3
  <2> HIDE DEF In
  <2>5. access \cup In(0) = access
    BY <2>2
  <2>6. QED
    BY <2>1, <2>4, <2>5
<1> HIDE DEF at, given, S
<1>5. Path(at[0], ForEach(list, given), at[n])
    BY <1>2, <1>3, PathForEach
<1>6. QED
    BY <1>4, <1>5 DEF given

\* ... and the live one no longer, once the token has moved.
ForbidCalls(access) ==
    [t \in Tokens |-> When(t \in Gated /\ (<<t, "old">> \in access) = TRUE, [do |-> "forbid", token |-> t])]

LEMMA ForbidPath ==
    ASSUME NEW c, NEW list \in Seq(Tokens), NEW access, NEW allowed, NEW new
    PROVE  Path(At(c, access \cup {<<t, "new">> : t \in allowed}, new), ForEach(list, ForbidCalls(access)),
                At(c, (access \cup {<<t, "new">> : t \in allowed}) \ {<<t, "old">> : t \in ToSet(list) \cap Gated}, new))
<1> DEFINE S == {[do |-> "forbid", token |-> t] : t \in Tokens}
           given == ForbidCalls(access)
           n == Len(list)
           all == access \cup {<<t, "new">> : t \in allowed}
           Out(i) == {<<t, "old">> : t \in {list[j] : j \in 1..i} \cap Gated}
           at == [i \in 0..n |-> At(c, all \ Out(i), new)]
<1>1. n \in Nat /\ (\A i \in 1..n : list[i] \in Tokens) /\ DOMAIN list = 1..n
    OBVIOUS
<1>2. \A t \in Tokens : given[t] \in Seq(S)
    BY WhenType DEF ForbidCalls
<1>0. \A t : <<t, "old">> \in all <=> <<t, "old">> \in access
    OBVIOUS
<1> HIDE DEF all
<1>3. ASSUME NEW i \in 1..n
      PROVE  Leads(at[i - 1], given[list[i]], at[i])
  <2> DEFINE t == list[i]
             call == [do |-> "forbid", token |-> t]
             one == At(c, all \ Out(i - 1), new)
             two == At(c, all \ Out(i), new)
  <2>1. i \in 0..n /\ i - 1 \in 0..n /\ t \in Tokens /\ \A j : j \in 1..i <=> j \in 1..i - 1 \/ j = i
    BY <1>1
  <2>2. {list[j] : j \in 1..i} = {list[j] : j \in 1..i - 1} \cup {t}
    BY <2>1
  <2>3. t \in Gated => Out(i) = Out(i - 1) \cup {<<t, "old">>}
    BY <2>2
  <2>4. t \notin Gated => Out(i) = Out(i - 1)
    BY <2>2
  <2>5. at[i - 1] = one /\ at[i] = two
    BY <2>1
  <2>6. given[t] = When(t \in Gated /\ (<<t, "old">> \in access) = TRUE, call)
    BY <2>1 DEF ForbidCalls
  <2>7. Accepts(one, call) /\ Effect(one, call) = At(c, (all \ Out(i - 1)) \ {<<t, "old">>}, new)
    BY DEF Accepts, Effect, At
  <2> HIDE DEF Out
  <2>8. t \in Gated => all \ Out(i) = (all \ Out(i - 1)) \ {<<t, "old">>}
    BY <2>3
  <2>9. ~(t \in Gated /\ (<<t, "old">> \in access) = TRUE) => all \ Out(i) = all \ Out(i - 1)
    BY <1>0, <2>3, <2>4
  <2> HIDE DEF call, given, t
  <2>10. Leads(one, When(t \in Gated /\ (<<t, "old">> \in access) = TRUE, call), two)
    <3> DEFINE condition == t \in Gated /\ (<<t, "old">> \in access) = TRUE
    <3>1. condition \in BOOLEAN
      OBVIOUS
    <3>2. condition => Accepts(one, call) /\ Effect(one, call) = two
      BY <2>7, <2>8
    <3>3. ~condition => one = two
      BY <2>9
    <3> HIDE DEF condition, one, two
    <3>4. Leads(one, When(condition, call), two)
      BY <3>1, <3>2, <3>3, LeadsWhen
    <3>5. QED
      BY <3>4 DEF condition
  <2> HIDE DEF one, two, at
  <2>11. QED
    BY <2>5, <2>6, <2>10 DEF t
<1>4. at[0] = At(c, all, new) /\ at[n] = At(c, all \ {<<t, "old">> : t \in ToSet(list) \cap Gated}, new)
  <2>1. 0 \in 0..n /\ n \in 0..n /\ 1..0 = {}
    BY <1>1
  <2>2. Out(0) = {}
    BY <2>1
  <2>3. {list[j] : j \in 1..n} = ToSet(list)
    BY <1>1 DEF ToSet
  <2>4. Out(n) = {<<t, "old">> : t \in ToSet(list) \cap Gated}
    BY <2>3
  <2> HIDE DEF Out
  <2>5. all \ Out(0) = all
    BY <2>2
  <2>6. QED
    BY <2>1, <2>4, <2>5
<1> HIDE DEF at, given, S
<1>5. Path(at[0], ForEach(list, given), at[n])
    BY <1>2, <1>3, PathForEach
<1>6. QED
    BY <1>4, <1>5 DEF given, all

\* The live collateral is listed, in its order.
Prefix(list, k) == [j \in 1..k |-> list[j]]

LEMMA PrefixOneMore ==
    ASSUME NEW list \in Seq(Tokens), \A i, j \in DOMAIN list : list[i] = list[j] => i = j,
           NEW i \in 1..Len(list)
    PROVE  /\ Prefix(list, i) = Append(Prefix(list, i - 1), list[i])
           /\ ~Contains(Prefix(list, i - 1), list[i])
<1>1. /\ i \in Nat /\ i - 1 \in Nat /\ DOMAIN list = 1..Len(list) /\ list[i] \in Tokens /\ i \in DOMAIN list
      /\ \A j \in 1..i : list[j] \in Tokens
      /\ \A j \in 1..i - 1 : j \in 1..i /\ j \in DOMAIN list /\ j # i
    OBVIOUS
<1> DEFINE s == Prefix(list, i - 1)
           x == list[i]
<1>2. s \in Seq(Tokens) /\ Len(s) = i - 1 /\ \A j \in 1..i - 1 : s[j] = list[j]
    BY <1>1 DEF Prefix
<1> HIDE DEF s, x
<1>3. Append(s, x) \in Seq(Tokens) /\ Len(Append(s, x)) = i
      /\ \A j \in 1..i : Append(s, x)[j] = IF j = i THEN x ELSE s[j]
    BY <1>1, <1>2 DEF x
<1>4. Append(s, x) = [j \in 1..i |-> Append(s, x)[j]]
  <2> DEFINE z == Append(s, x)
  <2>1. z \in Seq(Tokens) /\ Len(z) = i
    BY <1>3
  <2> HIDE DEF z
  <2>2. z = [j \in 1..i |-> z[j]]
    BY <2>1
  <2>3. QED
    BY <2>2 DEF z
<1>5. \A j \in 1..i : Append(s, x)[j] = list[j]
  <2>1. \A j \in 1..i : j = i \/ j \in 1..i - 1
    BY <1>1
  <2>2. QED
    BY <1>2, <1>3, <2>1 DEF x
<1>6. Append(s, x) = Prefix(list, i)
    BY <1>4, <1>5 DEF Prefix
<1>7. ~Contains(s, x)
    BY <1>1, <1>2 DEF Contains, x
<1>8. QED
    BY <1>6, <1>7 DEF s, x

LEMMA PrefixEnds ==
    ASSUME NEW list \in Seq(Tokens)
    PROVE  Prefix(list, 0) = <<>> /\ Prefix(list, Len(list)) = list
<1>1. list = [j \in 1..Len(list) |-> list[j]]
    OBVIOUS
<1>2. Prefix(list, 0) = <<>>
    BY DEF Prefix
<1>3. QED
    BY <1>1, <1>2 DEF Prefix

CollateralCalls(cfg) ==
    [t \in Tokens |-> When(TRUE, [do |-> "addToWhitelist", on |-> "new", token |-> t, value |-> cfg[t].config])]
NothingListed == [t \in Tokens |-> Unlisted]
Listed(cfg) == [t \in Tokens |-> Opened(cfg[t].config)]

LEMMA CollateralPath ==
    ASSUME NEW c, NEW list \in Seq(Tokens), \A i, j \in DOMAIN list : list[i] = list[j] => i = j, NEW cfg,
           NEW access, NEW tolerance, NEW swapper, NEW roles
    PROVE  Path(At(c, access, Copy(<<>>, NothingListed, tolerance, swapper, roles)),
                ForEach(list, CollateralCalls(cfg)),
                At(c, access, Copy(list, UpTo(list, Len(list), NothingListed, Listed(cfg)), tolerance, swapper, roles)))
<1> DEFINE call(t) == [do |-> "addToWhitelist", on |-> "new", token |-> t, value |-> cfg[t].config]
           S == {call(t) : t \in Tokens}
           given == CollateralCalls(cfg)
           n == Len(list)
           State(tokens, settings) == At(c, access, Copy(tokens, settings, tolerance, swapper, roles))
           settings(i) == UpTo(list, i, NothingListed, Listed(cfg))
           at == [i \in 0..n |-> State(Prefix(list, i), settings(i))]
<1>1. n \in Nat /\ (\A i \in 1..n : list[i] \in Tokens)
    OBVIOUS
<1>2. \A t \in Tokens : given[t] \in Seq(S)
    BY WhenType DEF CollateralCalls
<1>3. ASSUME NEW tokens, NEW old, DOMAIN old = Tokens, NEW t \in Tokens, ~Contains(tokens, t)
      PROVE  /\ Accepts(State(tokens, old), call(t))
             /\ Effect(State(tokens, old), call(t))
                  = State(Append(tokens, t), [old EXCEPT ![t] = Opened(cfg[t].config)])
  <2>1. Accepts(State(tokens, old), call(t))
    BY <1>3 DEF Accepts, At, Copy, HasToken
  <2>2. Effect(State(tokens, old), call(t))
            = State(Append(tokens, t), [old EXCEPT ![t] = Opened(cfg[t].config)])
    BY <1>3 DEF Effect, At, Copy
  <2>3. QED
    BY <2>1, <2>2
<1> HIDE DEF State
<1>4. ASSUME NEW i \in 1..n
      PROVE  Leads(at[i - 1], given[list[i]], at[i])
  <2> DEFINE t == list[i]
  <2>1. i \in 0..n /\ i - 1 \in 0..n /\ t \in Tokens
    BY <1>1
  <2>2. at[i - 1] = State(Prefix(list, i - 1), settings(i - 1)) /\ at[i] = State(Prefix(list, i), settings(i))
    BY <2>1
  <2>3. given[t] = When(TRUE, call(t))
    BY <2>1 DEF CollateralCalls
  <2>4. Prefix(list, i) = Append(Prefix(list, i - 1), t) /\ ~Contains(Prefix(list, i - 1), t)
    BY PrefixOneMore
  <2>5. settings(i) = [settings(i - 1) EXCEPT ![t] = Listed(cfg)[t]]
    BY UpToOneMore
  <2>6. DOMAIN settings(i - 1) = Tokens
    BY DEF UpTo
  <2>7. Listed(cfg)[t] = Opened(cfg[t].config)
    BY <2>1 DEF Listed
  <2> DEFINE one == at[i - 1] two == at[i] before == settings(i - 1) after == settings(i)
  <2> HIDE DEF call, settings, at, given, t
  <2>8. Accepts(one, call(t)) /\ Effect(one, call(t)) = two
    <3> HIDE DEF before, after
    <3>1. /\ Accepts(State(Prefix(list, i - 1), before), call(t))
          /\ Effect(State(Prefix(list, i - 1), before), call(t))
                = State(Append(Prefix(list, i - 1), t), [before EXCEPT ![t] = Opened(cfg[t].config)])
      BY <1>3, <2>1, <2>4, <2>6 DEF before
    <3>2. after = [before EXCEPT ![t] = Opened(cfg[t].config)]
      BY <2>5, <2>7 DEF before, after
    <3>3. QED
      BY <2>2, <2>4, <3>1, <3>2 DEF before, after
  <2> HIDE DEF one, two
  <2>9. Leads(one, When(TRUE, call(t)), two)
    BY <2>8, LeadsWhen
  <2>10. QED
    BY <2>3, <2>9 DEF one, two, t
<1>5. at[0] = State(<<>>, NothingListed) /\ at[n] = State(list, settings(n))
  <2>1. 0 \in 0..n /\ n \in 0..n
    BY <1>1
  <2>2. settings(0) = NothingListed
    BY UpToEnds DEF NothingListed
  <2>3. Prefix(list, 0) = <<>> /\ Prefix(list, n) = list
    BY PrefixEnds
  <2> HIDE DEF settings
  <2>4. QED
    BY <2>1, <2>2, <2>3
<1> HIDE DEF at, given, S
<1>6. Path(at[0], ForEach(list, given), at[n])
    BY <1>2, <1>4, PathForEach
<1>7. QED
    BY <1>5, <1>6 DEF State, given

\* The tolerance and the swapper are set by a maintainer.
LEMMA TolerancePath ==
    ASSUME NEW c, NEW access, NEW tokens, NEW cfg, NEW tolerance, NEW swapper, NEW roles, NEW value,
           \A t \in Tokens : cfg[t].band = 0,
           tolerance # value => <<"maintainer", Safe>> \in roles
    PROVE  Path(At(c, access, Copy(tokens, cfg, tolerance, swapper, roles)),
                When(tolerance # value, [do |-> "updatePriceTolerance", value |-> value]),
                At(c, access, Copy(tokens, cfg, value, swapper, roles)))
<1> DEFINE call == [do |-> "updatePriceTolerance", value |-> value]
           one == At(c, access, Copy(tokens, cfg, tolerance, swapper, roles))
           two == At(c, access, Copy(tokens, cfg, value, swapper, roles))
<1>1. tolerance # value => Accepts(one, call)
    BY DEF Accepts, At, Copy
<1>2. Effect(one, call) = two
    BY DEF Effect, At, Copy
<1>3. ~(tolerance # value) => one = two
    OBVIOUS
<1> HIDE DEF call, one, two
<1>4. Path(one, When(tolerance # value, call), two)
    BY <1>1, <1>2, <1>3, PathWhen
<1>5. QED
    BY <1>4 DEF call, one, two

LEMMA SwapperPath ==
    ASSUME NEW c, NEW access, NEW tokens, NEW cfg, NEW tolerance, NEW swapper, NEW roles, NEW value,
           swapper # value => <<"maintainer", Safe>> \in roles
    PROVE  Path(At(c, access, Copy(tokens, cfg, tolerance, swapper, roles)),
                When(swapper # value, [do |-> "updateSwapper", value |-> value]),
                At(c, access, Copy(tokens, cfg, tolerance, value, roles)))
<1> DEFINE call == [do |-> "updateSwapper", value |-> value]
           one == At(c, access, Copy(tokens, cfg, tolerance, swapper, roles))
           two == At(c, access, Copy(tokens, cfg, tolerance, value, roles))
<1>1. swapper # value => Accepts(one, call)
    BY DEF Accepts, At, Copy
<1>2. Effect(one, call) = two
    BY DEF Effect, At, Copy
<1>3. ~(swapper # value) => one = two
    OBVIOUS
<1> HIDE DEF call, one, two
<1>4. Path(one, When(swapper # value, call), two)
    BY <1>1, <1>2, <1>3, PathWhen
<1>5. QED
    BY <1>4 DEF call, one, two

\* A configuration for every token.
ForTokens(cfg) == cfg = [t \in Tokens |-> cfg[t]]

\* What is set for each token, one token after another.
LEMMA ConfigurationPath ==
    ASSUME NEW c, NEW access, NEW tokens, NEW tolerance, NEW swapper, NEW roles,
           NEW list \in Seq(Tokens), \A i, j \in DOMAIN list : list[i] = list[j] => i = j,
           NEW from, from = [t \in Tokens |-> from[t]], NEW to,
           NEW S, NEW given, \A t \in Tokens : given[t] \in Seq(S),
           \A cfg : \A t \in ToSet(list) :
              ForTokens(cfg) /\ cfg[t] = from[t] =>
                 Leads(At(c, access, Copy(tokens, cfg, tolerance, swapper, roles)), given[t],
                       At(c, access, Copy(tokens, [cfg EXCEPT ![t] = to[t]], tolerance, swapper, roles)))
    PROVE  Path(At(c, access, Copy(tokens, from, tolerance, swapper, roles)), ForEach(list, given),
                At(c, access, Copy(tokens, UpTo(list, Len(list), from, to), tolerance, swapper, roles)))
<1> DEFINE n == Len(list)
           State(cfg) == At(c, access, Copy(tokens, cfg, tolerance, swapper, roles))
           cfg(i) == UpTo(list, i, from, to)
           at == [i \in 0..n |-> State(cfg(i))]
<1>1. n \in Nat /\ (\A i \in 1..n : list[i] \in Tokens) /\ DOMAIN list = 1..n
    OBVIOUS
<1>2. \A x : \A t \in ToSet(list) :
          ForTokens(x) /\ x[t] = from[t] => Leads(State(x), given[t], State([x EXCEPT ![t] = to[t]]))
    OBVIOUS
<1> HIDE DEF State
<1>3. ASSUME NEW i \in 1..n
      PROVE  Leads(at[i - 1], given[list[i]], at[i])
  <2> DEFINE t == list[i] before == cfg(i - 1) after == cfg(i)
  <2>1. i \in 0..n /\ i - 1 \in 0..n /\ t \in ToSet(list)
    BY <1>1 DEF ToSet
  <2>2. at[i - 1] = State(before) /\ at[i] = State(after)
    BY <2>1
  <2>3. after = [before EXCEPT ![t] = to[t]] /\ before[t] = from[t]
    BY UpToOneMore
  <2>4. ForTokens(before)
    BY DEF UpTo, ForTokens
  <2> HIDE DEF before, after, at, t
  <2>5. Leads(State(before), given[t], State([before EXCEPT ![t] = to[t]]))
    BY <1>2, <2>1, <2>3, <2>4
  <2>6. QED
    BY <2>2, <2>3, <2>5 DEF t
<1>4. at[0] = State(from) /\ at[n] = State(cfg(n))
  <2>1. 0 \in 0..n /\ n \in 0..n
    BY <1>1
  <2>2. cfg(0) = from
    BY UpToEnds
  <2> HIDE DEF cfg
  <2>3. QED
    BY <2>1, <2>2
<1> HIDE DEF at
<1>5. Path(at[0], ForEach(list, given), at[n])
    BY <1>3, PathForEach
<1>6. QED
    BY <1>4, <1>5 DEF State

\* The peg bands: an admin widens them, within the tolerance ...
BandCalls(cfg) ==
    [t \in Tokens |-> When(0 # cfg[t].band, [do |-> "updatePegBand", token |-> t, value |-> cfg[t].band])]
Banded(cfg) == [t \in Tokens |-> [Opened(cfg[t].config) EXCEPT !.band = cfg[t].band]]

LEMMA BandsPath ==
    ASSUME NEW c, NEW access, NEW tolerance \in Nat, NEW swapper, NEW roles,
           NEW list \in Seq(Tokens), \A i, j \in DOMAIN list : list[i] = list[j] => i = j,
           NEW cfg, \A t \in Tokens : cfg[t].band \in Nat,
           \A t \in ToSet(list) : cfg[t].band # 0 => cfg[t].band < tolerance,
           NEW from, from = [t \in Tokens |-> from[t]], \A t \in ToSet(list) : from[t] = Opened(cfg[t].config)
    PROVE  Path(At(c, access, Copy(list, from, tolerance, swapper, roles)), ForEach(list, BandCalls(cfg)),
                At(c, access, Copy(list, UpTo(list, Len(list), from, Banded(cfg)), tolerance, swapper, roles)))
<1> DEFINE call(t) == [do |-> "updatePegBand", token |-> t, value |-> cfg[t].band]
           S == {call(t) : t \in Tokens}
           State(x) == At(c, access, Copy(list, x, tolerance, swapper, roles))
<1>1. \A t \in Tokens : BandCalls(cfg)[t] \in Seq(S)
    BY WhenType DEF BandCalls
<1>2. ASSUME NEW x, NEW t \in ToSet(list), ForTokens(x), x[t] = from[t]
      PROVE  Leads(State(x), BandCalls(cfg)[t], State([x EXCEPT ![t] = Banded(cfg)[t]]))
  <2> DEFINE one == State(x) two == State([x EXCEPT ![t] = Banded(cfg)[t]])
  <2>1. t \in Tokens /\ (\E i \in 1..Len(list) : list[i] = t) /\ x[t] = Opened(cfg[t].config) /\ cfg[t].band \in Nat
    <3>1. DOMAIN list = 1..Len(list) /\ \A i \in 1..Len(list) : list[i] \in Tokens
      OBVIOUS
    <3>2. PICK i \in 1..Len(list) : list[i] = t
      BY <1>2, <3>1 DEF ToSet
    <3>3. t \in Tokens
      BY <3>1, <3>2
    <3>4. QED
      BY <1>2, <3>2, <3>3
  <2>2. 0 # cfg[t].band => Accepts(one, call(t))
    <3>1. HasToken(one.new, t) /\ one.new.cfg[t].band = 0 /\ one.new.admin = Safe /\ one.new.tolerance = tolerance
      BY <2>1 DEF HasToken, Contains, At, Copy, Opened
    <3> HIDE DEF one
    <3>2. QED
      BY <1>2, <2>1, <3>1 DEF Accepts
  <2>3. Effect(one, call(t)) = State([x EXCEPT ![t].band = cfg[t].band])
    BY DEF Effect, At, Copy
  <2>4. [x EXCEPT ![t].band = cfg[t].band] = [x EXCEPT ![t] = Banded(cfg)[t]]
    BY <1>2, <2>1 DEF Banded, Opened, ForTokens
  <2>5. 0 = cfg[t].band => x = [x EXCEPT ![t] = Banded(cfg)[t]]
    <3>1. 0 = cfg[t].band => x[t] = Banded(cfg)[t]
      BY <2>1 DEF Banded, Opened
    <3>2. x = [x EXCEPT ![t] = x[t]]
      BY <1>2, <2>1 DEF ForTokens
    <3>3. QED
      BY <3>1, <3>2
  <2>6. BandCalls(cfg)[t] = When(0 # cfg[t].band, call(t))
    BY <2>1 DEF BandCalls
  <2> HIDE DEF State, call
  <2>7. Effect(one, call(t)) = two /\ (~(0 # cfg[t].band) => one = two)
    BY <2>3, <2>4, <2>5
  <2> HIDE DEF one, two
  <2>8. Leads(one, When(0 # cfg[t].band, call(t)), two)
    BY <2>2, <2>7, LeadsWhen
  <2>9. QED
    BY <2>6, <2>8 DEF one, two
<1> HIDE DEF S
<1>3. QED
    BY <1>1, <1>2, ConfigurationPath

\* A configuration, where one flag is set.
Configured(config, deposit, withdraw, band) ==
    [config |-> config, deposit |-> deposit, withdraw |-> withdraw, band |-> band]

LEMMA DepositSet ==
    ASSUME NEW config, NEW deposit, NEW withdraw, NEW band, NEW value
    PROVE  [Configured(config, deposit, withdraw, band) EXCEPT !.deposit = value]
                = Configured(config, value, withdraw, band)
    BY DEF Configured

LEMMA WithdrawSet ==
    ASSUME NEW config, NEW deposit, NEW withdraw, NEW band, NEW value
    PROVE  [Configured(config, deposit, withdraw, band) EXCEPT !.withdraw = value]
                = Configured(config, deposit, value, band)
    BY DEF Configured

\* ... and a keeper closes what is closed.
DepositCall(cfg, t) == When(TRUE # cfg[t].deposit, [do |-> "setDepositActive", token |-> t, value |-> cfg[t].deposit])
WithdrawCall(cfg, t) ==
    When(TRUE # cfg[t].withdraw, [do |-> "setWithdrawActive", token |-> t, value |-> cfg[t].withdraw])
FlagCalls(cfg) == [t \in Tokens |-> DepositCall(cfg, t) \o WithdrawCall(cfg, t)]

LEMMA FlagsPath ==
    ASSUME NEW c, NEW access, NEW tolerance, NEW swapper, NEW roles,
           NEW list \in Seq(Tokens), \A i, j \in DOMAIN list : list[i] = list[j] => i = j,
           NEW cfg, \A t \in Tokens : cfg[t] = [config |-> cfg[t].config, deposit |-> cfg[t].deposit,
                                               withdraw |-> cfg[t].withdraw, band |-> cfg[t].band],
           \A t \in ToSet(list) : FlagCalls(cfg)[t] # <<>> => <<"keeper", Safe>> \in roles,
           NEW from, from = [t \in Tokens |-> from[t]], \A t \in ToSet(list) : from[t] = Banded(cfg)[t]
    PROVE  Path(At(c, access, Copy(list, from, tolerance, swapper, roles)), ForEach(list, FlagCalls(cfg)),
                At(c, access, Copy(list, UpTo(list, Len(list), from, cfg), tolerance, swapper, roles)))
<1> DEFINE deposit(t) == [do |-> "setDepositActive", token |-> t, value |-> cfg[t].deposit]
           withdraw(t) == [do |-> "setWithdrawActive", token |-> t, value |-> cfg[t].withdraw]
           S == {deposit(t) : t \in Tokens} \cup {withdraw(t) : t \in Tokens}
           State(x) == At(c, access, Copy(list, x, tolerance, swapper, roles))
<1>1. \A t \in Tokens : DepositCall(cfg, t) \in Seq(S) /\ WithdrawCall(cfg, t) \in Seq(S)
    BY WhenType DEF DepositCall, WithdrawCall
<1>2. \A t \in Tokens : FlagCalls(cfg)[t] \in Seq(S)
  <2> HIDE DEF S
  <2>1. SUFFICES ASSUME NEW t \in Tokens PROVE FlagCalls(cfg)[t] \in Seq(S)
    OBVIOUS
  <2> DEFINE one == DepositCall(cfg, t) two == WithdrawCall(cfg, t)
  <2>2. one \in Seq(S) /\ two \in Seq(S)
    BY <1>1
  <2>3. FlagCalls(cfg)[t] = one \o two
    BY DEF FlagCalls
  <2> HIDE DEF one, two
  <2>4. QED
    BY <2>2, <2>3
<1>3. ASSUME NEW x, NEW t \in ToSet(list), ForTokens(x), x[t] = from[t]
      PROVE  Leads(State(x), FlagCalls(cfg)[t], State([x EXCEPT ![t] = cfg[t]]))
  <2> DEFINE half == [x EXCEPT ![t] = [Banded(cfg)[t] EXCEPT !.deposit = cfg[t].deposit]]
             one == State(x)
             two == State(half)
             three == State([x EXCEPT ![t] = cfg[t]])
  <2>1. t \in Tokens /\ \E i \in 1..Len(list) : list[i] = t
    <3>1. DOMAIN list = 1..Len(list) /\ \A i \in 1..Len(list) : list[i] \in Tokens
      OBVIOUS
    <3>2. PICK i \in 1..Len(list) : list[i] = t
      BY <1>3, <3>1 DEF ToSet
    <3>3. t \in Tokens
      BY <3>1, <3>2
    <3>4. QED
      BY <3>2, <3>3
  <2> DEFINE k == cfg[t].config d == cfg[t].deposit w == cfg[t].withdraw b == cfg[t].band
             yes == TRUE
  <2>2. Banded(cfg)[t] = Configured(k, yes, yes, b)
    BY <2>1 DEF Banded, Opened, Configured
  <2>3. x[t] = Banded(cfg)[t] /\ cfg[t] = Configured(k, d, w, b)
    BY <1>3, <2>1 DEF Configured
  <2>0. /\ [Banded(cfg)[t] EXCEPT !.deposit = d] = Configured(k, d, yes, b)
        /\ [[Banded(cfg)[t] EXCEPT !.deposit = d] EXCEPT !.withdraw = w] = Configured(k, d, w, b)
    <3> DEFINE first == Banded(cfg)[t] second == [first EXCEPT !.deposit = d]
    <3> HIDE DEF k, d, w, b, yes
    <3>1. [Configured(k, yes, yes, b) EXCEPT !.deposit = d] = Configured(k, d, yes, b)
      BY DepositSet
    <3>2. [Configured(k, d, yes, b) EXCEPT !.withdraw = w] = Configured(k, d, w, b)
      BY WithdrawSet
    <3>3. second = Configured(k, d, yes, b)
      BY <2>2, <3>1
    <3>4. [second EXCEPT !.withdraw = w] = Configured(k, d, w, b)
      <4> HIDE DEF second
      <4>1. QED
        BY <3>2, <3>3
    <3>5. QED
      BY <3>3, <3>4
  <2>4. half = [x EXCEPT ![t].deposit = cfg[t].deposit]
    BY <1>3, <2>1, <2>3 DEF ForTokens
  <2>5. [half EXCEPT ![t].withdraw = cfg[t].withdraw] = [x EXCEPT ![t] = cfg[t]]
    <3>1. [[Banded(cfg)[t] EXCEPT !.deposit = cfg[t].deposit] EXCEPT !.withdraw = cfg[t].withdraw] = cfg[t]
      BY <2>0, <2>3
    <3> DEFINE c1 == [Banded(cfg)[t] EXCEPT !.deposit = cfg[t].deposit]
    <3> HIDE DEF c1
    <3>2. [[x EXCEPT ![t] = c1] EXCEPT ![t].withdraw = cfg[t].withdraw]
            = [x EXCEPT ![t] = [c1 EXCEPT !.withdraw = cfg[t].withdraw]]
      BY <1>3, <2>1 DEF ForTokens
    <3>3. QED
      BY <3>1, <3>2 DEF c1
  <2>6. ASSUME NEW y, <<"keeper", Safe>> \in roles
        PROVE  /\ Accepts(State(y), deposit(t)) /\ Accepts(State(y), withdraw(t))
    <3>1. HasToken(State(y).new, t) /\ State(y).new.roles = roles
      BY <2>1 DEF HasToken, Contains, At, Copy
    <3> HIDE DEF State
    <3>2. QED
      BY <2>6, <3>1 DEF Accepts
  <2>7. ASSUME NEW y
        PROVE  /\ Effect(State(y), deposit(t)) = State([y EXCEPT ![t].deposit = cfg[t].deposit])
               /\ Effect(State(y), withdraw(t)) = State([y EXCEPT ![t].withdraw = cfg[t].withdraw])
    BY DEF Effect, At, Copy
  <2>8. FlagCalls(cfg)[t] = When(TRUE # cfg[t].deposit, deposit(t)) \o When(TRUE # cfg[t].withdraw, withdraw(t))
    BY <2>1 DEF FlagCalls, DepositCall, WithdrawCall
  <2>9. (TRUE # cfg[t].deposit) \/ (TRUE # cfg[t].withdraw) => <<"keeper", Safe>> \in roles
    <3> DEFINE first == deposit(t) second == withdraw(t)
    <3> HIDE DEF first, second
    <3>1. (<<first>> \o <<second>> # <<>>) /\ (<<first>> \o <<>> # <<>>) /\ (<<>> \o <<second>> # <<>>)
      OBVIOUS
    <3>2. CASE TRUE # cfg[t].deposit
      <4>1. When(TRUE # cfg[t].deposit, first) = <<first>>
        BY <3>2 DEF When
      <4>2. When(TRUE # cfg[t].withdraw, second) \in {<<second>>, <<>>}
        BY DEF When
      <4>3. QED
        BY <1>3, <2>8, <3>1, <4>1, <4>2 DEF first, second
    <3>3. CASE ~(TRUE # cfg[t].deposit) /\ TRUE # cfg[t].withdraw
      <4>1. When(TRUE # cfg[t].deposit, first) = <<>> /\ When(TRUE # cfg[t].withdraw, second) = <<second>>
        BY <3>3 DEF When
      <4>2. QED
        BY <1>3, <2>8, <3>1, <4>1 DEF first, second
    <3>4. QED
      BY <3>2, <3>3
  <2>10. ~(TRUE # cfg[t].deposit) => one = two
    <3>1. ~(TRUE # cfg[t].deposit) => [Banded(cfg)[t] EXCEPT !.deposit = cfg[t].deposit] = x[t]
      <4>1. ~(TRUE # cfg[t].deposit) => d = yes
        OBVIOUS
      <4> HIDE DEF k, w, b, yes
      <4>2. QED
        BY <2>0, <2>2, <2>3, <4>1
    <3>2. x = [x EXCEPT ![t] = x[t]]
      BY <1>3, <2>1 DEF ForTokens
    <3>3. ~(TRUE # cfg[t].deposit) => half = x
      BY <3>1, <3>2
    <3> HIDE DEF half
    <3>4. QED
      BY <3>3
  <2>11. ~(TRUE # cfg[t].withdraw) => two = three
    <3>1. ~(TRUE # cfg[t].withdraw) => [Banded(cfg)[t] EXCEPT !.deposit = cfg[t].deposit] = cfg[t]
      <4>1. ~(TRUE # cfg[t].withdraw) => w = yes
        OBVIOUS
      <4> HIDE DEF k, b, yes
      <4>2. QED
        BY <2>0, <2>3, <4>1
    <3>2. ~(TRUE # cfg[t].withdraw) => half = [x EXCEPT ![t] = cfg[t]]
      BY <3>1
    <3> HIDE DEF half
    <3>3. QED
      BY <3>2
  <2> HIDE DEF half, State, deposit, withdraw
  <2>12. Leads(one, When(TRUE # cfg[t].deposit, deposit(t)), two)
    <3>1. TRUE # cfg[t].deposit => Accepts(one, deposit(t)) /\ Effect(one, deposit(t)) = two
      BY <2>4, <2>6, <2>7, <2>9
    <3> HIDE DEF one, two
    <3>2. QED
      BY <2>10, <3>1, LeadsWhen
  <2>13. Leads(two, When(TRUE # cfg[t].withdraw, withdraw(t)), three)
    <3>1. TRUE # cfg[t].withdraw => Accepts(two, withdraw(t)) /\ Effect(two, withdraw(t)) = three
      BY <2>5, <2>6, <2>7, <2>9
    <3> HIDE DEF two, three
    <3>2. QED
      BY <2>11, <3>1, LeadsWhen
  <2> DEFINE first == When(TRUE # cfg[t].deposit, deposit(t))
             second == When(TRUE # cfg[t].withdraw, withdraw(t))
  <2>14. first \in Seq(S) /\ second \in Seq(S)
    BY <1>1, <2>1 DEF DepositCall, WithdrawCall, deposit, withdraw
  <2> HIDE DEF one, two, three, first, second, S
  <2>15. Leads(one, first \o second, three)
    BY <2>12, <2>13, <2>14, LeadsThen DEF first, second
  <2>16. QED
    BY <2>8, <2>15 DEF one, three, first, second
<1> HIDE DEF S
<1>4. QED
    BY <1>2, <1>3, ConfigurationPath

LEMMA GrantsPath ==
    ASSUME NEW c, NEW access, NEW tokens, NEW cfg, NEW tolerance, NEW swapper, NEW roles, NEW R, IsFiniteSet(R)
    PROVE  Path(At(c, access, Copy(tokens, cfg, tolerance, swapper, roles)), SetToSeq({Grant(g) : g \in R}),
                At(c, access, Copy(tokens, cfg, tolerance, swapper, roles \cup R)))
<1> DEFINE txs == SetToSeq({Grant(g) : g \in R})
<1>1. txs \in Seq({Grant(g) : g \in R})
    BY GrantsFinite, SetToSeqType
<1> HIDE DEF txs
<1>2. txs \in Seq(ToSet(txs))
    BY <1>1, PathType
<1>3. QED
    BY <1>2, GrantsLead DEF Path, txs

LEMMA RevokesPath ==
    ASSUME NEW c, NEW access, NEW tokens, NEW cfg, NEW tolerance, NEW swapper, NEW roles, NEW R, IsFiniteSet(R)
    PROVE  Path(At(c, access, Copy(tokens, cfg, tolerance, swapper, roles)), SetToSeq({Revoke(g) : g \in R}),
                At(c, access, Copy(tokens, cfg, tolerance, swapper, roles \ R)))
<1> DEFINE txs == SetToSeq({Revoke(g) : g \in R})
<1>1. txs \in Seq({Revoke(g) : g \in R})
    BY GrantsFinite, SetToSeqType
<1> HIDE DEF txs
<1>2. txs \in Seq(ToSet(txs))
    BY <1>1, PathType
<1>3. QED
    BY <1>2, RevokesLead DEF Path, txs

\* The token moves to the new Treasury, and all the collateral with it.
Moved(c) ==
    [old |-> c.old, new |-> c.new, token |-> "new", access |-> c.access, gateway |-> c.gateway,
     held |-> [old |-> 0, new |-> c.held.new + c.held.old]]
MoveCalls == <<[do |-> "updateTreasury", on |-> "new"], [do |-> "migrate"]>>

\* After the first of the two.
TokenMoved(c, access, new) ==
    [old |-> c.old, new |-> new, token |-> "new", access |-> access, gateway |-> c.gateway, held |-> c.held]
TokenCall == [do |-> "updateTreasury", on |-> "new"]
MigrateCall == [do |-> "migrate"]

LEMMA PathOne ==
    ASSUME NEW c, NEW call, Accepts(c, call)
    PROVE  Path(c, <<call>>, Effect(c, call))
<1> DEFINE p == <<call>>
<1>1. p \in Seq({call})
    OBVIOUS
<1>2. Leads(c, p, Effect(c, call))
    BY LeadsOne
<1> HIDE DEF p
<1>3. p \in Seq(ToSet(p))
    BY <1>1, PathType
<1>4. QED
    BY <1>2, <1>3 DEF Path, p

LEMMA MoveSteps ==
    ASSUME NEW c, c.old.admin = Safe, NEW access, NEW new
    PROVE  /\ Path(At(c, access, new), <<TokenCall>>, TokenMoved(c, access, new))
           /\ Accepts(TokenMoved(c, access, new), MigrateCall)
           /\ Effect(TokenMoved(c, access, new), MigrateCall) = At(Moved(c), access, new)
<1> DEFINE s0 == At(c, access, new)
           s1 == TokenMoved(c, access, new)
<1>1. Accepts(s0, TokenCall) /\ Effect(s0, TokenCall) = s1
    BY DEF Accepts, Effect, At, TokenCall, TokenMoved
<1>2. Accepts(s1, MigrateCall)
    BY DEF Accepts, MigrateCall, TokenMoved
<1>3. Effect(s1, MigrateCall) = At(Moved(c), access, new)
    BY DEF Effect, At, Moved, MigrateCall, TokenMoved
<1> HIDE DEF s0, s1
<1>4. Path(s0, <<TokenCall>>, s1)
    BY <1>1, PathOne
<1>5. QED
    BY <1>2, <1>3, <1>4 DEF s0, s1

LEMMA MovePath ==
    ASSUME NEW c, c.old.admin = Safe, NEW access, NEW new
    PROVE  Path(At(c, access, new), MoveCalls, At(Moved(c), access, new))
<1> DEFINE s0 == At(c, access, new)
           s1 == TokenMoved(c, access, new)
           s2 == At(Moved(c), access, new)
           p == <<TokenCall>>
           q == <<MigrateCall>>
<1>1. Path(s0, p, s1) /\ Accepts(s1, MigrateCall) /\ Effect(s1, MigrateCall) = s2
    BY MoveSteps
<1>2. MoveCalls = p \o q
    BY DEF MoveCalls, TokenCall, MigrateCall
<1> HIDE DEF s0, s1, s2
<1>3. Path(s1, q, s2)
    BY <1>1, PathOne
<1> HIDE DEF p, q
<1>4. Path(s0, p \o q, s2)
    BY <1>1, <1>3, PathThen
<1>5. QED
    BY <1>2, <1>4 DEF s0, s2

-----------------------------------------------------------------------------
(* The whole of it.                                                        *)

\* The new Treasury while nothing but roles was set on it.
Untouched(roles) == Copy(<<>>, NothingListed, INIT_TOLERANCE, "none", roles)

\* What is listed has cfg's configuration.
Listing(old, cfg) == [t \in Tokens |-> IF t \in ToSet(old.tokens) THEN cfg[t] ELSE Unlisted]

LEMMA UntouchedFacts ==
    ASSUME NEW roles
    PROVE  /\ Untouched(roles).tokens = <<>> /\ Untouched(roles).tolerance = INIT_TOLERANCE
           /\ Untouched(roles).swapper = "none" /\ Untouched(roles).roles = roles
           /\ \A t \in Tokens : Untouched(roles).cfg[t].band = 0 /\ ~HasToken(Untouched(roles), t)
<1>1. /\ Untouched(roles).tokens = <<>> /\ Untouched(roles).tolerance = INIT_TOLERANCE
      /\ Untouched(roles).swapper = "none" /\ Untouched(roles).roles = roles
    BY DEF Untouched, Copy
<1>2. \A t \in Tokens : Untouched(roles).cfg[t].band = 0
    BY DEF Untouched, Copy, NothingListed, Unlisted
<1>3. \A t \in Tokens : ~HasToken(Untouched(roles), t)
  <2>1. Len(<<>>) = 0 /\ 1..0 = {}
    OBVIOUS
  <2> DEFINE none == <<>>
  <2>2. Len(none) = 0
    BY <2>1
  <2> HIDE DEF none
  <2>3. \A t : ~Contains(none, t)
    BY <2>1, <2>2 DEF Contains
  <2>4. QED
    BY <1>1, <2>3 DEF HasToken, none
<1>4. QED
    BY <1>1, <1>2, <1>3

\* The calls, as each path has them.
LEMMA SettingsCalls ==
    ASSUME NEW old, NEW roles
    PROVE  Settings(old, Untouched(roles))
             = When(INIT_TOLERANCE # old.tolerance, [do |-> "updatePriceTolerance", value |-> old.tolerance])
               \o When("none" # old.swapper, [do |-> "updateSwapper", value |-> old.swapper])
               \o ForEach(old.tokens, BandCalls(old.cfg))
               \o ForEach(old.tokens, FlagCalls(old.cfg))
<1> DEFINE new == Untouched(roles)
<1>1. /\ new.tolerance = INIT_TOLERANCE /\ new.swapper = "none"
      /\ \A t \in Tokens : new.cfg[t].band = 0 /\ ~HasToken(new, t)
    BY UntouchedFacts
<1> HIDE DEF new
<1>2. [t \in Tokens |-> When(new.cfg[t].band # old.cfg[t].band,
                            [do |-> "updatePegBand", token |-> t, value |-> old.cfg[t].band])] = BandCalls(old.cfg)
    BY <1>1 DEF BandCalls
<1>3. ASSUME NEW t \in Tokens
      PROVE  TokenFlags(old, new, t) = DepositCall(old.cfg, t) \o WithdrawCall(old.cfg, t)
  <2>1. Flags(new, t) = Opened("none")
    BY <1>1 DEF Flags
  <2>2. Opened("none").deposit = TRUE /\ Opened("none").withdraw = TRUE
    BY DEF Opened
  <2>3. (Flags(new, t).deposit # old.cfg[t].deposit) = (TRUE # old.cfg[t].deposit)
        /\ (Flags(new, t).withdraw # old.cfg[t].withdraw) = (TRUE # old.cfg[t].withdraw)
    BY <2>1, <2>2
  <2>4. QED
    BY <2>3 DEF TokenFlags, DepositCall, WithdrawCall
<1>4. [t \in Tokens |-> TokenFlags(old, new, t)] = FlagCalls(old.cfg)
    BY <1>3 DEF FlagCalls
<1>5. QED
    BY <1>1, <1>2, <1>4 DEF Settings, new

\* What the batch grants for itself is what its settings need.
LEMMA SettingsPath ==
    ASSUME NEW c, NEW access, NEW held, NEW old, IsTreasury(old), WellFormed(old), NEW roles,
           ~MirrorRefused(old, Untouched(roles)),
           \A role \in Needs(old, Untouched(roles)) : <<role, Safe>> \in held
    PROVE  Path(At(c, access, Copy(old.tokens, Listing(old, Listed(old.cfg)), INIT_TOLERANCE, "none", held)),
                Settings(old, Untouched(roles)),
                At(c, access, Copy(old.tokens, Listing(old, old.cfg), old.tolerance, old.swapper, held)))
<1> DEFINE new == Untouched(roles)
           list == old.tokens
           cfg == old.cfg
           one == Listing(old, Listed(cfg))
           two == Listing(old, Banded(cfg))
           three == Listing(old, cfg)
           S(x, tolerance, swapper) == At(c, access, Copy(list, x, tolerance, swapper, held))
<1>0. /\ new.tolerance = INIT_TOLERANCE /\ new.swapper = "none"
      /\ \A t \in Tokens : new.cfg[t].band = 0 /\ ~HasToken(new, t)
    BY UntouchedFacts
<1> HIDE DEF new
<1>1. /\ list \in Seq(Tokens) /\ \A i, j \in DOMAIN list : list[i] = list[j] => i = j
      /\ \A t \in Tokens : cfg[t].band \in Nat /\ cfg[t] = [config |-> cfg[t].config, deposit |-> cfg[t].deposit,
                                                            withdraw |-> cfg[t].withdraw, band |-> cfg[t].band]
      /\ old.tolerance \in Nat
  <2>1. \A t \in Tokens : cfg[t] = [config |-> cfg[t].config, deposit |-> cfg[t].deposit,
                                    withdraw |-> cfg[t].withdraw, band |-> cfg[t].band]
    <3> DEFINE whole(t) == [config |-> cfg[t].config, deposit |-> cfg[t].deposit,
                            withdraw |-> cfg[t].withdraw, band |-> cfg[t].band]
    <3>1. cfg = [t \in Tokens |-> whole(t)]
      BY DEF WellFormed
    <3> HIDE DEF whole, cfg
    <3>2. \A t \in Tokens : cfg[t] = whole(t)
      BY <3>1
    <3>3. QED
      BY <3>2 DEF whole, cfg
  <2>2. QED
    BY <2>1 DEF IsTreasury, WellFormed
<1>2. \A t \in ToSet(list) : t \in Tokens
    BY <1>1 DEF ToSet
<1>3. INIT_TOLERANCE # old.tolerance => <<"maintainer", Safe>> \in held
  <2>1. INIT_TOLERANCE # old.tolerance => "maintainer" \in Needs(old, new)
    BY <1>0 DEF Needs
  <2>2. QED
    BY <2>1 DEF new
<1>4. "none" # old.swapper => <<"maintainer", Safe>> \in held
  <2>1. "none" # old.swapper => "maintainer" \in Needs(old, new)
    BY <1>0 DEF Needs
  <2>2. QED
    BY <2>1 DEF new
<1>5. \A t \in ToSet(list) : FlagCalls(cfg)[t] # <<>> => <<"keeper", Safe>> \in held
  <2>1. SUFFICES ASSUME NEW t \in ToSet(list), FlagCalls(cfg)[t] # <<>> PROVE <<"keeper", Safe>> \in held
    OBVIOUS
  <2>2. TokenFlags(old, new, t) = FlagCalls(cfg)[t]
    <3>1. Flags(new, t) = Opened("none")
      BY <1>0, <1>2 DEF Flags
    <3>2. Opened("none").deposit = TRUE /\ Opened("none").withdraw = TRUE
      BY DEF Opened
    <3>3. (Flags(new, t).deposit # old.cfg[t].deposit) = (TRUE # old.cfg[t].deposit)
          /\ (Flags(new, t).withdraw # old.cfg[t].withdraw) = (TRUE # old.cfg[t].withdraw)
      BY <3>1, <3>2
    <3>4. FlagCalls(cfg)[t] = DepositCall(cfg, t) \o WithdrawCall(cfg, t)
      BY <1>2 DEF FlagCalls
    <3>5. QED
      BY <3>3, <3>4 DEF TokenFlags, DepositCall, WithdrawCall
  <2>3. "keeper" \in Needs(old, new)
    BY <2>1, <2>2 DEF Needs
  <2>4. QED
    BY <2>3 DEF new
<1>6. \A t \in ToSet(list) : cfg[t].band # 0 => cfg[t].band < old.tolerance
  <2>1. SUFFICES ASSUME NEW t \in ToSet(list), cfg[t].band # 0 PROVE cfg[t].band < old.tolerance
    OBVIOUS
  <2>2. new.cfg[t].band # cfg[t].band /\ cfg[t].band \in Nat
    BY <1>0, <1>1, <1>2, <2>1
  <2>3. ~(cfg[t].band > 0 /\ cfg[t].band >= old.tolerance)
    BY <2>1, <2>2 DEF MirrorRefused, new
  <2>4. QED
    BY <1>1, <2>1, <2>2, <2>3
<1>7. \A t \in Tokens : one[t].band = 0
    BY DEF Listing, Listed, Opened, Unlisted
<1>8. UpTo(list, Len(list), one, Banded(cfg)) = two /\ UpTo(list, Len(list), two, cfg) = three
  <2>1. one = [t \in Tokens |-> one[t]] /\ two = [t \in Tokens |-> two[t]]
    BY DEF Listing
  <2>2. UpTo(list, Len(list), one, Banded(cfg)) = [t \in Tokens |-> IF t \in ToSet(list) THEN Banded(cfg)[t] ELSE one[t]]
    BY <1>1, <2>1, UpToEnds
  <2>3. UpTo(list, Len(list), two, cfg) = [t \in Tokens |-> IF t \in ToSet(list) THEN cfg[t] ELSE two[t]]
    BY <1>1, <2>1, UpToEnds
  <2>4. \A t \in Tokens : t \notin ToSet(list) => one[t] = Unlisted /\ two[t] = Unlisted
    BY DEF Listing
  <2>5. QED
    BY <2>2, <2>3, <2>4 DEF Listing
<1>9. Path(S(one, INIT_TOLERANCE, "none"),
           When(INIT_TOLERANCE # old.tolerance, [do |-> "updatePriceTolerance", value |-> old.tolerance]),
           S(one, old.tolerance, "none"))
  <2> HIDE DEF one
  <2>1. QED
    BY <1>3, <1>7, TolerancePath
<1>10. Path(S(one, old.tolerance, "none"),
            When("none" # old.swapper, [do |-> "updateSwapper", value |-> old.swapper]),
            S(one, old.tolerance, old.swapper))
    BY <1>4, SwapperPath
<1>11. Path(S(one, old.tolerance, old.swapper), ForEach(list, BandCalls(cfg)), S(two, old.tolerance, old.swapper))
  <2>1. one = [t \in Tokens |-> one[t]] /\ \A t \in ToSet(list) : one[t] = Opened(cfg[t].config)
    BY <1>2 DEF Listing, Listed
  <2> DEFINE tolerance == old.tolerance
  <2>2. tolerance \in Nat /\ \A t \in ToSet(list) : cfg[t].band # 0 => cfg[t].band < tolerance
    BY <1>1, <1>6
  <2> HIDE DEF one, two, list, cfg, tolerance
  <2>3. Path(S(one, tolerance, old.swapper), ForEach(list, BandCalls(cfg)),
             S(UpTo(list, Len(list), one, Banded(cfg)), tolerance, old.swapper))
    BY <1>1, <2>1, <2>2, BandsPath
  <2>4. QED
    BY <1>8, <2>3 DEF tolerance
<1>12. Path(S(two, old.tolerance, old.swapper), ForEach(list, FlagCalls(cfg)), S(three, old.tolerance, old.swapper))
  <2>1. two = [t \in Tokens |-> two[t]] /\ \A t \in ToSet(list) : two[t] = Banded(cfg)[t]
    BY <1>2 DEF Listing
  <2> DEFINE whole(t) == [config |-> cfg[t].config, deposit |-> cfg[t].deposit,
                          withdraw |-> cfg[t].withdraw, band |-> cfg[t].band]
  <2> HIDE DEF two, three, list, cfg
  <2>2. Path(S(two, old.tolerance, old.swapper), ForEach(list, FlagCalls(cfg)),
             S(UpTo(list, Len(list), two, cfg), old.tolerance, old.swapper))
    BY <1>1, <1>5, <2>1, FlagsPath
  <2>3. QED
    BY <1>8, <2>2
<1> DEFINE t1 == When(INIT_TOLERANCE # old.tolerance, [do |-> "updatePriceTolerance", value |-> old.tolerance])
           t2 == When("none" # old.swapper, [do |-> "updateSwapper", value |-> old.swapper])
           t3 == ForEach(list, BandCalls(cfg))
           t4 == ForEach(list, FlagCalls(cfg))
           s0 == S(one, INIT_TOLERANCE, "none")
           s1 == S(one, old.tolerance, "none")
           s2 == S(one, old.tolerance, old.swapper)
           s3 == S(two, old.tolerance, old.swapper)
           s4 == S(three, old.tolerance, old.swapper)
<1>13. Settings(old, new) = ((t1 \o t2) \o t3) \o t4
    BY SettingsCalls DEF new
<1> HIDE DEF t1, t2, t3, t4, s0, s1, s2, s3, s4
<1>14. Path(s0, t1, s1) /\ Path(s1, t2, s2) /\ Path(s2, t3, s3) /\ Path(s3, t4, s4)
    BY <1>9, <1>10, <1>11, <1>12 DEF t1, t2, t3, t4, s0, s1, s2, s3, s4
<1>15. Path(s0, t1 \o t2, s2)
    BY <1>14, PathThen
<1>16. Path(s0, (t1 \o t2) \o t3, s3)
    BY <1>14, <1>15, PathThen
<1>17. Path(s0, ((t1 \o t2) \o t3) \o t4, s4)
    BY <1>14, <1>16, PathThen
<1>18. QED
    BY <1>13, <1>17 DEF s0, s4, new

\* A chain state with the new Treasury a copy of the live one, in its place.
Mirrored(c) ==
    At(Moved(c),
       (c.access \cup {<<t, "new">> : t \in ToSet(c.old.tokens) \cap Gated})
         \ {<<t, "old">> : t \in ToSet(c.old.tokens) \cap Gated},
       Copy(c.old.tokens, Listing(c.old, c.old.cfg), c.old.tolerance, c.old.swapper, c.old.roles))

\* The roles the batch needs for itself are finitely many.
LEMMA TemporaryFinite ==
    ASSUME NEW old, NEW new
    PROVE  IsFiniteSet(Temporary(old, new))
<1>1. IsFiniteSet({<<"keeper", Safe>>, <<"maintainer", Safe>>})
  <2>1. IsFiniteSet({<<"keeper", Safe>>}) /\ IsFiniteSet({<<"maintainer", Safe>>})
    BY FS_Singleton
  <2>2. {<<"keeper", Safe>>, <<"maintainer", Safe>>} = {<<"keeper", Safe>>} \cup {<<"maintainer", Safe>>}
    OBVIOUS
  <2>3. QED
    BY <2>1, <2>2, FS_Union
<1>2. Temporary(old, new) \subseteq {<<"keeper", Safe>>, <<"maintainer", Safe>>}
    BY DEF Temporary, Needs
<1>3. QED
    BY <1>1, <1>2, FS_Subset

\* The batch up to the move, and the state it prepares: a copy, and vaults that let both Treasuries in.
Preparing(old, new, access) ==
    VaultCalls(old, access, "new", FALSE, "allow")
    \o Collateral(old, new)
    \o SetToSeq({Grant(g) : g \in old.roles \ new.roles})
    \o SetToSeq({Grant(g) : g \in Temporary(old, new)})
    \o Settings(old, new)
    \o SetToSeq({Revoke(g) : g \in Temporary(old, new)})
    \o SetToSeq({Revoke(g) : g \in new.roles \ old.roles})
LetIn(c) == c.access \cup {<<t, "new">> : t \in ToSet(c.old.tokens) \cap Gated}
CopyOf(old) == Copy(old.tokens, Listing(old, old.cfg), old.tolerance, old.swapper, old.roles)

\* The calls buildMirrorBatch builds for a Treasury nobody has set anything on but roles are accepted one
\* after another, whatever the live Treasury's collateral, settings and roles are, and leave the new one
\* its copy: the same list in the same order, the same configuration of each token, the same settings
\* and roles, and nothing of what the Safe was granted for the batch.
LEMMA PreparePath ==
    ASSUME NEW c, c = [old |-> c.old, new |-> c.new, token |-> c.token, access |-> c.access,
                       gateway |-> c.gateway, held |-> c.held],
           IsTreasury(c.old), WellFormed(c.old),
           NEW roles, IsFiniteSet(roles), c.new = Untouched(roles),
           ~MirrorRefused(c.old, c.new)
    PROVE  Path(c, Preparing(c.old, c.new, c.access), At(c, LetIn(c), CopyOf(c.old)))
<1> DEFINE old == c.old
           new == c.new
           access == c.access
           list == old.tokens
           access1 == access \cup {<<t, "new">> : t \in ToSet(list) \cap Gated}
           added == old.roles \ roles
           temporary == Temporary(old, new)
           removed == roles \ old.roles
           held == (roles \cup added) \cup temporary
           last == Copy(list, Listing(old, old.cfg), old.tolerance, old.swapper, old.roles)
           listed == Listing(old, Listed(old.cfg))
           t1 == VaultCalls(old, access, "new", FALSE, "allow")
           t2 == Collateral(old, new)
           t3 == SetToSeq({Grant(g) : g \in added})
           t4 == SetToSeq({Grant(g) : g \in temporary})
           t5 == Settings(old, new)
           t6 == SetToSeq({Revoke(g) : g \in temporary})
           t7 == SetToSeq({Revoke(g) : g \in removed})
           s1 == At(c, access1, new)
           s2 == At(c, access1, Copy(list, listed, INIT_TOLERANCE, "none", roles))
           s3 == At(c, access1, Copy(list, listed, INIT_TOLERANCE, "none", roles \cup added))
           s4 == At(c, access1, Copy(list, listed, INIT_TOLERANCE, "none", held))
           s5 == At(c, access1, Copy(list, Listing(old, old.cfg), old.tolerance, old.swapper, held))
           s6 == At(c, access1, Copy(list, Listing(old, old.cfg), old.tolerance, old.swapper, held \ temporary))
           s7 == At(c, access1, last)
<1>1. /\ list \in Seq(Tokens) /\ \A i, j \in DOMAIN list : list[i] = list[j] => i = j
      /\ IsFiniteSet(old.roles)
    BY DEF IsTreasury, WellFormed
<1>2. c = At(c, access, new)
    BY DEF At
<1>3. new.roles = roles /\ \A t \in Tokens : ~HasToken(new, t)
    BY UntouchedFacts
<1>4. IsFiniteSet(added) /\ IsFiniteSet(removed) /\ IsFiniteSet(temporary)
  <2>1. added \subseteq old.roles /\ removed \subseteq roles
    OBVIOUS
  <2>2. QED
    BY <1>1, <2>1, FS_Subset, TemporaryFinite
<1>5. temporary \cap (old.roles \cup roles) = {}
    BY <1>3 DEF Temporary
<1>6. (held \ temporary) \ removed = old.roles
    BY <1>5
<1>7. Path(c, t1, s1)
  <2>1. t1 = ForEach(list, AllowCalls(access))
    BY DEF VaultCalls, AllowCalls
  <2> HIDE DEF access1, t1
  <2>2. Path(At(c, access, new), ForEach(list, AllowCalls(access)), At(c, access1, new))
    BY <1>1, AllowPath DEF access1
  <2>3. QED
    BY <1>2, <2>1, <2>2
<1>8. Path(s1, t2, s2)
  <2>1. t2 = ForEach(list, CollateralCalls(old.cfg))
    <3>1. [t \in Tokens |-> When(~HasToken(new, t),
                [do |-> "addToWhitelist", on |-> "new", token |-> t, value |-> old.cfg[t].config])]
            = CollateralCalls(old.cfg)
      BY <1>3 DEF CollateralCalls
    <3>2. QED
      BY <3>1 DEF Collateral
  <2>2. UpTo(list, Len(list), NothingListed, Listed(old.cfg)) = listed
    <3>1. NothingListed = [t \in Tokens |-> NothingListed[t]] /\ \A t \in Tokens : NothingListed[t] = Unlisted
      BY DEF NothingListed
    <3>2. UpTo(list, Len(list), NothingListed, Listed(old.cfg))
            = [t \in Tokens |-> IF t \in ToSet(list) THEN Listed(old.cfg)[t] ELSE NothingListed[t]]
      BY <1>1, <3>1, UpToEnds
    <3>3. QED
      BY <3>1, <3>2 DEF Listing
  <2> HIDE DEF access1, t2, listed
  <2>3. Path(At(c, access1, Copy(<<>>, NothingListed, INIT_TOLERANCE, "none", roles)),
             ForEach(list, CollateralCalls(old.cfg)),
             At(c, access1, Copy(list, UpTo(list, Len(list), NothingListed, Listed(old.cfg)),
                                 INIT_TOLERANCE, "none", roles)))
    BY <1>1, CollateralPath
  <2>4. new = Copy(<<>>, NothingListed, INIT_TOLERANCE, "none", roles)
    BY DEF Untouched
  <2>5. QED
    BY <2>1, <2>2, <2>3, <2>4
<1> HIDE DEF added, temporary, removed, access1, listed, last
<1>9. Path(s2, t3, s3)
    BY <1>4, GrantsPath
<1>10. Path(s3, t4, s4)
    BY <1>4, GrantsPath
<1>11. Path(s4, t5, s5)
  <2>1. \A role \in Needs(old, new) : <<role, Safe>> \in held
    <3>1. \A role \in Needs(old, new) : <<role, Safe>> \in temporary \cup (old.roles \cup roles)
      BY <1>3 DEF Temporary, temporary
    <3>2. QED
      BY <3>1 DEF added
  <2> HIDE DEF held
  <2>2. Path(At(c, access1, Copy(list, Listing(old, Listed(old.cfg)), INIT_TOLERANCE, "none", held)),
             Settings(old, Untouched(roles)),
             At(c, access1, Copy(list, Listing(old, old.cfg), old.tolerance, old.swapper, held)))
    BY <2>1, SettingsPath
  <2>3. QED
    BY <2>2 DEF listed
<1>12. Path(s5, t6, s6)
  <2> HIDE DEF held
  <2>1. QED
    BY <1>4, RevokesPath
<1>13. Path(s6, t7, s7)
  <2> DEFINE rest == held \ temporary
  <2> HIDE DEF held, rest
  <2>1. Path(At(c, access1, Copy(list, Listing(old, old.cfg), old.tolerance, old.swapper, rest)), t7,
             At(c, access1, Copy(list, Listing(old, old.cfg), old.tolerance, old.swapper, rest \ removed)))
    BY <1>4, RevokesPath
  <2>2. QED
    BY <1>6, <2>1 DEF rest, last
<1>14. Preparing(old, new, access) = ((((((t1 \o t2) \o t3) \o t4) \o t5) \o t6) \o t7)
  <2>1. added = old.roles \ new.roles /\ removed = new.roles \ old.roles
    BY <1>3 DEF added, removed
  <2>2. QED
    BY <2>1 DEF Preparing, temporary
<1> HIDE DEF old, new, access, t1, t2, t3, t4, t5, t6, t7, s1, s2, s3, s4, s5, s6, s7
<1>15. Path(c, t1 \o t2, s2)
    BY <1>7, <1>8, PathThen
<1>16. Path(c, (t1 \o t2) \o t3, s3)
    BY <1>9, <1>15, PathThen
<1>17. Path(c, ((t1 \o t2) \o t3) \o t4, s4)
    BY <1>10, <1>16, PathThen
<1>18. Path(c, (((t1 \o t2) \o t3) \o t4) \o t5, s5)
    BY <1>11, <1>17, PathThen
<1>19. Path(c, ((((t1 \o t2) \o t3) \o t4) \o t5) \o t6, s6)
    BY <1>12, <1>18, PathThen
<1>20. Path(c, (((((t1 \o t2) \o t3) \o t4) \o t5) \o t6) \o t7, s7)
    BY <1>13, <1>19, PathThen
<1>21. s7 = At(c, LetIn(c), CopyOf(c.old))
    BY DEF s7, last, access1, list, old, access, LetIn, CopyOf
<1>22. QED
    BY <1>14, <1>20, <1>21 DEF old, new, access

\* What follows the move closes the vaults to the live Treasury, and that is the whole batch.
AfterMove(c) == At(Moved(c), LetIn(c), CopyOf(c.old))
Forbidding(c) == VaultCalls(c.old, c.access, "old", TRUE, "forbid")

LEMMA ForbiddingPath ==
    ASSUME NEW c, IsTreasury(c.old)
    PROVE  Path(AfterMove(c), Forbidding(c), Mirrored(c))
<1> DEFINE list == c.old.tokens
           d == Moved(c)
           allowed == ToSet(list) \cap Gated
           last == CopyOf(c.old)
           access == c.access
<1>1. Forbidding(c) = ForEach(list, ForbidCalls(access))
    BY DEF Forbidding, VaultCalls, ForbidCalls
<1>2. AfterMove(c) = At(d, access \cup {<<t, "new">> : t \in allowed}, last)
    BY DEF AfterMove, LetIn
<1>3. Mirrored(c) = At(d, (access \cup {<<t, "new">> : t \in allowed}) \ {<<t, "old">> : t \in ToSet(list) \cap Gated}, last)
    BY DEF Mirrored, CopyOf
<1>4. list \in Seq(Tokens)
    BY DEF IsTreasury
<1> HIDE DEF d, allowed, last, list, access
<1>5. Path(At(d, access \cup {<<t, "new">> : t \in allowed}, last), ForEach(list, ForbidCalls(access)),
           At(d, (access \cup {<<t, "new">> : t \in allowed}) \ {<<t, "old">> : t \in ToSet(list) \cap Gated}, last))
    BY <1>4, ForbidPath
<1>6. QED
    BY <1>1, <1>2, <1>3, <1>5

LEMMA BatchParts ==
    ASSUME NEW c
    PROVE  BuildMirrorBatch(c.old, c.new, c.access) = (Preparing(c.old, c.new, c.access) \o MoveCalls) \o Forbidding(c)
    BY DEF BuildMirrorBatch, Preparing, MoveCalls, Forbidding

\* The whole batch: the copy takes the place of the live Treasury.
LEMMA MirrorPath ==
    ASSUME NEW c, c = [old |-> c.old, new |-> c.new, token |-> c.token, access |-> c.access,
                       gateway |-> c.gateway, held |-> c.held],
           IsTreasury(c.old), WellFormed(c.old), c.old.admin = Safe,
           NEW roles, IsFiniteSet(roles), c.new = Untouched(roles),
           ~MirrorRefused(c.old, c.new)
    PROVE  Path(c, BuildMirrorBatch(c.old, c.new, c.access), Mirrored(c))
<1> DEFINE p == Preparing(c.old, c.new, c.access)
           r == Forbidding(c)
           m == MoveCalls
           s == At(c, LetIn(c), CopyOf(c.old))
<1>1. Path(c, p, s)
    BY PreparePath
<1>2. Path(s, m, AfterMove(c))
    BY MovePath DEF AfterMove
<1>3. Path(AfterMove(c), r, Mirrored(c))
    BY ForbiddingPath
<1>4. BuildMirrorBatch(c.old, c.new, c.access) = (p \o m) \o r
    BY BatchParts
<1> HIDE DEF p, r, m, s
<1>5. Path(c, p \o m, AfterMove(c))
    BY <1>1, <1>2, PathThen
<1>6. Path(c, (p \o m) \o r, Mirrored(c))
    BY <1>3, <1>5, PathThen
<1>7. QED
    BY <1>4, <1>6

\* What the vaults' access should be for the collateral of the live Treasury.
AccessMoved(c, after) ==
    \A t \in ToSet(c.old.tokens) \cap Gated : <<t, "new">> \in after.access /\ <<t, "old">> \notin after.access

\* What verifyMigrated asks for, but for the admin delay, which no call of a batch sets: it stays initialize's.
ExactButDelay(old, new) ==
    /\ old.pending = "none"
    /\ \A field \in {"tokens", "tolerance", "swapper", "roles", "admin"} : new[field] = old[field]
    /\ \A t \in ToSet(old.tokens) : new.cfg[t] = old.cfg[t]
    /\ new.delay = INIT_DELAY

LEMMA ExactWithDelay ==
    ASSUME NEW old, NEW new, ExactButDelay(old, new)
    PROVE  ExactCopy(old, new) <=> old.delay = INIT_DELAY
    BY DEF ExactButDelay, ExactCopy

LEMMA CopyExact ==
    ASSUME NEW old, IsTreasury(old), old.admin = Safe, old.pending = "none"
    PROVE  ExactButDelay(old, CopyOf(old))
<1> DEFINE copy == CopyOf(old)
<1>1. /\ copy.tokens = old.tokens /\ copy.tolerance = old.tolerance /\ copy.swapper = old.swapper
      /\ copy.roles = old.roles /\ copy.admin = old.admin /\ copy.delay = INIT_DELAY
    BY DEF CopyOf, Copy
<1>2. \A t \in ToSet(old.tokens) : copy.cfg[t] = old.cfg[t]
  <2>1. ToSet(old.tokens) \subseteq Tokens
    BY DEF IsTreasury, ToSet
  <2>2. copy.cfg = Listing(old, old.cfg)
    BY DEF CopyOf, Copy
  <2>3. QED
    BY <2>1, <2>2 DEF Listing
<1> HIDE DEF copy
<1>3. ExactButDelay(old, copy)
    BY <1>1, <1>2 DEF ExactButDelay
<1>4. QED
    BY <1>3 DEF copy

LEMMA MirroredExact ==
    ASSUME NEW c, IsTreasury(c.old), c.old.admin = Safe, c.old.pending = "none"
    PROVE  /\ ExactButDelay(c.old, Mirrored(c).new) /\ AccessMoved(c, Mirrored(c))
           /\ Mirrored(c).old = c.old /\ Mirrored(c).token = "new" /\ Mirrored(c).gateway = c.gateway
           /\ Mirrored(c).held = [old |-> 0, new |-> c.held.new + c.held.old] /\ Mirrored(c).held.old = 0
<1> DEFINE after == Mirrored(c)
           copy == CopyOf(c.old)
<1>1. after.new = copy
    BY DEF Mirrored, At, CopyOf
<1>2. ExactButDelay(c.old, copy)
    BY CopyExact
<1>3. /\ after.old = c.old /\ after.token = "new" /\ after.gateway = c.gateway
      /\ after.held = [old |-> 0, new |-> c.held.new + c.held.old] /\ after.held.old = 0
    BY DEF Mirrored, At, Moved
<1>4. AccessMoved(c, after)
    BY DEF AccessMoved, Mirrored, At
<1> HIDE DEF after, copy
<1>5. QED
    BY <1>1, <1>2, <1>3, <1>4 DEF after

\* buildMirrorBatch is right: from a new Treasury on which only roles were set, whoever holds them, no call
\* of the batch it builds reverts, and what they leave is what verifyMigrated asks for: the token on an
\* exact copy, all the collateral there, the gated vaults open to it and closed to the old one.  The copy is
\* exact just when the live Treasury has the admin delay the new one was given, which the batch is built on.
THEOREM MirrorIsExact ==
    ASSUME NEW c, c = [old |-> c.old, new |-> c.new, token |-> c.token, access |-> c.access,
                       gateway |-> c.gateway, held |-> c.held],
           IsTreasury(c.old), WellFormed(c.old),
           c.old.admin = Safe, c.old.pending = "none",
           NEW roles, IsFiniteSet(roles), c.new = Untouched(roles),
           ~MirrorRefused(c.old, c.new)
    PROVE  \E after :
             /\ RunCalls(c, BuildMirrorBatch(c.old, c.new, c.access)) = {after}
             /\ ExactButDelay(c.old, after.new)
             /\ ExactCopy(c.old, after.new) <=> c.old.delay = INIT_DELAY
             /\ after.old = c.old /\ after.token = "new" /\ after.gateway = c.gateway
             /\ after.held = [old |-> 0, new |-> c.held.new + c.held.old]
             /\ AccessMoved(c, after)
<1> DEFINE after == Mirrored(c)
<1>1. RunCalls(c, BuildMirrorBatch(c.old, c.new, c.access)) = {after}
    BY MirrorPath DEF Path, Leads
<1>2. /\ ExactButDelay(c.old, after.new) /\ AccessMoved(c, after)
      /\ after.old = c.old /\ after.token = "new" /\ after.gateway = c.gateway
      /\ after.held = [old |-> 0, new |-> c.held.new + c.held.old]
    BY MirroredExact
<1>3. ExactCopy(c.old, after.new) <=> c.old.delay = INIT_DELAY
    BY <1>2, ExactWithDelay
<1> HIDE DEF after
<1>4. QED
    BY <1>1, <1>2, <1>3
================================================================================
