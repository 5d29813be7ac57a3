------------------------- MODULE SubsequencesProofs -------------------------
(***************************************************************************)
(* Facts about subsequences, for sequences of any length, and what takes   *)
(* the place of induction.                                                 *)
(***************************************************************************)
EXTENDS Subsequences, SequencesExt, SequenceTheorems, FiniteSetTheorems,
        WellFoundedInduction, TLAPS

(* Any set of numbers that is not empty has a least one: what is to be     *)
(* shown of all numbers is shown of the least for which it would not hold. *)
LEMMA LeastNumber ==
  ASSUME NEW T \in SUBSET Nat, T # {}
  PROVE  \E m \in T : \A n \in T : m <= n
<1>1. PICK m \in T : \A n \in T : ~(<<n, m>> \in OpToRel(<, Nat))
  BY NatLessThanWellFounded, WFMin, Zenon
<1>2. ASSUME NEW n \in T PROVE ~(n < m)
  <2>1. <<n, m>>[1] = n /\ <<n, m>>[2] = m /\ <<n, m>> \in Nat \X Nat  OBVIOUS
  <2>. QED  BY <1>1, <2>1, Zenon DEF OpToRel
<1>. QED  BY <1>2

(* A search that goes on from d to next[d], which is smaller, and stops    *)
(* with a result somewhere is a function of where it starts.               *)
Follows(f, D, stop, result, next) ==
  \A d \in D : f[d] = IF d \in stop THEN result[d] ELSE f[next[d]]

LEMMA SearchesExist ==
  ASSUME NEW D, NEW V, NEW stop \in SUBSET D, NEW result \in [stop -> V],
         NEW next \in [D \ stop -> D], NEW size \in [D -> Nat], NEW n \in Nat,
         \A d \in D : size[d] < n,
         \A d \in D \ stop : size[next[d]] < size[d]
  PROVE  \E f \in [D -> V] : Follows(f, D, stop, result, next)
<1>. DEFINE Below(m) == {d \in D : size[d] < m}
            Fails == {m \in Nat : ~ \E f \in [Below(m) -> V] :
                                      Follows(f, Below(m), stop, result, next)}
<1>1. SUFFICES Fails = {}
  <2>1. \E f \in [Below(n) -> V] : Follows(f, Below(n), stop, result, next)  BY <1>1
  <2>2. Below(n) = D  OBVIOUS
  <2>. QED  BY <2>1, <2>2
<1>2. SUFFICES ASSUME NEW m \in Fails, \A k \in Fails : m <= k  PROVE FALSE
  <2>1. Fails \in SUBSET Nat  OBVIOUS
  <2>. QED  BY <1>2, <2>1, LeastNumber
<1>3. m # 0
  <2>1. Below(0) = {}  OBVIOUS
  <2>2. [x \in {} |-> x] \in [{} -> V] /\ Follows([x \in {} |-> x], {}, stop, result, next)
    BY DEF Follows
  <2>3. \E f \in [Below(0) -> V] : Follows(f, Below(0), stop, result, next)
    BY <2>1, <2>2, Zenon
  <2>4. 0 \notin Fails  BY <2>3, Zenon
  <2>. QED  BY <1>2, <2>4
<1>4. m - 1 \in Nat /\ m - 1 \notin Fails
  <2>1. m \in Nat  BY <1>2
  <2>. HIDE DEF Fails
  <2>2. m - 1 \in Nat /\ ~(m <= m - 1)  BY <1>3, <2>1
  <2>. QED  BY <1>2, <2>2
<1>5. PICK f \in [Below(m - 1) -> V] : Follows(f, Below(m - 1), stop, result, next)
  BY <1>4
<1>6. PICK g : g = [d \in Below(m) |-> IF d \in stop THEN result[d] ELSE f[next[d]]]
  OBVIOUS
<1>7. \A d \in Below(m) \ stop : next[d] \in Below(m - 1)  OBVIOUS
<1>8. g \in [Below(m) -> V]  BY <1>6, <1>7
<1>9. \A d \in Below(m - 1) : d \in Below(m) /\ g[d] = f[d]
  BY <1>5, <1>6 DEF Follows
<1>10. Follows(g, Below(m), stop, result, next)  BY <1>6, <1>7, <1>9 DEF Follows
<1>. QED  BY <1>2, <1>8, <1>10

(* What is done n times over, from first on, has a result each time.       *)
Runs(f, n, first, step) == f[0] = first /\ \A k \in 1 .. n : f[k] = step[<<k, f[k - 1]>>]

LEMMA RunsExist ==
  ASSUME NEW V, NEW n \in Nat, NEW first \in V, NEW step \in [(1 .. n) \X V -> V]
  PROVE  \E f \in [0 .. n -> V] : Runs(f, n, first, step)
<1>. DEFINE Run(m, f) == f \in [0 .. m -> V] /\ f[0] = first /\ \A k \in 1 .. m : f[k] = step[<<k, f[k - 1]>>]
            Fails == {m \in Nat : m <= n /\ ~ \E f : Run(m, f)}
<1>1. SUFFICES Fails = {}
  <2>1. \E f : Run(n, f)
    <3>. HIDE DEF Run
    <3>1. n <= n  OBVIOUS
    <3>. QED  BY <1>1, <3>1
  <2>. QED  BY <2>1 DEF Runs
<1>2. SUFFICES ASSUME NEW m \in Fails, \A k \in Fails : m <= k  PROVE FALSE
  <2>1. Fails \in SUBSET Nat  OBVIOUS
  <2>. QED  BY <1>2, <2>1, LeastNumber
<1>3. m # 0
  <2>1. PICK f : f = [k \in 0 .. 0 |-> first]  OBVIOUS
  <2>2. f \in [0 .. 0 -> V] /\ f[0] = first  BY <2>1
  <2>3. Run(0, f)  BY <2>2
  <2>4. 0 \notin Fails  BY <2>3
  <2>. QED  BY <1>2, <2>4
<1>4. m \in Nat /\ m <= n /\ m - 1 \in Nat /\ m - 1 <= n /\ m - 1 \notin Fails
  <2>1. m \in Nat /\ m <= n  BY <1>2
  <2>. HIDE DEF Fails
  <2>2. m - 1 \in Nat /\ ~(m <= m - 1) /\ m - 1 <= n  BY <1>3, <2>1
  <2>. QED  BY <1>2, <2>1, <2>2
<1>5. PICK f : Run(m - 1, f)
  BY <1>4
<1>6. PICK v : v = step[<<m, f[m - 1]>>]  OBVIOUS
<1>7. v \in V
  <2>1. f[m - 1] \in V /\ m \in 1 .. n  BY <1>3, <1>4, <1>5
  <2>. QED  BY <1>6, <2>1
<1>8. PICK g : g = [k \in 0 .. m |-> IF k = m THEN v ELSE f[k]]  OBVIOUS
<1>9. g \in [0 .. m -> V] /\ g[m] = v /\ \A k \in 0 .. m - 1 : g[k] = f[k]
  BY <1>4, <1>5, <1>7, <1>8
<1>10. \A k \in 1 .. m : g[k] = step[<<k, g[k - 1]>>]
  <2>1. SUFFICES ASSUME NEW k \in 1 .. m PROVE g[k] = step[<<k, g[k - 1]>>]  OBVIOUS
  <2>2. g[k - 1] = f[k - 1]  BY <1>4, <1>9
  <2>3. CASE k = m  BY <1>6, <1>9, <2>2, <2>3
  <2>4. CASE k # m  BY <1>4, <1>5, <1>9, <2>2, <2>4
  <2>. QED  BY <2>3, <2>4
<1>11. Run(m, g)  BY <1>3, <1>4, <1>5, <1>9, <1>10
<1>. QED  BY <1>2, <1>11

(* What each step of a run keeps, the run keeps.                           *)
LEMMA RunStays ==
  ASSUME NEW V, NEW n \in Nat, NEW b, b[0] \in V, \A k \in 1 .. n : b[k - 1] \in V => b[k] \in V
  PROVE  b[n] \in V
<1>. DEFINE Fails == {k \in Nat : k <= n /\ b[k] \notin V}
<1>1. SUFFICES ASSUME NEW m \in Fails, \A k \in Fails : m <= k  PROVE FALSE
  <2>1. Fails \in SUBSET Nat  OBVIOUS
  <2>2. b[n] \notin V => n \in Fails  OBVIOUS
  <2>. HIDE DEF Fails
  <2>. QED  BY <1>1, <2>1, <2>2, LeastNumber
<1>2. m \in Nat /\ m <= n /\ b[m] \notin V  OBVIOUS
<1>3. m # 0  BY <1>2
<1>4. m - 1 \in Nat /\ m - 1 <= n /\ ~(m <= m - 1) /\ m \in 1 .. n  BY <1>2, <1>3
<1>5. b[m - 1] \in V
  <2>1. m - 1 \notin Fails  BY <1>1, <1>4
  <2>. QED  BY <1>4, <2>1
<1>. QED  BY <1>2, <1>4, <1>5

(* Numbers that are bounded have a greatest.                               *)
LEMMA GreatestNumber ==
  ASSUME NEW T \in SUBSET Nat, T # {}, NEW b \in Nat, \A x \in T : x <= b
  PROVE  Max(T) \in T /\ \A x \in T : x <= Max(T)
<1>. DEFINE Short == {b - x : x \in T}
<1>1. Short \in SUBSET Nat /\ Short # {}
  <2>1. \A x \in T : b - x \in Nat  OBVIOUS
  <2>. QED  BY <2>1
<1>2. PICK m \in Short : \A n \in Short : m <= n  BY <1>1, LeastNumber
<1>3. PICK g \in T : m = b - g  BY <1>2
<1>4. \A x \in T : x <= g
  <2>1. SUFFICES ASSUME NEW x \in T PROVE x <= g  OBVIOUS
  <2>2. b - x \in Short  OBVIOUS
  <2>3. b - g <= b - x  BY <1>2, <1>3, <2>2
  <2>. QED  BY <2>3
<1>5. \A x \in T : g >= x  BY <1>4
<1>6. PICK top : top = CHOOSE x \in T : \A y \in T : x >= y  OBVIOUS
<1>7. top \in T /\ \A y \in T : top >= y  BY <1>5, <1>6
<1>8. top = Max(T)  BY <1>6 DEF Max
<1>. QED  BY <1>7, <1>8

(* Positions of a sequence are finitely many, and so are those up to one.  *)
LEMMA PositionsAreFinite ==
  ASSUME NEW n \in Nat, NEW I \in SUBSET (1 .. n)
  PROVE  /\ IsFiniteSet(I) /\ Cardinality(I) \in Nat
         /\ \A i \in Int : /\ IsFiniteSet({j \in I : j <= i}) /\ Rank(i, I) \in Nat
                         /\ Rank(i, I) <= Cardinality(I)
<1>1. IsFiniteSet(1 .. n)  BY FS_Interval
<1>2. IsFiniteSet(I)  BY <1>1, FS_Subset
<1>3. Cardinality(I) \in Nat  BY <1>2, FS_CardinalityType
<1>4. ASSUME NEW i \in Int
      PROVE  /\ IsFiniteSet({j \in I : j <= i}) /\ Rank(i, I) \in Nat
             /\ Rank(i, I) <= Cardinality(I)
  <2>1. {j \in I : j <= i} \in SUBSET I  OBVIOUS
  <2>2. IsFiniteSet({j \in I : j <= i}) /\ Cardinality({j \in I : j <= i}) <= Cardinality(I)
    BY <1>2, <2>1, FS_Subset
  <2>. QED  BY <2>2, FS_CardinalityType DEF Rank
<1>. QED  BY <1>2, <1>3, <1>4

(* Ranks grow with the position.                                           *)
LEMMA RanksGrow ==
  ASSUME NEW n \in Nat, NEW I \in SUBSET (1 .. n), NEW i \in I, NEW k \in I, i < k
  PROVE  Rank(i, I) < Rank(k, I)
<1>. DEFINE Low == {j \in I : j <= i}  High == {j \in I : j <= k}
<1>1. IsFiniteSet(High) /\ Low \in SUBSET High /\ k \in High /\ k \notin Low
  <2>1. I \subseteq Int /\ i \in Int /\ k \in Int  OBVIOUS
  <2>2. ASSUME NEW x \in Low PROVE x \in High
    <3>1. x \in I /\ x \in Int /\ x <= i  BY <2>1
    <3>. QED  BY <2>1, <3>1
  <2>3. k \in High /\ k \notin Low  BY <2>1
  <2>4. IsFiniteSet(High)  BY <2>1, PositionsAreFinite
  <2>. QED  BY <2>2, <2>3, <2>4
<1>2. Cardinality(Low) <= Cardinality(High) /\ Cardinality(Low) # Cardinality(High)
  <2>. HIDE DEF Low, High
  <2>. QED  BY <1>1, FS_Subset
<1>3. Rank(i, I) = Cardinality(Low) /\ Rank(k, I) = Cardinality(High)  BY DEF Rank
<1>4. i \in Int /\ k \in Int  OBVIOUS
<1>5. Rank(i, I) \in Nat /\ Rank(k, I) \in Nat  BY <1>4, PositionsAreFinite
<1>. QED  BY <1>2, <1>3, <1>5

(* No two positions have one rank.                                         *)
LEMMA RanksDiffer ==
  ASSUME NEW n \in Nat, NEW I \in SUBSET (1 .. n), NEW i \in I, NEW k \in I,
         Rank(i, I) = Rank(k, I)
  PROVE  i = k
<1>1. SUFFICES ASSUME i # k PROVE FALSE  OBVIOUS
<1>2. i < k \/ k < i  BY <1>1
<1>3. Rank(i, I) < Rank(k, I) \/ Rank(k, I) < Rank(i, I)  BY <1>2, RanksGrow
<1>4. i \in Int  OBVIOUS
<1>5. Rank(i, I) \in Nat  BY <1>4, PositionsAreFinite
<1>. QED  BY <1>3, <1>5

(* The ranks of I are 1, 2 and so on up to its size, each once.            *)
LEMMA RanksCount ==
  ASSUME NEW n \in Nat, NEW I \in SUBSET (1 .. n)
  PROVE  /\ \A i \in I : Rank(i, I) \in 1 .. Cardinality(I)
         /\ \A i, k \in I : Rank(i, I) = Rank(k, I) => i = k
         /\ \A c \in 1 .. Cardinality(I) : \E i \in I : Rank(i, I) = c
<1>. DEFINE C == Cardinality(I)  f == [i \in I |-> Rank(i, I)]
<1>1. IsFiniteSet(I) /\ C \in Nat  BY PositionsAreFinite
<1>2. ASSUME NEW i \in I PROVE Rank(i, I) \in 1 .. C
  <2>1. i \in {j \in I : j <= i}  OBVIOUS
  <2>2. Rank(i, I) # 0  BY <2>1, PositionsAreFinite, FS_EmptySet DEF Rank
  <2>3. i \in Int  OBVIOUS
  <2>4. Rank(i, I) \in Nat /\ Rank(i, I) <= Cardinality(I)  BY <2>3, PositionsAreFinite
  <2>. QED  BY <1>1, <2>2, <2>4
<1>3. \A i, k \in I : Rank(i, I) = Rank(k, I) => i = k  BY RanksDiffer
<1>4. f \in Injection(I, 1 .. C)
  BY <1>2, <1>3 DEF Injection, IsInjective
<1>5. IsFiniteSet(1 .. C) /\ Cardinality(1 .. C) = C
  BY <1>1, FS_Interval
<1>6. f \in Surjection(I, 1 .. C)
  <2>. HIDE DEF f, C
  <2>. QED  BY <1>4, <1>5, FS_Injection DEF C
<1>7. \A c \in 1 .. C : \E i \in I : Rank(i, I) = c
  BY <1>6 DEF Surjection
<1>. QED  BY <1>2, <1>3, <1>7

(* KthOf finds the one position with that rank.                            *)
LEMMA KthIsFound ==
  ASSUME NEW n \in Nat, NEW I \in SUBSET (1 .. n), NEW c \in 1 .. Cardinality(I)
  PROVE  KthOf(I, c) \in I /\ Rank(KthOf(I, c), I) = c
<1>1. \E i \in I : Rank(i, I) = c  BY RanksCount
<1>. QED  BY <1>1 DEF KthOf

(* A subsequence is a sequence of that many elements, those and no others. *)
THEOREM SubsequenceElements ==
  ASSUME NEW S, NEW s \in Seq(S), NEW I \in SUBSET (1 .. Len(s))
  PROVE  /\ Subsequence(s, I) \in Seq(S)
         /\ Len(Subsequence(s, I)) = Cardinality(I)
         /\ ToSet(Subsequence(s, I)) = {s[i] : i \in I}
<1>. DEFINE C == Cardinality(I)  t == Subsequence(s, I)
<1>1. Len(s) \in Nat /\ C \in Nat /\ DOMAIN s = 1 .. Len(s)
  BY LenProperties, PositionsAreFinite
<1>2. \A c \in 1 .. C : KthOf(I, c) \in I /\ Rank(KthOf(I, c), I) = c
  BY <1>1, KthIsFound
<1>3. \A i \in I : s[i] \in S  BY ElementOfSeq, <1>1
<1>4. t \in [1 .. C -> S]  BY <1>2, <1>3 DEF Subsequence
<1>5. t \in Seq(S) /\ Len(t) = C /\ DOMAIN t = 1 .. C
  <2>. HIDE DEF t, C
  <2>. QED  BY <1>1, <1>4
<1>6. ToSet(t) = {s[i] : i \in I}
  <2>1. ASSUME NEW i \in I PROVE s[i] \in ToSet(t)
    <3>1. Rank(i, I) \in 1 .. C /\ KthOf(I, Rank(i, I)) = i
      <4>1. Rank(i, I) \in 1 .. C  BY <1>1, RanksCount
      <4>2. KthOf(I, Rank(i, I)) \in I /\ Rank(KthOf(I, Rank(i, I)), I) = Rank(i, I)
        BY <1>2, <4>1
      <4>. QED  BY <1>1, <4>1, <4>2, RanksCount
    <3>2. t[Rank(i, I)] = s[i]  BY <3>1 DEF Subsequence
    <3>. QED  BY <1>5, <3>1, <3>2 DEF ToSet
  <2>2. ASSUME NEW c \in 1 .. C PROVE \E i \in I : t[c] = s[i]
    BY <1>2 DEF Subsequence
  <2>3. ToSet(t) = {t[c] : c \in 1 .. C}  BY <1>5 DEF ToSet
  <2>4. ASSUME NEW x \in ToSet(t) PROVE x \in {s[i] : i \in I}  BY <2>2, <2>3
  <2>. QED  BY <2>1, <2>4
<1>. QED  BY <1>5, <1>6

(* Elements that are kept stay in order.                                   *)
THEOREM SubsequenceKeepsOrder ==
  ASSUME NEW S, NEW s \in Seq(S), NEW I \in SUBSET (1 .. Len(s)),
         NEW c \in 1 .. Cardinality(I), NEW d \in 1 .. Cardinality(I), c < d
  PROVE  /\ KthOf(I, c) \in 1 .. Len(s) /\ KthOf(I, d) \in 1 .. Len(s)
         /\ KthOf(I, c) < KthOf(I, d)
         /\ Subsequence(s, I)[c] = s[KthOf(I, c)] /\ Subsequence(s, I)[d] = s[KthOf(I, d)]
<1>1. PICK n \in Nat : n = Len(s)  BY LenProperties
<1>2. I \in SUBSET (1 .. n)  BY <1>1
<1>3. PICK i : i = KthOf(I, c)  OBVIOUS
<1>4. PICK k : k = KthOf(I, d)  OBVIOUS
<1>5. i \in I /\ Rank(i, I) = c /\ k \in I /\ Rank(k, I) = d
  BY <1>2, <1>3, <1>4, KthIsFound
<1>6. i \in Int /\ k \in Int /\ i \in 1 .. n /\ k \in 1 .. n  BY <1>2, <1>5
<1>7. i # k  BY <1>5
<1>8. ~ k < i
  <2>1. ASSUME k < i PROVE FALSE
    <3>1. Rank(k, I) < Rank(i, I)  BY <1>2, <1>5, <2>1, RanksGrow
    <3>. QED  BY <1>5, <3>1
  <2>. QED  BY <2>1
<1>9. i < k  BY <1>6, <1>7, <1>8
<1>10. Subsequence(s, I)[c] = s[i] /\ Subsequence(s, I)[d] = s[k]
  BY <1>3, <1>4 DEF Subsequence
<1>. QED  BY <1>1, <1>3, <1>4, <1>6, <1>9, <1>10

(* An element at the end that is not picked makes no difference.           *)
THEOREM SubsequenceIgnoresEnd ==
  ASSUME NEW S, NEW s \in Seq(S), NEW e \in S, NEW I \in SUBSET (1 .. Len(s))
  PROVE  Subsequence(Append(s, e), I) = Subsequence(s, I)
<1>1. Len(s) \in Nat  BY LenProperties
<1>2. \A c \in 1 .. Cardinality(I) : KthOf(I, c) \in 1 .. Len(s)  BY <1>1, KthIsFound
<1>3. \A i \in 1 .. Len(s) : Append(s, e)[i] = s[i]  BY AppendProperties
<1>. QED  BY <1>2, <1>3 DEF Subsequence

(* With one more position after all others, these keep their ranks.        *)
LEMMA NextIsLast ==
  ASSUME NEW n \in Nat, NEW I \in SUBSET (1 .. n), NEW J, J = I \cup {n + 1}
  PROVE  /\ J \in SUBSET (1 .. n + 1) /\ Cardinality(J) = Cardinality(I) + 1
         /\ \A c \in 1 .. Cardinality(I) : KthOf(J, c) = KthOf(I, c)
         /\ KthOf(J, Cardinality(I) + 1) = n + 1
<1>. DEFINE C == Cardinality(I)
<1>1. n + 1 \in Nat /\ C \in Nat /\ IsFiniteSet(I)
  <2>1. C \in Nat /\ IsFiniteSet(I)  BY PositionsAreFinite
  <2>. QED  BY <2>1
<1>2. n + 1 \notin I  OBVIOUS
<1>3. Cardinality(J) = C + 1  BY <1>1, <1>2, FS_AddElement
<1>4. J \in SUBSET (1 .. n + 1)  OBVIOUS
<1>5. \A i \in I : Rank(i, J) = Rank(i, I)
  <2>1. \A i \in I : {j \in J : j <= i} = {j \in I : j <= i}  OBVIOUS
  <2>. QED  BY <2>1 DEF Rank
<1>6. Rank(n + 1, J) = C + 1
  <2>1. \A j \in J : j <= n + 1  BY <1>4
  <2>2. {j \in J : j <= n + 1} = J  BY <2>1
  <2>. QED  BY <1>3, <2>2 DEF Rank
<1>7. ASSUME NEW i \in J, NEW k \in J, Rank(i, J) = Rank(k, J) PROVE i = k
  <2>. DEFINE m == n + 1
  <2>1. m \in Nat /\ J \in SUBSET (1 .. m)  BY <1>1, <1>4
  <2>. HIDE DEF m
  <2>. QED  BY <1>7, <2>1, RanksDiffer
<1>8. \A c \in 1 .. C + 1 : KthOf(J, c) \in J /\ Rank(KthOf(J, c), J) = c
  BY <1>1, <1>3, <1>4, KthIsFound
<1>9. ASSUME NEW c \in 1 .. C PROVE KthOf(J, c) = KthOf(I, c)
  <2>1. KthOf(I, c) \in I /\ Rank(KthOf(I, c), I) = c  BY KthIsFound
  <2>2. Rank(KthOf(I, c), J) = c /\ KthOf(I, c) \in J  BY <1>5, <2>1
  <2>3. c \in 1 .. C + 1  BY <1>1
  <2>4. KthOf(J, c) \in J /\ Rank(KthOf(J, c), J) = c  BY <1>8, <2>3
  <2>. QED  BY <1>7, <2>2, <2>4
<1>10. KthOf(J, C + 1) = n + 1
  <2>1. C + 1 \in 1 .. C + 1 /\ n + 1 \in J  BY <1>1
  <2>2. KthOf(J, C + 1) \in J /\ Rank(KthOf(J, C + 1), J) = C + 1  BY <1>8, <2>1
  <2>3. Rank(KthOf(J, C + 1), J) = Rank(n + 1, J)  BY <1>6, <2>2
  <2>. QED  BY <1>7, <2>1, <2>2, <2>3
<1>. QED  BY <1>3, <1>4, <1>9, <1>10

(* One that is picked comes at the end.                                    *)
THEOREM SubsequenceTakesEnd ==
  ASSUME NEW S, NEW s \in Seq(S), NEW e \in S, NEW I \in SUBSET (1 .. Len(s))
  PROVE  Subsequence(Append(s, e), I \cup {Len(s) + 1}) = Append(Subsequence(s, I), e)
<1>1. PICK n \in Nat : n = Len(s)  BY LenProperties
<1>2. PICK C \in Nat : C = Cardinality(I)  BY <1>1, PositionsAreFinite
<1>3. PICK J : J = I \cup {n + 1}  OBVIOUS
<1>4. /\ J \in SUBSET (1 .. n + 1) /\ Cardinality(J) = C + 1
      /\ \A c \in 1 .. C : KthOf(J, c) = KthOf(I, c)
      /\ KthOf(J, C + 1) = n + 1
  <2>1. I \in SUBSET (1 .. n)  BY <1>1
  <2>2. /\ Cardinality(J) = Cardinality(I) + 1
        /\ \A c \in 1 .. Cardinality(I) : KthOf(J, c) = KthOf(I, c)
        /\ KthOf(J, Cardinality(I) + 1) = n + 1
    BY <1>3, <2>1, NextIsLast
  <2>3. J \in SUBSET (1 .. n + 1)  BY <1>3, <2>1
  <2>. QED  BY <1>2, <2>2, <2>3
<1>5. PICK a : a = Append(s, e)  OBVIOUS
<1>6. a \in Seq(S) /\ a[n + 1] = e /\ Len(a) = n + 1 /\ \A i \in 1 .. n : a[i] = s[i]
  BY <1>1, <1>5, AppendProperties
<1>7. PICK t : t = Subsequence(s, I)  OBVIOUS
<1>8. t \in Seq(S) /\ Len(t) = C /\ \A c \in 1 .. C : t[c] = s[KthOf(I, c)]
  BY <1>2, <1>7, SubsequenceElements DEF Subsequence
<1>9. \A c \in 1 .. C : KthOf(I, c) \in 1 .. n
  BY <1>1, <1>2, KthIsFound
<1>10. PICK u : u = Subsequence(a, J)  OBVIOUS
<1>11. u \in Seq(S) /\ Len(u) = C + 1 /\ \A c \in 1 .. C + 1 : u[c] = a[KthOf(J, c)]
  BY <1>4, <1>6, <1>10, SubsequenceElements DEF Subsequence
<1>12. PICK v : v = Append(t, e)  OBVIOUS
<1>13. v \in Seq(S) /\ Len(v) = C + 1 /\ v[C + 1] = e /\ \A c \in 1 .. C : v[c] = t[c]
  BY <1>8, <1>12, AppendProperties
<1>14. ASSUME NEW c \in 1 .. C PROVE u[c] = v[c]
  <2>1. PICK k \in 1 .. n : k = KthOf(I, c)  BY <1>9
  <2>2. c \in 1 .. C + 1  OBVIOUS
  <2>3. u[c] = a[k]  BY <1>4, <1>11, <2>1, <2>2
  <2>4. v[c] = s[k]  BY <1>8, <1>13, <2>1
  <2>. QED  BY <1>6, <2>3, <2>4
<1>15. u[C + 1] = v[C + 1]  BY <1>4, <1>6, <1>11, <1>13
<1>16. \A c \in 1 .. Len(u) : u[c] = v[c]  BY <1>11, <1>14, <1>15
<1>17. u = v  BY <1>11, <1>13, <1>16, SeqEqual
<1>. QED  BY <1>1, <1>3, <1>5, <1>7, <1>10, <1>12, <1>17

-----------------------------------------------------------------------------
(* The elements of longer and of shorter sequences.                        *)
THEOREM ElementsOfAppend ==
  ASSUME NEW S, NEW s \in Seq(S), NEW e \in S
  PROVE  ToSet(Append(s, e)) = ToSet(s) \cup {e}
<1>1. PICK n \in Nat : n = Len(s)  BY LenProperties
<1>2. PICK a : a = Append(s, e)  OBVIOUS
<1>3. /\ a \in Seq(S) /\ Len(a) = n + 1 /\ a[n + 1] = e /\ \A i \in 1 .. n : a[i] = s[i]
  BY <1>1, <1>2, AppendProperties
<1>4. DOMAIN s = 1 .. n /\ DOMAIN a = 1 .. n + 1  BY <1>1, <1>3, LenProperties
<1>5. 1 .. n + 1 = (1 .. n) \cup {n + 1}  OBVIOUS
<1>. QED  BY <1>2, <1>3, <1>4, <1>5 DEF ToSet

(* Concatenation.                                                          *)
THEOREM ElementsOfConcat ==
  ASSUME NEW S, NEW s \in Seq(S), NEW t \in Seq(S)
  PROVE  s \o t \in Seq(S) /\ ToSet(s \o t) = ToSet(s) \cup ToSet(t)
<1>1. PICK m \in Nat, n \in Nat : m = Len(s) /\ n = Len(t)  BY LenProperties
<1>2. PICK a : a = s \o t  OBVIOUS
<1>3. /\ a \in Seq(S) /\ Len(a) = m + n
      /\ \A i \in 1 .. m + n : a[i] = IF i <= m THEN s[i] ELSE t[i - m]
  BY <1>1, <1>2, ConcatProperties
<1>4. DOMAIN s = 1 .. m /\ DOMAIN t = 1 .. n /\ DOMAIN a = 1 .. m + n
  BY <1>1, <1>3, LenProperties
<1>5. ASSUME NEW i \in 1 .. m PROVE s[i] \in ToSet(a)
  <2>1. i \in 1 .. m + n /\ i <= m  OBVIOUS
  <2>2. a[i] = s[i]  BY <1>3, <2>1
  <2>. QED  BY <1>4, <2>1, <2>2 DEF ToSet
<1>6. ASSUME NEW i \in 1 .. n PROVE t[i] \in ToSet(a)
  <2>1. m + i \in 1 .. m + n /\ ~ m + i <= m /\ m + i - m = i  OBVIOUS
  <2>2. a[m + i] = t[i]  BY <1>3, <2>1
  <2>. QED  BY <1>4, <2>1, <2>2 DEF ToSet
<1>7. ASSUME NEW i \in 1 .. m + n PROVE a[i] \in ToSet(s) \cup ToSet(t)
  <2>1. CASE i <= m
    <3>1. i \in 1 .. m /\ a[i] = s[i]  BY <1>3, <2>1
    <3>. QED  BY <1>4, <3>1 DEF ToSet
  <2>2. CASE ~ i <= m
    <3>1. i - m \in 1 .. n /\ a[i] = t[i - m]  BY <1>3, <2>2
    <3>. QED  BY <1>4, <3>1 DEF ToSet
  <2>. QED  BY <2>1, <2>2
<1>8. ToSet(s) \subseteq ToSet(a)  BY <1>4, <1>5 DEF ToSet
<1>9. ToSet(t) \subseteq ToSet(a)  BY <1>4, <1>6 DEF ToSet
<1>10. ToSet(a) \subseteq ToSet(s) \cup ToSet(t)  BY <1>4, <1>7 DEF ToSet
<1>11. ToSet(a) = ToSet(s) \cup ToSet(t)  BY <1>8, <1>9, <1>10
<1>. QED  BY <1>2, <1>3, <1>11

(* The head and the tail.                                                  *)
THEOREM ElementsOfTail ==
  ASSUME NEW S, NEW s \in Seq(S), s # <<>>
  PROVE  /\ Tail(s) \in Seq(S) /\ Head(s) \in ToSet(s) /\ ToSet(s) = {Head(s)} \cup ToSet(Tail(s))
         /\ \A i \in DOMAIN Tail(s) : i + 1 \in DOMAIN s /\ i + 1 # 1 /\ Tail(s)[i] = s[i + 1]
         /\ 1 \in DOMAIN s /\ Head(s) = s[1]
<1>1. PICK n \in Nat : n = Len(s) /\ n # 0  BY EmptySeq, LenProperties
<1>2. PICK t : t = Tail(s)  OBVIOUS
<1>3. t \in Seq(S) /\ Len(t) = n - 1 /\ \A i \in 1 .. n - 1 : t[i] = s[i + 1]
  BY <1>1, <1>2, HeadTailProperties
<1>4. DOMAIN s = 1 .. n /\ DOMAIN t = 1 .. n - 1  BY <1>1, <1>3, LenProperties
<1>5. Head(s) = s[1]  OBVIOUS
<1>6. 1 \in 1 .. n /\ \A i \in 1 .. n - 1 : i + 1 \in 1 .. n /\ i + 1 # 1  BY <1>1
<1>7. ASSUME NEW i \in 1 .. n PROVE s[i] \in {s[1]} \cup ToSet(t)
  <2>1. CASE i # 1
    <3>1. i - 1 \in 1 .. n - 1 /\ t[i - 1] = s[i - 1 + 1] /\ i - 1 + 1 = i  BY <1>3, <2>1
    <3>. QED  BY <1>4, <3>1 DEF ToSet
  <2>. QED  BY <2>1
<1>8. ASSUME NEW i \in 1 .. n - 1 PROVE t[i] \in ToSet(s)
  BY <1>3, <1>4, <1>6 DEF ToSet
<1>9. ToSet(s) = {s[1]} \cup ToSet(t)
  BY <1>4, <1>6, <1>7, <1>8 DEF ToSet
<1>. QED  BY <1>2, <1>3, <1>4, <1>5, <1>6, <1>9

-----------------------------------------------------------------------------
(* What is kept by its value: the elements in a set.                       *)
LEMMA OnlyAtPositions ==
  ASSUME NEW S, NEW s \in Seq(S), NEW P
  PROVE  /\ {i \in DOMAIN s : s[i] \in P} \in SUBSET (1 .. Len(s))
         /\ {i \in DOMAIN s : s[i] \notin P} \in SUBSET (1 .. Len(s))
         /\ ToSet(s) \subseteq S
BY LenProperties, ElementOfSeq DEF ToSet

(* Only the elements of the set are left, and all of them.                 *)
THEOREM OnlyElements ==
  ASSUME NEW S, NEW s \in Seq(S), NEW P
  PROVE  Only(s, P) \in Seq(S) /\ ToSet(Only(s, P)) = ToSet(s) \cap P
<1>. DEFINE I == {i \in DOMAIN s : s[i] \in P}
<1>1. I \in SUBSET (1 .. Len(s))  BY OnlyAtPositions
<1>2. Only(s, P) = Subsequence(s, I)  BY DEF Only
<1>3. {s[i] : i \in I} = ToSet(s) \cap P  BY DEF ToSet
<1>. HIDE DEF I
<1>. QED  BY <1>1, <1>2, <1>3, SubsequenceElements

(* None of the elements of the set are left, and all others.               *)
THEOREM WithoutElements ==
  ASSUME NEW S, NEW s \in Seq(S), NEW P
  PROVE  Without(s, P) \in Seq(S) /\ ToSet(Without(s, P)) = ToSet(s) \ P
<1>. DEFINE I == {i \in DOMAIN s : s[i] \notin P}
<1>1. I \in SUBSET (1 .. Len(s))  BY OnlyAtPositions
<1>2. Without(s, P) = Subsequence(s, I)  BY DEF Without
<1>3. {s[i] : i \in I} = ToSet(s) \ P  BY DEF ToSet
<1>. HIDE DEF I
<1>. QED  BY <1>1, <1>2, <1>3, SubsequenceElements

(* What is not in the sequence makes no difference to what is kept.        *)
LEMMA OnlyOfThese ==
  ASSUME NEW s, NEW P, NEW Q, ToSet(s) \cap P = ToSet(s) \cap Q
  PROVE  Only(s, P) = Only(s, Q)
<1>1. \A i \in DOMAIN s : s[i] \in P <=> s[i] \in Q  BY DEF ToSet
<1>2. {i \in DOMAIN s : s[i] \in P} = {i \in DOMAIN s : s[i] \in Q}  BY <1>1
<1>. QED  BY <1>2 DEF Only

(* What has been kept is what is kept again.                               *)
THEOREM OnlyOfOnly ==
  ASSUME NEW S, NEW s \in Seq(S), NEW P
  PROVE  Only(s, ToSet(Only(s, P))) = Only(s, P)
<1>1. ToSet(Only(s, P)) = ToSet(s) \cap P  BY OnlyElements
<1>2. ToSet(s) \cap ToSet(Only(s, P)) = ToSet(s) \cap P  BY <1>1
<1>. QED  BY <1>2, OnlyOfThese

(* A new element at the end is kept there, or not, and nothing else        *)
(* changes.                                                                *)
THEOREM OnlyOfAppend ==
  ASSUME NEW S, NEW s \in Seq(S), NEW e \in S, NEW P
  PROVE  Only(Append(s, e), P) = IF e \in P THEN Append(Only(s, P), e) ELSE Only(s, P)
<1>1. PICK n \in Nat : n = Len(s)  BY LenProperties
<1>2. PICK a : a = Append(s, e)  OBVIOUS
<1>3. /\ a \in Seq(S) /\ Len(a) = n + 1 /\ a[n + 1] = e /\ \A i \in 1 .. n : a[i] = s[i]
  BY <1>1, <1>2, AppendProperties
<1>4. DOMAIN s = 1 .. n /\ DOMAIN a = 1 .. n + 1  BY <1>1, <1>3, LenProperties
<1>. DEFINE I == {i \in DOMAIN s : s[i] \in P}  J == {i \in DOMAIN a : a[i] \in P}
<1>5. I \in SUBSET (1 .. Len(s))  BY OnlyAtPositions
<1>6. CASE e \in P
  <2>1. J = I \cup {n + 1}  BY <1>3, <1>4, <1>6
  <2>2. Only(a, P) = Subsequence(a, J) /\ Only(s, P) = Subsequence(s, I)  BY DEF Only
  <2>. HIDE DEF I, J
  <2>3. Subsequence(a, I \cup {n + 1}) = Append(Subsequence(s, I), e)
    BY <1>1, <1>2, <1>5, SubsequenceTakesEnd
  <2>. QED  BY <1>2, <1>6, <2>1, <2>2, <2>3
<1>7. CASE e \notin P
  <2>1. J = I  BY <1>3, <1>4, <1>7
  <2>2. Only(a, P) = Subsequence(a, J) /\ Only(s, P) = Subsequence(s, I)  BY DEF Only
  <2>. HIDE DEF I, J
  <2>3. Subsequence(a, I) = Subsequence(s, I)
    BY <1>2, <1>5, SubsequenceIgnoresEnd
  <2>. QED  BY <1>2, <1>7, <2>1, <2>2, <2>3
<1>. QED  BY <1>6, <1>7

(* Whether an element is kept is all that counts.                          *)
THEOREM OnlyAlike ==
  ASSUME NEW S, NEW s \in Seq(S), NEW t \in Seq(S), Len(t) = Len(s), NEW P, NEW Q,
         \A i \in DOMAIN s : (s[i] \in P <=> t[i] \in Q) /\ (s[i] \in P => t[i] = s[i])
  PROVE  Only(t, Q) = Only(s, P)
<1>1. PICK n \in Nat : n = Len(s) /\ DOMAIN s = 1 .. n /\ DOMAIN t = 1 .. n
  BY LenProperties
<1>2. PICK I : I = {i \in DOMAIN s : s[i] \in P}  OBVIOUS
<1>3. I = {i \in DOMAIN t : t[i] \in Q}  BY <1>1, <1>2
<1>4. I \in SUBSET (1 .. n)  BY <1>1, <1>2
<1>5. \A k \in 1 .. Cardinality(I) : t[KthOf(I, k)] = s[KthOf(I, k)]
  BY <1>2, <1>4, KthIsFound
<1>6. Subsequence(t, I) = Subsequence(s, I)  BY <1>5 DEF Subsequence
<1>. QED  BY <1>2, <1>3, <1>6 DEF Only

(* Nothing is left of a sequence that has none of these.                   *)
LEMMA OnlyOfNone ==
  ASSUME NEW S, NEW s \in Seq(S), NEW P, ToSet(s) \cap P = {}
  PROVE  Only(s, P) = <<>>
<1>1. PICK t \in Seq(S) : t = Only(s, P) /\ ToSet(t) = {}  BY OnlyElements
<1>2. PICK n \in Nat : n = Len(t) /\ DOMAIN t = 1 .. n  BY LenProperties
<1>3. n = 0
  <2>1. \A i \in 1 .. n : t[i] \in ToSet(t)  BY <1>2 DEF ToSet
  <2>2. n # 0 => 1 \in 1 .. n  OBVIOUS
  <2>. QED  BY <1>1, <2>1, <2>2
<1>. QED  BY <1>1, <1>2, <1>3, EmptySeq

(* Narrowing what has been narrowed is narrowing once, by both.            *)
THEOREM OnlyTwice ==
  ASSUME NEW S, NEW s \in Seq(S), NEW P, NEW Q
  PROVE  Only(Only(s, P), Q) = Only(s, P \cap Q)
<1>. DEFINE Fails == {n \in Nat : \E t \in Seq(S) : Len(t) = n /\ Only(Only(t, P), Q) # Only(t, P \cap Q)}
<1>1. SUFFICES ASSUME NEW n \in Fails, \A m \in Fails : n <= m  PROVE FALSE
  <2>1. Fails \in SUBSET Nat  OBVIOUS
  <2>2. Fails = {}  BY <1>1, <2>1, LeastNumber
  <2>3. Len(s) \in Nat  BY LenProperties
  <2>. QED  BY <2>2, <2>3
<1>2. PICK t \in Seq(S) : n \in Nat /\ Len(t) = n /\ Only(Only(t, P), Q) # Only(t, P \cap Q)
  OBVIOUS
<1>3. CASE n = 0
  <2>1. ToSet(t) = {}  BY <1>2, <1>3, LenProperties DEF ToSet
  <2>2. Only(t, P) \in Seq(S) /\ ToSet(Only(t, P)) = {}  BY <2>1, OnlyElements
  <2>3. Only(Only(t, P), Q) = <<>> /\ Only(t, P \cap Q) = <<>>  BY <2>1, <2>2, OnlyOfNone
  <2>. QED  BY <1>2, <2>3
<1>4. CASE n # 0
  <2>1. PICK r \in Seq(S), e \in S : t = Append(r, e) /\ Len(r) = n - 1
    <3>1. t # <<>>  BY <1>2, <1>4, EmptySeq
    <3>2. PICK r \in Seq(S), e \in S : t = Append(r, e)  BY <3>1, SequenceEmptyOrAppend
    <3>3. Len(t) = Len(r) + 1 /\ Len(r) \in Nat  BY <3>2, AppendProperties, LenProperties
    <3>. HIDE DEF Fails
    <3>4. Len(r) = n - 1  BY <1>2, <3>2, <3>3
    <3>. QED  BY <3>2, <3>4
  <2>2. n - 1 \in Nat /\ n - 1 \notin Fails
    <3>1. n - 1 \in Nat /\ n - 1 < n  BY <1>2, <1>4
    <3>. HIDE DEF Fails
    <3>. QED  BY <1>1, <1>2, <3>1
  <2>3. Only(Only(r, P), Q) = Only(r, P \cap Q)  BY <2>1, <2>2
  <2>4. Only(r, P) \in Seq(S)  BY OnlyElements
  <2>5. Only(t, P) = IF e \in P THEN Append(Only(r, P), e) ELSE Only(r, P)
    BY <2>1, OnlyOfAppend
  <2>6. Only(t, P \cap Q) = IF e \in P \cap Q THEN Append(Only(r, P \cap Q), e) ELSE Only(r, P \cap Q)
    BY <2>1, OnlyOfAppend
  <2>7. Only(Append(Only(r, P), e), Q) =
          IF e \in Q THEN Append(Only(Only(r, P), Q), e) ELSE Only(Only(r, P), Q)
    BY <2>4, OnlyOfAppend
  <2>. QED  BY <1>2, <2>3, <2>5, <2>6, <2>7
<1>. QED  BY <1>3, <1>4
=============================================================================
