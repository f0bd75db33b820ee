-------------------------- MODULE SubsequenceProofs --------------------------
(***************************************************************************)
(* What Keep, Totals and Flatten do with a sequence that grows at its end, *)
(* and the principle of the least number, on which this rests: it takes    *)
(* the place of an induction, and speaks of a set instead of a predicate.  *)
(***************************************************************************)
EXTENDS Subsequence, Totals, Integers, WellFoundedInduction, TLAPS

\* What is minimal in a relation that < is part of is a least element.
LEMMA LeastOf ==
    ASSUME NEW R, \A x, y \in Nat : x < y => <<x, y>> \in R,
           NEW S, S \subseteq Nat, \E m \in S : \A y \in S : <<y, m>> \notin R
    PROVE  \E m \in S : \A x \in S : m <= x
<1>1. PICK m \in S : \A y \in S : <<y, m>> \notin R
  OBVIOUS
<1>2. ASSUME NEW x \in S
      PROVE  m <= x
  <2>1. ~(x < m)
    BY <1>1
  <2>2. x \in Nat /\ m \in Nat
    OBVIOUS
  <2> QED BY <2>1, <2>2, SMT
<1> QED BY <1>2

\* A set of natural numbers that is not empty has a least element.
LEMMA Least ==
    ASSUME NEW S, S \subseteq Nat, S # {}
    PROVE  \E m \in S : \A x \in S : m <= x
<1>1. \E m \in S : \A y \in S : <<y, m>> \notin OpToRel(<, Nat)
  BY WFMin, NatLessThanWellFounded
<1>2. \A x, y \in Nat : x < y => <<x, y>> \in OpToRel(<, Nat)
  BY DEF OpToRel
<1> QED BY <1>1, <1>2, LeastOf, Zenon

\* The recursion of Kept, cut off after n.
Step(s, K, f, k) ==
    IF k = 0 THEN << >>
    ELSE IF k \in K THEN Append(f[k - 1], s[k]) ELSE f[k - 1]
UpTo(s, K, n, f) == f = [k \in 0..n |-> Step(s, K, f, k)]

\* Two functions that follow the recursion agree as far as both go.
LEMMA UpToUnique ==
    ASSUME NEW s, NEW K, NEW n \in Nat, NEW m \in Nat, n <= m,
           NEW f, UpTo(s, K, n, f), NEW g, UpTo(s, K, m, g)
    PROVE  \A k \in 0..n : f[k] = g[k]
<1> DEFINE S == {k \in 0..n : f[k] # g[k]}
<1> SUFFICES ASSUME S # {} PROVE FALSE
  OBVIOUS
<1>1. PICK k \in S : \A x \in S : k <= x
  <2>1. S \subseteq Nat
    BY SMT
  <2> QED BY <2>1, Least
<1>2. k \in 0..n /\ k \in 0..m /\ k \in Nat
  BY <1>1, SMT
<1>3. f[k] = Step(s, K, f, k) /\ g[k] = Step(s, K, g, k)
  BY <1>2 DEF UpTo
<1>4. CASE k = 0
  BY <1>1, <1>3, <1>4 DEF Step
<1>5. CASE k # 0
  <2>1. k - 1 \in 0..n /\ ~(k <= k - 1)
    BY <1>2, <1>5, SMT
  <2>2. f[k - 1] = g[k - 1]
    BY <1>1, <2>1
  <2> QED BY <1>1, <1>3, <2>2 DEF Step
<1> QED BY <1>4, <1>5

\* For every n there is one.
LEMMA UpToExists ==
    ASSUME NEW s, NEW K
    PROVE  \A n \in Nat : \E f : UpTo(s, K, n, f)
<1> DEFINE S == {n \in Nat : ~\E f : UpTo(s, K, n, f)}
<1> SUFFICES ASSUME S # {} PROVE FALSE
  OBVIOUS
<1>1. PICK n \in S : \A x \in S : n <= x
  BY Least
<1>2. CASE n = 0
  <2> DEFINE f == [k \in 0..0 |-> << >>]
  <2>1. \A k \in 0..0 : k = 0
    BY SMT
  <2>2. f = [k \in 0..0 |-> Step(s, K, f, k)]
    BY <2>1 DEF Step
  <2> QED BY <1>1, <1>2, <2>2 DEF UpTo
<1>3. CASE n # 0
  <2>1. n - 1 \in Nat /\ ~(n <= n - 1)
    BY <1>3, SMT
  <2>2. PICK g : UpTo(s, K, n - 1, g)
    BY <1>1, <2>1
  <2> DEFINE f == [k \in 0..n |-> IF k = n THEN Step(s, K, g, n) ELSE g[k]]
  <2>3. \A k \in 0..n : k # 0 => k - 1 \in 0..n /\ k - 1 # n
    BY SMT
  <2>4. \A k \in 0..n : k # 0 => f[k - 1] = g[k - 1]
    BY <2>3
  <2>5. \A k \in 0..n : Step(s, K, f, k) = Step(s, K, g, k)
    BY <2>4 DEF Step
  <2>6. \A k \in 0..n : k # n => k \in 0..(n - 1)
    BY SMT
  <2>7. \A k \in 0..n : k # n => g[k] = Step(s, K, g, k)
    BY <2>2, <2>6 DEF UpTo
  <2>8. f = [k \in 0..n |-> Step(s, K, f, k)]
    BY <2>5, <2>7
  <2>9. UpTo(s, K, n, f)
    BY <2>8 DEF UpTo
  <2> QED BY <1>1, <2>9
<1> QED BY <1>2, <1>3

\* Kept is the function that its definition says it is.
LEMMA KeptIs ==
    ASSUME NEW s, NEW K
    PROVE  \A n \in Nat : Kept(s, K)[n] = Step(s, K, Kept(s, K), n)
<1> DEFINE Upto(n) == CHOOSE f : UpTo(s, K, n, f)
           whole == [n \in Nat |-> Upto(n)[n]]
<1>1. \A n \in Nat : UpTo(s, K, n, Upto(n))
  BY UpToExists
<1> HIDE DEF Upto
<1>2. ASSUME NEW n \in Nat
      PROVE  whole[n] = Step(s, K, whole, n)
  <2>1. n \in 0..n
    BY SMT
  <2>2. whole[n] = Step(s, K, Upto(n), n)
    BY <1>1, <2>1 DEF UpTo
  <2>3. CASE n = 0
    BY <2>2, <2>3 DEF Step
  <2>4. CASE n # 0
    <3>1. n - 1 \in Nat /\ n - 1 <= n /\ n - 1 \in 0..(n - 1)
      BY <2>4, SMT
    <3>2. Upto(n)[n - 1] = Upto(n - 1)[n - 1]
      BY <1>1, <3>1, UpToUnique
    <3>3. whole[n - 1] = Upto(n)[n - 1]
      BY <3>1, <3>2
    <3> QED BY <2>2, <3>3 DEF Step
  <2> QED BY <2>3, <2>4
<1>3. whole = [n \in Nat |-> Step(s, K, whole, n)]
  BY <1>2
<1> HIDE DEF whole
<1> DEFINE kept == CHOOSE f : f = [n \in Nat |-> Step(s, K, f, n)]
<1>4. kept = [n \in Nat |-> Step(s, K, kept, n)]
  BY <1>3
<1>5. Kept(s, K) = kept
  BY DEF Kept, Step
<1> QED BY <1>4, <1>5

\* What is kept does not depend on what comes later, nor on places after it.
LEMMA KeptSame ==
    ASSUME NEW s, NEW K, NEW t, NEW L, NEW n \in Nat,
           \A k \in 1..n : t[k] = s[k] /\ (k \in L <=> k \in K)
    PROVE  Kept(t, L)[n] = Kept(s, K)[n]
<1> DEFINE S == {k \in 0..n : Kept(t, L)[k] # Kept(s, K)[k]}
<1>1. n \in 0..n
  BY SMT
<1> SUFFICES ASSUME S # {} PROVE FALSE
  BY <1>1
<1>2. PICK k \in S : \A x \in S : k <= x
  <2>1. S \subseteq Nat
    BY SMT
  <2> QED BY <2>1, Least
<1>3. k \in Nat /\ k \in 0..n
  BY <1>2, SMT
<1>4. /\ Kept(t, L)[k] = Step(t, L, Kept(t, L), k)
      /\ Kept(s, K)[k] = Step(s, K, Kept(s, K), k)
  BY <1>3, KeptIs
<1>5. CASE k = 0
  BY <1>2, <1>4, <1>5 DEF Step
<1>6. CASE k # 0
  <2>1. k \in 1..n /\ k - 1 \in 0..n /\ ~(k <= k - 1)
    BY <1>3, <1>6, SMT
  <2>2. Kept(t, L)[k - 1] = Kept(s, K)[k - 1]
    BY <1>2, <2>1
  <2>3. t[k] = s[k] /\ (k \in L <=> k \in K)
    BY <2>1
  <2> QED BY <1>2, <1>4, <2>2, <2>3 DEF Step
<1> QED BY <1>5, <1>6

\* Nothing is kept of an empty sequence.
LEMMA KeepNothing ==
    ASSUME NEW K
    PROVE  Keep(<< >>, K) = << >>
<1>1. Len(<< >>) = 0 /\ 0 \in Nat
  BY SMT
<1> QED BY <1>1, KeptIs DEF Keep, Step

\* A sequence that grows by one element keeps what it kept, and the new
\* element if its place is one to keep.
LEMMA KeepAppend ==
    ASSUME NEW S, NEW s \in Seq(S), NEW e, NEW K, NEW L,
           \A k \in 1..Len(s) : k \in L <=> k \in K
    PROVE  Keep(Append(s, e), L)
             = IF Len(s) + 1 \in L THEN Append(Keep(s, K), e) ELSE Keep(s, K)
<1> DEFINE n == Len(s)
           t == Append(s, e)
<1>1. n \in Nat /\ n + 1 \in Nat /\ n + 1 # 0 /\ (n + 1) - 1 = n
  BY SMT
<1>2. Len(t) = n + 1 /\ t[n + 1] = e /\ \A k \in 1..n : t[k] = s[k]
  BY SMT
<1> HIDE DEF t
<1>3. Kept(t, L)[n] = Kept(s, K)[n]
  <2>1. \A k \in 1..n : t[k] = s[k] /\ (k \in L <=> k \in K)
    BY <1>2
  <2> HIDE DEF n
  <2> QED BY <1>1, <2>1, KeptSame
<1>4. Kept(t, L)[n + 1]
        = IF n + 1 \in L THEN Append(Kept(t, L)[n], e) ELSE Kept(t, L)[n]
  <2> HIDE DEF n
  <2>1. Kept(t, L)[n + 1] = Step(t, L, Kept(t, L), n + 1)
    BY <1>1, KeptIs
  <2> QED BY <1>1, <1>2, <2>1 DEF Step
<1> QED BY <1>2, <1>3, <1>4 DEF Keep, t

\* What is kept are elements of the sequence.
LEMMA KeepType ==
    ASSUME NEW S, NEW s \in Seq(S), NEW K
    PROVE  Keep(s, K) \in Seq(S)
<1> DEFINE Bad == {k \in 0..Len(s) : Kept(s, K)[k] \notin Seq(S)}
<1>1. Len(s) \in Nat /\ Len(s) \in 0..Len(s)
  BY SMT
<1> SUFFICES ASSUME Bad # {} PROVE FALSE
  BY <1>1 DEF Keep
<1>2. PICK k \in Bad : \A x \in Bad : k <= x
  <2>1. Bad \subseteq Nat
    BY SMT
  <2> QED BY <2>1, Least
<1>3. k \in Nat /\ k \in 0..Len(s)
  BY <1>1, <1>2, SMT
<1>4. Kept(s, K)[k] = Step(s, K, Kept(s, K), k)
  BY <1>3, KeptIs
<1>5. CASE k = 0
  <2>1. << >> \in Seq(S)
    BY SMT
  <2> QED BY <1>2, <1>4, <1>5, <2>1 DEF Step
<1>6. CASE k # 0
  <2>1. k - 1 \in 0..Len(s) /\ ~(k <= k - 1) /\ s[k] \in S
    BY <1>1, <1>3, <1>6, SMT
  <2>2. Kept(s, K)[k - 1] \in Seq(S)
    BY <1>2, <2>1
  <2>3. Append(Kept(s, K)[k - 1], s[k]) \in Seq(S)
    BY <2>1, <2>2, SMT
  <2> QED BY <1>2, <1>4, <1>6, <2>2, <2>3 DEF Step
<1> QED BY <1>5, <1>6

-----------------------------------------------------------------------------
(* Running totals. *)

\* The recursion of Totals, cut off after n.
Add(s, f, k) == IF k = 0 THEN 0 ELSE f[k - 1] + s[k]
AddUpTo(s, n, f) == f = [k \in 0..n |-> Add(s, f, k)]

\* Two functions that follow the recursion agree as far as both go.
LEMMA AddUnique ==
    ASSUME NEW s, NEW n \in Nat, NEW m \in Nat, n <= m,
           NEW f, AddUpTo(s, n, f), NEW g, AddUpTo(s, m, g)
    PROVE  \A k \in 0..n : f[k] = g[k]
<1> DEFINE S == {k \in 0..n : f[k] # g[k]}
<1> SUFFICES ASSUME S # {} PROVE FALSE
  OBVIOUS
<1>1. PICK k \in S : \A x \in S : k <= x
  <2>1. S \subseteq Nat
    BY SMT
  <2> QED BY <2>1, Least
<1>2. k \in 0..n /\ k \in 0..m /\ k \in Nat
  BY <1>1, SMT
<1>3. f[k] = Add(s, f, k) /\ g[k] = Add(s, g, k)
  BY <1>2 DEF AddUpTo
<1>4. CASE k = 0
  BY <1>1, <1>3, <1>4 DEF Add
<1>5. CASE k # 0
  <2>1. k - 1 \in 0..n /\ ~(k <= k - 1)
    BY <1>2, <1>5, SMT
  <2>2. f[k - 1] = g[k - 1]
    BY <1>1, <2>1
  <2> QED BY <1>1, <1>3, <2>2 DEF Add
<1> QED BY <1>4, <1>5

\* For every n there is one.
LEMMA AddExists ==
    ASSUME NEW s
    PROVE  \A n \in Nat : \E f : AddUpTo(s, n, f)
<1> DEFINE S == {n \in Nat : ~\E f : AddUpTo(s, n, f)}
<1> SUFFICES ASSUME S # {} PROVE FALSE
  OBVIOUS
<1>1. PICK n \in S : \A x \in S : n <= x
  BY Least
<1>2. CASE n = 0
  <2> DEFINE f == [k \in 0..0 |-> 0]
  <2>1. \A k \in 0..0 : k = 0
    BY SMT
  <2>2. f = [k \in 0..0 |-> Add(s, f, k)]
    BY <2>1 DEF Add
  <2> QED BY <1>1, <1>2, <2>2 DEF AddUpTo
<1>3. CASE n # 0
  <2>1. n - 1 \in Nat /\ ~(n <= n - 1)
    BY <1>3, SMT
  <2>2. PICK g : AddUpTo(s, n - 1, g)
    BY <1>1, <2>1
  <2> DEFINE f == [k \in 0..n |-> IF k = n THEN Add(s, g, n) ELSE g[k]]
  <2>3. \A k \in 0..n : k # 0 => k - 1 \in 0..n /\ k - 1 # n
    BY SMT
  <2>4. \A k \in 0..n : k # 0 => f[k - 1] = g[k - 1]
    BY <2>3
  <2>5. \A k \in 0..n : Add(s, f, k) = Add(s, g, k)
    BY <2>4 DEF Add
  <2>6. \A k \in 0..n : k # n => k \in 0..(n - 1)
    BY SMT
  <2>7. \A k \in 0..n : k # n => g[k] = Add(s, g, k)
    BY <2>2, <2>6 DEF AddUpTo
  <2>8. f = [k \in 0..n |-> Add(s, f, k)]
    BY <2>5, <2>7
  <2>9. AddUpTo(s, n, f)
    BY <2>8 DEF AddUpTo
  <2> QED BY <1>1, <2>9
<1> QED BY <1>2, <1>3

\* Totals is the function that its definition says it is.
LEMMA TotalsAre ==
    ASSUME NEW s
    PROVE  \A n \in Nat : Totals(s)[n] = Add(s, Totals(s), n)
<1> DEFINE Upto(n) == CHOOSE f : AddUpTo(s, n, f)
           whole == [n \in Nat |-> Upto(n)[n]]
<1>1. \A n \in Nat : AddUpTo(s, n, Upto(n))
  BY AddExists
<1> HIDE DEF Upto
<1>2. ASSUME NEW n \in Nat
      PROVE  whole[n] = Add(s, whole, n)
  <2>1. n \in 0..n
    BY SMT
  <2>2. whole[n] = Add(s, Upto(n), n)
    BY <1>1, <2>1 DEF AddUpTo
  <2>3. CASE n = 0
    BY <2>2, <2>3 DEF Add
  <2>4. CASE n # 0
    <3>1. n - 1 \in Nat /\ n - 1 <= n /\ n - 1 \in 0..(n - 1)
      BY <2>4, SMT
    <3>2. Upto(n)[n - 1] = Upto(n - 1)[n - 1]
      BY <1>1, <3>1, AddUnique
    <3>3. whole[n - 1] = Upto(n)[n - 1]
      BY <3>1, <3>2
    <3> QED BY <2>2, <3>3 DEF Add
  <2> QED BY <2>3, <2>4
<1>3. whole = [n \in Nat |-> Add(s, whole, n)]
  BY <1>2
<1> HIDE DEF whole
<1> DEFINE total == CHOOSE f : f = [n \in Nat |-> Add(s, f, n)]
<1>4. total = [n \in Nat |-> Add(s, total, n)]
  BY <1>3
<1>5. Totals(s) = total
  BY DEF Totals, Add
<1> QED BY <1>4, <1>5

\* Totals of numbers are numbers.
LEMMA TotalsNat ==
    ASSUME NEW s, NEW n \in Nat, \A k \in 1..n : s[k] \in Nat
    PROVE  \A k \in 0..n : Totals(s)[k] \in Nat
<1> DEFINE S == {k \in 0..n : Totals(s)[k] \notin Nat}
<1> SUFFICES ASSUME S # {} PROVE FALSE
  OBVIOUS
<1>1. PICK k \in S : \A x \in S : k <= x
  <2>1. S \subseteq Nat
    BY SMT
  <2> QED BY <2>1, Least
<1>2. k \in Nat /\ k \in 0..n /\ Totals(s)[k] = Add(s, Totals(s), k)
  <2>1. k \in Nat
    BY SMT
  <2> QED BY <2>1, TotalsAre
<1>3. CASE k = 0
  BY <1>1, <1>2, <1>3 DEF Add
<1>4. CASE k # 0
  <2>1. k - 1 \in 0..n /\ ~(k <= k - 1) /\ k \in 1..n
    BY <1>2, <1>4, SMT
  <2>2. Totals(s)[k - 1] \in Nat /\ s[k] \in Nat
    BY <1>1, <2>1
  <2>3. Totals(s)[k] = Totals(s)[k - 1] + s[k]
    BY <1>2, <1>4 DEF Add
  <2> QED BY <1>1, <2>2, <2>3, SMT
<1> QED BY <1>3, <1>4

\* They grow: by what stands at a place, from before it to any later one.
LEMMA TotalsGrow ==
    ASSUME NEW s, NEW n \in Nat, \A k \in 1..n : s[k] \in Nat, NEW i \in 1..n
    PROVE  /\ Totals(s)[i - 1] \in Nat
           /\ \A k \in i..n : Totals(s)[k] \in Nat /\ Totals(s)[i - 1] + s[i] <= Totals(s)[k]
<1>1. i \in Nat /\ i - 1 \in 0..n /\ i # 0
  BY SMT
<1>2. Totals(s)[i] = Totals(s)[i - 1] + s[i]
  BY <1>1, TotalsAre DEF Add
<1>3. \A k \in 0..n : Totals(s)[k] \in Nat
  BY TotalsNat
<1> DEFINE S == {k \in i..n : ~(Totals(s)[i] <= Totals(s)[k])}
<1>4. S = {}
  <2> SUFFICES ASSUME S # {} PROVE FALSE
    OBVIOUS
  <2>1. PICK k \in S : \A x \in S : k <= x
    <3>1. S \subseteq Nat
      BY SMT
    <3> QED BY <3>1, Least
  <2>2. k \in Nat /\ k \in 0..n /\ k \in i..n
    BY <2>1, SMT
  <2>3. CASE k = i
    BY <1>3, <2>1, <2>2, <2>3, SMT
  <2>4. CASE k # i
    <3>1. k - 1 \in i..n /\ ~(k <= k - 1) /\ k \in 1..n /\ k - 1 \in 0..n /\ i \in 0..n /\ k # 0
      BY <1>1, <2>2, <2>4, SMT
    <3>2. Totals(s)[i] <= Totals(s)[k - 1]
      BY <2>1, <3>1
    <3>3. Totals(s)[k] = Totals(s)[k - 1] + s[k]
      BY <2>2, <3>1, TotalsAre DEF Add
    <3>4. Totals(s)[k - 1] \in Nat /\ s[k] \in Nat /\ Totals(s)[i] \in Nat
      BY <1>3, <3>1
    <3>5. Totals(s)[i] <= Totals(s)[k]
      BY <3>2, <3>3, <3>4, SMT
    <3> QED BY <2>1, <3>5
  <2> QED BY <2>3, <2>4
<1>5. ASSUME NEW k \in i..n
      PROVE  Totals(s)[k] \in Nat /\ Totals(s)[i - 1] + s[i] <= Totals(s)[k]
  <2>1. k \in 0..n
    BY SMT
  <2> QED BY <1>2, <1>3, <1>4, <2>1
<1> QED BY <1>1, <1>3, <1>5

\* The first totals do not depend on what comes later.
LEMMA TotalsSame ==
    ASSUME NEW s, NEW t, NEW n \in Nat, \A k \in 1..n : t[k] = s[k]
    PROVE  Totals(t)[n] = Totals(s)[n]
<1> DEFINE S == {k \in 0..n : Totals(t)[k] # Totals(s)[k]}
<1>1. n \in 0..n
  BY SMT
<1> SUFFICES ASSUME S # {} PROVE FALSE
  BY <1>1
<1>2. PICK k \in S : \A x \in S : k <= x
  <2>1. S \subseteq Nat
    BY SMT
  <2> QED BY <2>1, Least
<1>3. k \in Nat /\ k \in 0..n
  BY <1>2, SMT
<1>4. Totals(t)[k] = Add(t, Totals(t), k) /\ Totals(s)[k] = Add(s, Totals(s), k)
  BY <1>3, TotalsAre
<1>5. CASE k = 0
  BY <1>2, <1>4, <1>5 DEF Add
<1>6. CASE k # 0
  <2>1. k \in 1..n /\ k - 1 \in 0..n /\ ~(k <= k - 1)
    BY <1>3, <1>6, SMT
  <2>2. Totals(t)[k - 1] = Totals(s)[k - 1] /\ t[k] = s[k]
    BY <1>2, <2>1
  <2> QED BY <1>2, <1>4, <2>2 DEF Add
<1> QED BY <1>5, <1>6

\* A total is a number, 0 of nothing.
LEMMA TotalNat ==
    ASSUME NEW s \in Seq(Nat)
    PROVE  Total(s) \in Nat /\ (s = << >> => Total(s) = 0)
<1>1. Len(s) \in Nat /\ Len(s) \in 0..Len(s) /\ \A k \in 1..Len(s) : s[k] \in Nat
  BY SMT
<1>2. s = << >> => Len(s) = 0
  BY SMT
<1>3. Len(s) = 0 => Totals(s)[Len(s)] = 0
  BY <1>1, TotalsAre DEF Add
<1> QED BY <1>1, <1>2, <1>3, TotalsNat DEF Total

\* One more number is added.
LEMMA TotalAppend ==
    ASSUME NEW s \in Seq(Nat), NEW x \in Nat
    PROVE  Total(Append(s, x)) = Total(s) + x
<1> PICK n : n = Len(s)
  OBVIOUS
<1> PICK t : t = Append(s, x)
  OBVIOUS
<1>1. n \in Nat /\ n + 1 \in Nat /\ n + 1 # 0 /\ (n + 1) - 1 = n
  BY SMT
<1>2. Len(t) = n + 1 /\ t[n + 1] = x /\ \A k \in 1..n : t[k] = s[k]
  BY SMT
<1>3. Totals(t)[n] = Totals(s)[n]
  BY <1>1, <1>2, TotalsSame
<1>4. Totals(t)[n + 1] = Totals(t)[n] + x
  <2>1. Totals(t)[n + 1] = Add(t, Totals(t), n + 1)
    BY <1>1, TotalsAre
  <2> QED BY <1>1, <1>2, <2>1, Zenon DEF Add
<1> QED BY <1>2, <1>3, <1>4 DEF Total

-----------------------------------------------------------------------------
(* Sequences one after the other. *)

\* The recursion of Flattened, cut off after n.
AddOn(s, f, k) == IF k = 0 THEN << >> ELSE f[k - 1] \o s[k]
FlatUpTo(s, n, f) == f = [k \in 0..n |-> AddOn(s, f, k)]

\* Two functions that follow the recursion agree as far as both go.
LEMMA FlatUnique ==
    ASSUME NEW s, NEW n \in Nat, NEW m \in Nat, n <= m,
           NEW f, FlatUpTo(s, n, f), NEW g, FlatUpTo(s, m, g)
    PROVE  \A k \in 0..n : f[k] = g[k]
<1> DEFINE S == {k \in 0..n : f[k] # g[k]}
<1> SUFFICES ASSUME S # {} PROVE FALSE
  OBVIOUS
<1>1. PICK k \in S : \A x \in S : k <= x
  <2>1. S \subseteq Nat
    BY SMT
  <2> QED BY <2>1, Least
<1>2. k \in 0..n /\ k \in 0..m /\ k \in Nat
  BY <1>1, SMT
<1>3. f[k] = AddOn(s, f, k) /\ g[k] = AddOn(s, g, k)
  BY <1>2 DEF FlatUpTo
<1>4. CASE k = 0
  BY <1>1, <1>3, <1>4 DEF AddOn
<1>5. CASE k # 0
  <2>1. k - 1 \in 0..n /\ ~(k <= k - 1)
    BY <1>2, <1>5, SMT
  <2>2. f[k - 1] = g[k - 1]
    BY <1>1, <2>1
  <2> QED BY <1>1, <1>3, <2>2 DEF AddOn
<1> QED BY <1>4, <1>5

\* For every n there is one.
LEMMA FlatExists ==
    ASSUME NEW s
    PROVE  \A n \in Nat : \E f : FlatUpTo(s, n, f)
<1> DEFINE S == {n \in Nat : ~\E f : FlatUpTo(s, n, f)}
<1> SUFFICES ASSUME S # {} PROVE FALSE
  OBVIOUS
<1>1. PICK n \in S : \A x \in S : n <= x
  BY Least
<1>2. CASE n = 0
  <2> DEFINE f == [k \in 0..0 |-> << >>]
  <2>1. \A k \in 0..0 : k = 0
    BY SMT
  <2>2. f = [k \in 0..0 |-> AddOn(s, f, k)]
    BY <2>1 DEF AddOn
  <2> QED BY <1>1, <1>2, <2>2 DEF FlatUpTo
<1>3. CASE n # 0
  <2>1. n - 1 \in Nat /\ ~(n <= n - 1)
    BY <1>3, SMT
  <2>2. PICK g : FlatUpTo(s, n - 1, g)
    BY <1>1, <2>1
  <2> DEFINE f == [k \in 0..n |-> IF k = n THEN AddOn(s, g, n) ELSE g[k]]
  <2>3. \A k \in 0..n : k # 0 => k - 1 \in 0..n /\ k - 1 # n
    BY SMT
  <2>4. \A k \in 0..n : k # 0 => f[k - 1] = g[k - 1]
    BY <2>3
  <2>5. \A k \in 0..n : AddOn(s, f, k) = AddOn(s, g, k)
    BY <2>4 DEF AddOn
  <2>6. \A k \in 0..n : k # n => k \in 0..(n - 1)
    BY SMT
  <2>7. \A k \in 0..n : k # n => g[k] = AddOn(s, g, k)
    BY <2>2, <2>6 DEF FlatUpTo
  <2>8. f = [k \in 0..n |-> AddOn(s, f, k)]
    BY <2>5, <2>7
  <2>9. FlatUpTo(s, n, f)
    BY <2>8 DEF FlatUpTo
  <2> QED BY <1>1, <2>9
<1> QED BY <1>2, <1>3

\* Flattened is the function that its definition says it is.
LEMMA FlattenedIs ==
    ASSUME NEW s
    PROVE  \A n \in Nat : Flattened(s)[n] = AddOn(s, Flattened(s), n)
<1> DEFINE Upto(n) == CHOOSE f : FlatUpTo(s, n, f)
           whole == [n \in Nat |-> Upto(n)[n]]
<1>1. \A n \in Nat : FlatUpTo(s, n, Upto(n))
  BY FlatExists
<1> HIDE DEF Upto
<1>2. ASSUME NEW n \in Nat
      PROVE  whole[n] = AddOn(s, whole, n)
  <2>1. n \in 0..n
    BY SMT
  <2>2. whole[n] = AddOn(s, Upto(n), n)
    BY <1>1, <2>1 DEF FlatUpTo
  <2>3. CASE n = 0
    BY <2>2, <2>3 DEF AddOn
  <2>4. CASE n # 0
    <3>1. n - 1 \in Nat /\ n - 1 <= n /\ n - 1 \in 0..(n - 1)
      BY <2>4, SMT
    <3>2. Upto(n)[n - 1] = Upto(n - 1)[n - 1]
      BY <1>1, <3>1, FlatUnique
    <3>3. whole[n - 1] = Upto(n)[n - 1]
      BY <3>1, <3>2
    <3> QED BY <2>2, <3>3 DEF AddOn
  <2> QED BY <2>3, <2>4
<1>3. whole = [n \in Nat |-> AddOn(s, whole, n)]
  BY <1>2
<1> HIDE DEF whole
<1> DEFINE flat == CHOOSE f : f = [n \in Nat |-> AddOn(s, f, n)]
<1>4. flat = [n \in Nat |-> AddOn(s, flat, n)]
  BY <1>3
<1>5. Flattened(s) = flat
  BY DEF Flattened, AddOn
<1> QED BY <1>4, <1>5

\* The first ones do not depend on what comes later.
LEMMA FlattenedSame ==
    ASSUME NEW s, NEW t, NEW n \in Nat, \A k \in 1..n : t[k] = s[k]
    PROVE  Flattened(t)[n] = Flattened(s)[n]
<1> DEFINE S == {k \in 0..n : Flattened(t)[k] # Flattened(s)[k]}
<1>1. n \in 0..n
  BY SMT
<1> SUFFICES ASSUME S # {} PROVE FALSE
  BY <1>1
<1>2. PICK k \in S : \A x \in S : k <= x
  <2>1. S \subseteq Nat
    BY SMT
  <2> QED BY <2>1, Least
<1>3. k \in Nat /\ k \in 0..n
  BY <1>2, SMT
<1>4. Flattened(t)[k] = AddOn(t, Flattened(t), k) /\ Flattened(s)[k] = AddOn(s, Flattened(s), k)
  BY <1>3, FlattenedIs
<1>5. CASE k = 0
  BY <1>2, <1>4, <1>5 DEF AddOn
<1>6. CASE k # 0
  <2>1. k \in 1..n /\ k - 1 \in 0..n /\ ~(k <= k - 1)
    BY <1>3, <1>6, SMT
  <2>2. Flattened(t)[k - 1] = Flattened(s)[k - 1] /\ t[k] = s[k]
    BY <1>2, <2>1
  <2> QED BY <1>2, <1>4, <2>2 DEF AddOn
<1> QED BY <1>5, <1>6

\* Nothing, one after the other.
LEMMA FlattenNothing == Flatten(<< >>) = << >>
<1>1. Len(<< >>) = 0 /\ 0 \in Nat
  BY SMT
<1> QED BY <1>1, FlattenedIs DEF Flatten, AddOn

\* One more sequence comes last.
LEMMA FlattenAppend ==
    ASSUME NEW S, NEW s \in Seq(S), NEW x
    PROVE  Flatten(Append(s, x)) = Flatten(s) \o x
<1> PICK n : n = Len(s)
  OBVIOUS
<1> PICK t : t = Append(s, x)
  OBVIOUS
<1>1. n \in Nat /\ n + 1 \in Nat /\ n + 1 # 0 /\ (n + 1) - 1 = n
  BY SMT
<1>2. Len(t) = n + 1 /\ t[n + 1] = x /\ \A k \in 1..n : t[k] = s[k]
  BY SMT
<1>3. Flattened(t)[n] = Flattened(s)[n]
  BY <1>1, <1>2, FlattenedSame
<1>4. Flattened(t)[n + 1] = Flattened(t)[n] \o x
  BY <1>1, <1>2, FlattenedIs DEF AddOn
<1> QED BY <1>2, <1>3, <1>4 DEF Flatten

\* Up to any place, they are a sequence.
LEMMA FlattenedType ==
    ASSUME NEW S, NEW s \in Seq(Seq(S))
    PROVE  \A k \in 0..Len(s) : Flattened(s)[k] \in Seq(S)
<1> DEFINE Bad == {k \in 0..Len(s) : Flattened(s)[k] \notin Seq(S)}
<1>1. Len(s) \in Nat
  BY SMT
<1> SUFFICES ASSUME Bad # {} PROVE FALSE
  OBVIOUS
<1>2. PICK k \in Bad : \A x \in Bad : k <= x
  <2>1. Bad \subseteq Nat
    BY SMT
  <2> QED BY <2>1, Least
<1>3. k \in Nat /\ k \in 0..Len(s)
  BY <1>1, <1>2, SMT
<1>4. Flattened(s)[k] = AddOn(s, Flattened(s), k)
  BY <1>3, FlattenedIs
<1>5. CASE k = 0
  <2>1. << >> \in Seq(S)
    BY SMT
  <2> QED BY <1>2, <1>4, <1>5, <2>1 DEF AddOn
<1>6. CASE k # 0
  <2>1. k - 1 \in 0..Len(s) /\ ~(k <= k - 1) /\ s[k] \in Seq(S)
    BY <1>1, <1>3, <1>6, SMT
  <2>2. Flattened(s)[k - 1] \in Seq(S)
    BY <1>2, <2>1
  <2>3. Flattened(s)[k - 1] \o s[k] \in Seq(S)
    BY <2>1, <2>2, SMT
  <2> QED BY <1>2, <1>4, <1>6, <2>3 DEF AddOn
<1> QED BY <1>5, <1>6

\* All of them are, too.
LEMMA FlattenType ==
    ASSUME NEW S, NEW s \in Seq(Seq(S))
    PROVE  Flatten(s) \in Seq(S)
<1>1. Len(s) \in Nat /\ Len(s) \in 0..Len(s)
  BY SMT
<1> QED BY <1>1, FlattenedType DEF Flatten
=============================================================================
