-------------------------- MODULE SmControlProofs --------------------------
(***************************************************************************)
(* Proofs about SmControl, for any files, memory sizes, names, numbers of  *)
(* loads and of failures, and any linked modules.                          *)
(***************************************************************************)
EXTENDS SmControl, SubsequenceProofs, SequenceTheorems

-----------------------------------------------------------------------------
(* What Keep keeps, and where it stood. *)

\* t is what the first n of s have at the places of K; at says where each
\* element stood.
Places(t, s, K, n, at) ==
    /\ \A j \in 1..Len(t) : at[j] \in K /\ at[j] \in 1..n /\ t[j] = s[at[j]]
    /\ \A j, k \in 1..Len(t) : j < k => at[j] < at[k]
    /\ \A x \in 1..n : x \in K => \E j \in 1..Len(t) : at[j] = x

\* One more element.
LEMMA PlacesStep ==
    ASSUME NEW S, NEW t \in Seq(S), NEW s, NEW K, NEW n \in Nat, n # 0,
           NEW at, Places(t, s, K, n - 1, at), NEW e \in S, e = s[n]
    PROVE  \E to : Places(IF n \in K THEN Append(t, e) ELSE t, s, K, n, to)
<1>1. Len(t) \in Nat
  BY LenProperties
<1>2. n \in 1..n /\ (\A x \in 1..n : x = n \/ x \in 1..(n - 1)) /\ \A x \in 1..(n - 1) : x \in 1..n /\ x < n
  BY SMT
<1>3. CASE n \notin K
  <2>1. Places(t, s, K, n, at)
    BY <1>2, <1>3 DEF Places
  <2> QED BY <1>3, <2>1
<1>4. CASE n \in K
  <2> PICK l \in Nat : l = Len(t)
    BY <1>1
  <2> PICK u : u = Append(t, e)
    OBVIOUS
  <2>1. Len(u) = l + 1 /\ u[l + 1] = e /\ \A j \in 1..l : u[j] = t[j]
    BY AppendProperties
  <2>2. /\ l + 1 \in 1..(l + 1) /\ \A j \in 1..(l + 1) : j = l + 1 \/ j \in 1..l
        /\ \A j \in 1..l : j \in 1..(l + 1) /\ j # l + 1 /\ ~(l + 1 < j)
        /\ ~(l + 1 < l + 1)
    BY SMT
  <2> PICK to : to = [j \in 1..(l + 1) |-> IF j = l + 1 THEN n ELSE at[j]]
    OBVIOUS
  <2>3. to[l + 1] = n /\ \A j \in 1..l : to[j] = at[j]
    BY <2>2
  <2>4. \A j \in 1..(l + 1) : to[j] \in K /\ to[j] \in 1..n /\ u[j] = s[to[j]]
    BY <1>2, <1>4, <2>1, <2>2, <2>3 DEF Places
  <2>5. \A j, k \in 1..(l + 1) : j < k => to[j] < to[k]
    BY <1>2, <2>2, <2>3 DEF Places
  <2>6. \A x \in 1..n : x \in K => \E j \in 1..(l + 1) : to[j] = x
    BY <1>2, <2>2, <2>3 DEF Places
  <2>7. Places(u, s, K, n, to)
    BY <2>1, <2>4, <2>5, <2>6 DEF Places
  <2> QED BY <1>4, <2>7
<1> QED BY <1>3, <1>4

\* What is kept keeps its order, and nothing at a place in K is left out.
LEMMA KeepPlaces ==
    ASSUME NEW S, NEW s \in Seq(S), NEW K
    PROVE  Keep(s, K) \in Seq(S) /\ \E at : Places(Keep(s, K), s, K, Len(s), at)
<1>1. Len(s) \in Nat /\ Len(s) \in 0..Len(s)
  BY LenProperties, SMT
<1> DEFINE Good(k) == Kept(s, K)[k] \in Seq(S) /\ \E at : Places(Kept(s, K)[k], s, K, k, at)
           Bad == {k \in 0..Len(s) : ~Good(k)}
<1> SUFFICES ASSUME Bad # {} PROVE FALSE
  BY <1>1 DEF Keep
<1>2. PICK k \in Bad : \A x \in Bad : k <= x
  <2>1. Bad \subseteq Nat
    BY SMT
  <2> QED BY <2>1, Least
<1>3. k \in Nat /\ k \in 0..Len(s)
  BY <1>1, <1>2, SMT
<1>4. Kept(s, K)[k] = Step(s, K, Kept(s, K), k)
  BY <1>3, KeptIs
<1>5. CASE k = 0
  <2>1. << >> \in Seq(S) /\ Len(<< >>) = 0 /\ 1..0 = {}
    BY SMT
  <2> PICK at : at = << >>
    OBVIOUS
  <2>2. Places(<< >>, s, K, 0, at)
    BY <2>1 DEF Places
  <2> QED BY <1>2, <1>4, <1>5, <2>1, <2>2 DEF Step
<1>6. CASE k # 0
  <2>1. k - 1 \in 0..Len(s) /\ ~(k <= k - 1) /\ k \in 1..Len(s)
    BY <1>1, <1>3, <1>6, SMT
  <2>2. Good(k - 1) /\ s[k] \in S
    BY <1>2, <2>1, ElementOfSeq
  <2> PICK t : t = Kept(s, K)[k - 1]
    OBVIOUS
  <2> PICK at : Places(t, s, K, k - 1, at)
    BY <2>2
  <2>3. Kept(s, K)[k] = IF k \in K THEN Append(t, s[k]) ELSE t
    BY <1>4, <1>6 DEF Step
  <2>4. \E to : Places(IF k \in K THEN Append(t, s[k]) ELSE t, s, K, k, to)
    BY <1>3, <1>6, <2>2, PlacesStep
  <2>5. Kept(s, K)[k] \in Seq(S)
    BY <2>2, <2>3, AppendProperties
  <2> QED BY <1>2, <2>3, <2>4, <2>5
<1> QED BY <1>5, <1>6

\* Whether i is the place of the first symbol with a name.
IsFirst(table, name, i) == i \in Named(table, name) /\ \A k \in Named(table, name) : i <= k

\* Whether the first symbol with a name is s.
FirstAt(table, name, s) == \E i : IsFirst(table, name, i) /\ table[i] = s

\* There is at most one.
LEMMA FirstOnly ==
    ASSUME NEW S, NEW table \in Seq(S), NEW name, NEW i, IsFirst(table, name, i)
    PROVE  FirstNamed(table, name) = {table[i]}
<1>1. DOMAIN table = 1..Len(table)
  BY LenProperties
<1>2. \A j \in Named(table, name) : j \in Int
  BY <1>1, SMT DEF Named
<1>3. \A j \in Named(table, name) : i <= j /\ j <= i => j = i
  BY <1>2, SMT DEF IsFirst
<1> QED BY <1>3 DEF IsFirst, FirstNamed

\* If there are any, there is a first.
LEMMA FirstIs ==
    ASSUME NEW S, NEW table \in Seq(S), NEW name, Named(table, name) # {}
    PROVE  \E i : IsFirst(table, name, i)
<1>1. DOMAIN table = 1..Len(table) /\ Len(table) \in Nat
  BY LenProperties
<1>2. Named(table, name) \subseteq Nat
  BY <1>1, SMT DEF Named
<1> QED BY <1>2, Least DEF IsFirst

\* A symbol that is added comes after all others.
LEMMA FirstStays ==
    ASSUME NEW S, NEW table \in Seq(S), NEW name, NEW i, IsFirst(table, name, i), NEW e \in S
    PROVE  FirstAt(Append(table, e), name, table[i])
<1> PICK l \in Nat : l = Len(table)
  BY LenProperties
<1> PICK t : t = Append(table, e)
  OBVIOUS
<1>1. /\ DOMAIN table = 1..l /\ DOMAIN t = 1..(l + 1) /\ \A j \in 1..l : t[j] = table[j]
  BY AppendProperties, LenProperties
<1>2. \A j \in 1..(l + 1) : j \in 1..l \/ j = l + 1
  BY SMT
<1>3. \A j \in 1..l : j \in 1..(l + 1) /\ j <= l + 1
  BY SMT
<1>4. i \in 1..l /\ t[i] = table[i] /\ i <= l + 1 /\ i \in Named(t, name)
  BY <1>1, <1>3 DEF IsFirst, Named
<1>5. ASSUME NEW k \in Named(t, name) PROVE i <= k
  <2>1. CASE k = l + 1
    BY <1>4, <2>1
  <2>2. CASE k \in 1..l
    BY <1>1, <2>2 DEF IsFirst, Named
  <2> QED BY <1>1, <1>2, <2>1, <2>2 DEF Named
<1> QED BY <1>4, <1>5 DEF IsFirst, FirstAt

\* A symbol that is kept stays the first of its name.
LEMMA FirstKept ==
    ASSUME NEW S, NEW table \in Seq(S), NEW name, NEW i, IsFirst(table, name, i), NEW K, i \in K
    PROVE  FirstAt(Keep(table, K), name, table[i])
<1> PICK t, at : t \in Seq(S) /\ t = Keep(table, K) /\ Places(t, table, K, Len(table), at)
  BY KeepPlaces
<1>1. /\ DOMAIN table = 1..Len(table) /\ DOMAIN t = 1..Len(t) /\ Len(t) \in Nat
      /\ Len(table) \in Nat
  BY LenProperties
<1>2. i \in 1..Len(table) /\ i \in K
  BY <1>1 DEF IsFirst, Named
<1> PICK j \in 1..Len(t) : at[j] = i
  BY <1>2 DEF Places
<1>3. j \in Named(t, name) /\ t[j] = table[i]
  BY <1>1 DEF Places, Named, IsFirst
<1>4. ASSUME NEW k \in Named(t, name) PROVE j <= k
  <2>1. k \in 1..Len(t) /\ at[k] \in 1..Len(table) /\ at[k] \in Named(table, name)
    BY <1>1 DEF Named, Places
  <2>2. i <= at[k]
    BY <2>1 DEF IsFirst
  <2>3. k < j => at[k] < i
    BY <2>1 DEF Places
  <2> QED BY <1>1, <1>2, <2>1, <2>2, <2>3, SMT
<1> QED BY <1>3, <1>4 DEF IsFirst, FirstAt

-----------------------------------------------------------------------------
(* Where sections lie. *)

\* The next multiple.
LEMMA NextMultiple ==
    ASSUME NEW x \in Nat, NEW m \in Nat, m > 0, x % m # 0
    PROVE  (x + (m - (x % m))) % m = 0
<1> PICK q \in Int, r \in Int : q = x \div m /\ r = x % m
  BY SMT
<1>1. x = m * q + r /\ 0 <= r /\ r < m
  BY SMT
<1> PICK y \in Int : y = x + (m - r)
  BY SMT
<1>2. y = m * (q + 1)
  <2>1. m * (q + 1) = m * q + m
    BY SMT
  <2> PICK z \in Int : z = m * q
    BY SMT
  <2> QED BY <1>1, <2>1, SMT
<1> PICK p \in Int, k \in Int : p = y \div m /\ k = y % m
  BY SMT
<1>3. y = m * p + k /\ 0 <= k /\ k < m
  BY SMT
<1> PICK d \in Int : d = q + 1 - p
  BY SMT
<1>4. k = m * d
  <2>1. m * (q + 1) = m * p + m * d
    <3>1. q + 1 = p + d
      BY SMT
    <3>2. m * (p + d) = m * p + m * d
      BY SMT
    <3> QED BY <3>1, <3>2
  <2> PICK z \in Int, w \in Int : z = m * p /\ w = m * d
    BY SMT
  <2> QED BY <1>2, <1>3, <2>1, SMT
<1>5. d <= 0
  <2> SUFFICES ASSUME d > 0 PROVE FALSE
    BY SMT
  <2> PICK c \in Nat : d = c + 1
    <3>1. d - 1 \in Nat /\ d = (d - 1) + 1
      BY SMT
    <3> QED BY <3>1
  <2>1. m * (c + 1) = m * c + m /\ m * c \in Nat
    BY SMT
  <2> PICK z \in Nat : z = m * c
    BY <2>1
  <2> QED BY <1>3, <1>4, <2>1, SMT
<1>6. d >= 0
  <2> SUFFICES ASSUME d < 0 PROVE FALSE
    BY SMT
  <2> PICK c \in Nat : d = 0 - (c + 1)
    <3>1. 0 - d - 1 \in Nat /\ d = 0 - ((0 - d - 1) + 1)
      BY SMT
    <3> QED BY <3>1
  <2>1. m * d = 0 - (m * c + m) /\ m * c \in Nat
    BY SMT
  <2> PICK z \in Nat : z = m * c
    BY <2>1
  <2> QED BY <1>3, <1>4, <2>1, SMT
<1>7. d = 0
  BY <1>5, <1>6, SMT
<1>8. k = 0
  BY <1>4, <1>7, SMT
<1> QED BY <1>8

\* The extra space that load_sections provides for an alignment.
Extra(a) == IF a <= 1 THEN 0 ELSE a - 1

\* An aligned address is not below, and at most alignment - 1 above.
LEMMA AlignedUp ==
    ASSUME NEW ptr \in Nat, NEW a \in Nat, NEW x, x = align_up(ptr, a)
    PROVE  /\ x \in Nat /\ ptr <= x /\ x <= ptr + Extra(a) /\ Extra(a) \in Nat
           /\ a # 0 => x % a = 0
<1>1. ptr <= ptr + Extra(a) /\ Extra(a) \in Nat
  BY SMT DEF Extra
<1>2. CASE a = 0 \/ ptr % a = 0
  <2>1. x = ptr
    BY <1>2 DEF align_up
  <2> QED BY <1>1, <1>2, <2>1, SMT
<1>3. CASE ~(a = 0 \/ ptr % a = 0)
  <2>1. a > 0
    BY <1>3, SMT
  <2>2. (ptr + (a - (ptr % a))) % a = 0
    BY <1>3, <2>1, NextMultiple
  <2> PICK r \in Int : r = ptr % a
    BY <2>1, SMT
  <2>3. r \in 0..(a - 1) /\ r # 0
    BY <1>3, <2>1, SMT
  <2>4. ptr + (a - r) \in Nat /\ ptr <= ptr + (a - r) /\ ptr + (a - r) <= ptr + Extra(a)
    BY <2>1, <2>3, SMT DEF Extra
  <2>5. x = ptr + (a - r)
    BY <1>3 DEF align_up
  <2> QED BY <1>1, <2>2, <2>4, <2>5
<1> QED BY <1>2, <1>3

\* What a section takes of its block.
LEMMA SizesNat ==
    ASSUME NEW f \in Files, NEW in_pmem
    PROVE  /\ Len(f.sections) \in Nat /\ DOMAIN f.sections = 1..Len(f.sections)
           /\ DOMAIN AllocSizes(f.sections, in_pmem) = 1..Len(f.sections)
           /\ Len(AllocSizes(f.sections, in_pmem)) = Len(f.sections)
           /\ \A i \in 1..Len(f.sections) :
                 /\ AllocSizes(f.sections, in_pmem)[i] \in Nat
                 /\ f.sections[i] \in ToSet(f.sections)
                 /\ f.sections[i].size \in Nat /\ f.sections[i].align \in Nat
<1>1. f.sections \in Seq(ToSet(f.sections))
  BY SmControlAssumption DEF WellFormed
<1>2. Len(f.sections) \in Nat /\ DOMAIN f.sections = 1..Len(f.sections)
  BY <1>1, LenProperties
<1>3. ASSUME NEW i \in 1..Len(f.sections)
      PROVE  /\ f.sections[i] \in ToSet(f.sections)
             /\ f.sections[i].size \in Nat /\ f.sections[i].align \in Nat
  <2>1. f.sections[i] \in ToSet(f.sections)
    BY <1>1, ElementOfSeq
  <2> QED BY <2>1, SmControlAssumption DEF WellFormed
<1>4. ASSUME NEW i \in 1..Len(f.sections)
      PROVE  AllocSizes(f.sections, in_pmem)[i] \in Nat
  <2>1. get_alloc_size(f.sections[i]) \in Nat
    BY <1>3, SMT DEF get_alloc_size
  <2> QED BY <1>2, <2>1, SMT DEF AllocSizes
<1>5. DOMAIN AllocSizes(f.sections, in_pmem) = 1..Len(f.sections)
  BY <1>2 DEF AllocSizes
<1>6. Len(AllocSizes(f.sections, in_pmem)) = Len(f.sections)
  <2>1. AllocSizes(f.sections, in_pmem) \in Seq(Nat)
    <3>1. AllocSizes(f.sections, in_pmem) = [i \in 1..Len(f.sections) |-> AllocSizes(f.sections, in_pmem)[i]]
      BY <1>2 DEF AllocSizes
    <3> PICK z, n : n \in Nat /\ z = AllocSizes(f.sections, in_pmem) /\ n = Len(f.sections)
      BY <1>2
    <3>2. z = [i \in 1..n |-> z[i]] /\ \A i \in 1..n : z[i] \in Nat
      BY <1>4, <3>1
    <3>3. z \in [1..n -> Nat]
      BY <3>2
    <3> QED BY <3>3, SMT
  <2> QED BY <1>2, <1>5, <2>1, LenProperties, SMT
<1> QED BY <1>2, <1>3, <1>4, <1>5, <1>6

\* The size of a block is a number, not more than 16 bits.
LEMMA AllocSizeNat ==
    ASSUME NEW f \in Files, NEW b \in BOOLEAN
    PROVE  AllocSize(f.sections, b) \in Nat /\ AllocSize(f.sections, b) < Word
<1>1. AllocSize(f.sections, b) < Word
  BY SmControlAssumption DEF WellFormed
<1> PICK n, z : n \in Nat /\ n = Len(f.sections) /\ z = AllocSizes(f.sections, b)
  BY SizesNat
<1>2. \A k \in 1..n : z[k] \in Nat
  BY SizesNat
<1>3. n \in 0..n
  BY SMT
<1>4. Totals(z)[n] \in Nat
  BY <1>2, <1>3, TotalsNat
<1> QED BY <1>1, <1>4, SizesNat DEF AllocSize, Total

\* The share of section i in the block starts after those before it and ends
\* before those after it.
LEMMA Shares ==
    ASSUME NEW f \in Files, NEW b \in BOOLEAN, NEW t, t = Totals(AllocSizes(f.sections, b)),
           NEW i \in 1..Len(f.sections)
    PROVE  /\ t[i - 1] \in Nat /\ t[i] \in Nat /\ t[i] <= AllocSize(f.sections, b)
           /\ t[i - 1] + AllocSizes(f.sections, b)[i] <= t[i]
           /\ \A j \in 1..Len(f.sections) : i < j => t[i] <= t[j - 1]
<1> PICK n, z : n \in Nat /\ n = Len(f.sections) /\ z = AllocSizes(f.sections, b)
  BY SizesNat
<1>1. (\A k \in 1..n : z[k] \in Nat) /\ t = Totals(z) /\ i \in 1..n
  BY SizesNat
<1>2. t[i - 1] \in Nat /\ \A k \in i..n : t[k] \in Nat /\ t[i - 1] + z[i] <= t[k]
  BY <1>1, TotalsGrow
<1>3. i \in i..n /\ n \in i..n
  BY SMT
<1>4. AllocSize(f.sections, b) = t[n]
  BY SizesNat DEF AllocSize, Total
<1>5. t[i] = t[i - 1] + z[i]
  BY <1>1, TotalsAre, SMT DEF Add
<1>6. ASSUME NEW j \in 1..n, i < j PROVE t[i] <= t[j - 1]
  <2>1. j - 1 \in i..n
    BY <1>6, SMT
  <2> QED BY <1>2, <1>5, <2>1
<1> QED BY <1>2, <1>3, <1>4, <1>5, <1>6

\* The start of the block that a module has of one kind of memory.
Base(m, b) == IF b THEN m.pmem ELSE m.dmem

\* A loaded section lies in its share, aligned.
LEMMA AddressIs ==
    ASSUME NEW f \in Files, NEW m, NEW i \in 1..Len(f.sections),
           should_allocate(f.sections[i]),
           NEW b, b = should_allocate_pmem(f.sections[i]), Base(m, b) \in Nat,
           NEW a, a = Addresses(f.sections, m.pmem, m.dmem)[i],
           NEW t, t = Totals(AllocSizes(f.sections, b))
    PROVE  /\ a \in Nat /\ Base(m, b) + t[i - 1] <= a
           /\ a + f.sections[i].size <= Base(m, b) + t[i]
           /\ f.sections[i].align # 0 => a % f.sections[i].align = 0
<1> PICK start \in Nat : start = Base(m, b)
  OBVIOUS
<1>1. b \in BOOLEAN
  BY DEF should_allocate_pmem
<1>2. t[i - 1] \in Nat /\ t[i] \in Nat /\ t[i - 1] + AllocSizes(f.sections, b)[i] <= t[i]
  BY <1>1, Shares
<1> PICK sh : sh = f.sections[i]
  OBVIOUS
<1>3. sh.size \in Nat /\ sh.align \in Nat /\ i \in DOMAIN f.sections
  BY SizesNat
<1>4. AllocSizes(f.sections, b)[i] = sh.size + Extra(sh.align)
  BY <1>3 DEF AllocSizes, get_alloc_size, Extra
<1>5. a = align_up(start + t[i - 1], sh.align)
  BY <1>3 DEF Addresses, Base
<1> PICK x, y, size, al : /\ x = t[i - 1] /\ y = t[i] /\ size = sh.size /\ al = sh.align
                          /\ x \in Nat /\ y \in Nat /\ size \in Nat /\ al \in Nat
  BY <1>2, <1>3
<1> PICK ptr \in Nat : ptr = start + x
  BY SMT
<1>6. a = align_up(ptr, al)
  BY <1>5
<1>7. a \in Nat /\ ptr <= a /\ a <= ptr + Extra(al) /\ Extra(al) \in Nat /\ (al # 0 => a % al = 0)
  BY <1>6, AlignedUp, Zenon
<1>8. x + (size + Extra(al)) <= y
  BY <1>2, <1>4
<1>9. \A u, v, e, l, n, k \in Nat : u <= v + k + e /\ k + (l + e) <= n => u + l <= v + n
  BY SMT
<1>10. a + size <= start + y
  BY <1>7, <1>8, <1>9
<1> QED BY <1>7, <1>10

-----------------------------------------------------------------------------
(* The invariant, part by part. *)

IsSeq(s) == \E S : s \in Seq(S)

\* Where load_sections put a module: program memory from pmem below top, data
\* memory from dmem if there is any.
Placed(m, top) ==
    /\ m.addresses = Addresses(m.sections, m.pmem, m.dmem)
    /\ m.pmem \in Nat /\ DataEndRom <= m.pmem
    /\ m.pmem + AllocSize(m.sections, TRUE) <= top
    /\ \/ m.dmem = Null /\ AllocSize(m.sections, FALSE) = 0
       \/ m.dmem \in DmemBases

ModuleInv(m, top) ==
    /\ DOMAIN m = {"pmem", "dmem", "sections", "addresses", "words"}
    /\ \E f \in Files : m.sections = f.sections
    /\ \/ m.addresses = << >> /\ m.dmem = Null
       \/ Placed(m, top)

\* Two modules share no memory.
NoShare(m, n) ==
    /\ \/ m.pmem + AllocSize(m.sections, TRUE) <= n.pmem
       \/ n.pmem + AllocSize(n.sections, TRUE) <= m.pmem
    /\ \/ m.dmem = Null \/ n.dmem = Null
       \/ m.dmem + AllocSize(m.sections, FALSE) <= n.dmem
       \/ n.dmem + AllocSize(n.sections, FALSE) <= m.dmem

MemInv ==
    /\ heap \in DataEndRom..HEAP_END /\ heap % 2 = 0
    /\ \A e \in DOMAIN modules : ModuleInv(modules[e], heap)
    /\ \A e, g \in DOMAIN modules :
          (e # g /\ modules[e].addresses # << >> /\ modules[g].addresses # << >>)
              => NoShare(modules[e], modules[g])

\* The variables that are not tied to the phase.
BaseInv ==
    /\ IsSeq(symbols) /\ IsSeq(sm_list) /\ IsSeq(enabled)
    /\ \A i \in DOMAIN symbols :
          symbols[i].value \in Nat /\ symbols[i].is_section \in BOOLEAN
    /\ DOMAIN modules \subseteq ElfModules
    /\ failures \in 0..MaxFailures /\ loads \in 0..MaxLoads
    /\ smname \in SmNames \cup {Null}

\* What each phase of elf_load finds.
Loading == pc \in {"sections", "relocate", "symtab"}

PhaseInv ==
    /\ pc \in {"idle", "sections", "relocate", "symtab", "returned", "undefined"}
    /\ em \in DOMAIN modules \cup {Null} /\ file \in Files \cup {Null}
    /\ pc = "idle" => em = Null
    /\ Loading => /\ em \in DOMAIN modules /\ file \in Files
                  /\ modules[em].sections = file.sections
    /\ pc = "sections" => modules[em].addresses = << >> /\ modules[em].dmem = Null
    /\ pc \in {"relocate", "symtab"} => Placed(modules[em], heap)
    /\ step \in Nat \X Nat /\ step[1] # 0
    /\ pc \in {"sections", "relocate"} => step = FirstStep
    /\ (pc = "symtab" /\ step[1] <= Len(file.sections) /\ step[2] # 0) =>
          LET sh == file.sections[step[1]]
          IN sh.type = "SYMTAB" /\ step[2] \in 1..Len(sh.entries)

CoreInv == MemInv /\ BaseInv /\ PhaseInv

-----------------------------------------------------------------------------
(* Sequences of anything. *)

\* Places and length.
LEMMA SeqFacts ==
    ASSUME NEW s, IsSeq(s)
    PROVE  Len(s) \in Nat /\ DOMAIN s = 1..Len(s) /\ \E S : s \in Seq(S)
BY LenProperties DEF IsSeq

\* An element more.
LEMMA AppendFacts ==
    ASSUME NEW s, IsSeq(s), NEW e
    PROVE  /\ IsSeq(Append(s, e)) /\ Len(Append(s, e)) = Len(s) + 1 /\ Len(s) \in Nat
           /\ DOMAIN s = 1..Len(s) /\ DOMAIN Append(s, e) = 1..(Len(s) + 1)
           /\ \A i \in 1..(Len(s) + 1) : i = Len(s) + 1 \/ i \in 1..Len(s)
           /\ Append(s, e)[Len(s) + 1] = e /\ Len(s) + 1 \in 1..(Len(s) + 1)
           /\ \A i \in 1..Len(s) : Append(s, e)[i] = s[i] /\ i \in 1..(Len(s) + 1) /\ i # Len(s) + 1
           /\ \E S : s \in Seq(S) /\ e \in S
<1> PICK S : s \in Seq(S)
  BY DEF IsSeq
<1> PICK U : U = S \cup {e}
  OBVIOUS
<1>1. s \in Seq(U) /\ e \in U
  <2>1. S \subseteq U
    OBVIOUS
  <2> QED BY <2>1, SMT
<1> PICK n \in Nat : n = Len(s)
  BY LenProperties
<1> PICK t : t = Append(s, e)
  OBVIOUS
<1>2. t \in Seq(U) /\ Len(t) = n + 1 /\ t[n + 1] = e /\ \A i \in 1..n : t[i] = s[i]
  BY <1>1, AppendProperties
<1>3. DOMAIN s = 1..n /\ DOMAIN t = 1..(n + 1)
  BY <1>1, <1>2, LenProperties
<1>4. /\ \A i \in 1..(n + 1) : i = n + 1 \/ i \in 1..n
      /\ \A i \in 1..n : i \in 1..(n + 1) /\ i # n + 1
      /\ n + 1 \in 1..(n + 1)
  BY SMT
<1>5. IsSeq(t)
  BY <1>2 DEF IsSeq
<1> QED BY <1>1, <1>2, <1>3, <1>4, <1>5

\* What is left of a sequence is a sequence of some of its elements.
LEMMA KeepFacts ==
    ASSUME NEW s, IsSeq(s), NEW K, NEW t, t = Keep(s, K)
    PROVE  /\ IsSeq(t)
           /\ \A j \in DOMAIN t : \E i \in DOMAIN s : i \in K /\ t[j] = s[i]
<1> PICK S : s \in Seq(S)
  BY DEF IsSeq
<1>1. Keep(s, K) \in Seq(S) /\ \E at : Places(Keep(s, K), s, K, Len(s), at)
  BY KeepPlaces
<1>2. DOMAIN s = 1..Len(s) /\ DOMAIN Keep(s, K) = 1..Len(Keep(s, K))
  BY <1>1, LenProperties
<1> QED BY <1>1, <1>2 DEF Places, IsSeq

-----------------------------------------------------------------------------
(* Memory. *)

\* pmem_malloc does not wrap, and leaves the heap even.
LEMMA PmemMalloc ==
    ASSUME heap \in DataEndRom..HEAP_END, NEW size \in Nat, size < Word, pmem_malloc(size)
    PROVE  heap' \in DataEndRom..HEAP_END /\ heap' % 2 = 0 /\ heap + size <= heap'
<1>1. DataEndRom \in Nat /\ heap \in Nat /\ heap <= 65504 /\ DataEndRom <= heap
  BY PmemAssumption, SMT DEF HEAP_END
<1> PICK n \in Nat : n = (heap + size) % 65536
  BY <1>1, SMT
<1>2. n <= 65504 /\ n >= size /\ heap' = n + (n % 2)
  BY SMT DEF pmem_malloc, Refused, NewHeap, Word, HEAP_END
<1>3. n = heap + size
  BY <1>1, <1>2, SMT DEF Word
<1>4. n + (n % 2) <= 65504 /\ (n + (n % 2)) % 2 = 0 /\ n <= n + (n % 2) /\ n + (n % 2) \in Nat
  BY <1>2, SMT
<1> QED BY <1>1, <1>2, <1>3, <1>4, SMT DEF HEAP_END

\* The heap is an address.
LEMMA HeapNat ==
    ASSUME NEW h, h \in DataEndRom..HEAP_END
    PROVE  h \in Nat /\ DataEndRom \in Nat /\ DataEndRom <= h /\ h <= HEAP_END
BY PmemAssumption, SMT DEF HEAP_END

\* A module that is placed stays so as memory is used up.
LEMMA PlacedStays ==
    ASSUME NEW m, NEW n, NEW top \in Nat, NEW up \in Nat, top <= up,
           NEW f \in Files, m.sections = f.sections, n.sections = m.sections,
           n.addresses = m.addresses, n.pmem = m.pmem, n.dmem = m.dmem, Placed(m, top)
    PROVE  Placed(n, up)
<1> PICK z \in Nat : z = AllocSize(f.sections, TRUE)
  BY AllocSizeNat
<1>1. m.pmem \in Nat /\ m.pmem + z <= top
  BY DEF Placed
<1>2. \A a, b, c, d \in Nat : a + b <= c /\ c <= d => a + b <= d
  BY SMT
<1>3. m.pmem + z <= up
  BY <1>1, <1>2
<1> QED BY <1>3 DEF Placed

\* The memory of the modules stays as it is when no module is added and none
\* is moved.
LEMMA MemKept ==
    ASSUME MemInv, heap' \in DataEndRom..HEAP_END, heap' % 2 = 0, heap <= heap',
           \A e \in DOMAIN modules' :
               /\ e \in DOMAIN modules /\ DOMAIN modules'[e] = DOMAIN modules[e]
               /\ modules'[e].sections = modules[e].sections
               /\ modules'[e].addresses = modules[e].addresses
               /\ modules'[e].pmem = modules[e].pmem /\ modules'[e].dmem = modules[e].dmem
    PROVE  MemInv'
<1>1. heap \in Nat /\ heap' \in Nat
  BY HeapNat DEF MemInv
<1>2. ASSUME NEW e \in DOMAIN modules' PROVE ModuleInv(modules'[e], heap')
  <2>1. ModuleInv(modules[e], heap)
    BY DEF MemInv
  <2> PICK f \in Files : modules[e].sections = f.sections
    BY <2>1 DEF ModuleInv
  <2>2. Placed(modules[e], heap) => Placed(modules'[e], heap')
    BY <1>1, PlacedStays
  <2> QED BY <2>1, <2>2 DEF ModuleInv
<1>3. ASSUME NEW e \in DOMAIN modules', NEW g \in DOMAIN modules', e # g,
             modules'[e].addresses # << >>, modules'[g].addresses # << >>
      PROVE  NoShare(modules'[e], modules'[g])
  <2>1. NoShare(modules[e], modules[g])
    BY <1>3 DEF MemInv
  <2> QED BY <2>1 DEF NoShare
<1> QED BY <1>2, <1>3 DEF MemInv

\* A loaded section lies in its share of the block of its kind.
LEMMA LoadedIn ==
    ASSUME NEW m, NEW top, NEW f \in Files, m.sections = f.sections, Placed(m, top),
           NEW i \in 1..Len(f.sections), should_allocate(f.sections[i]),
           NEW b, b = should_allocate_pmem(f.sections[i]),
           NEW t, t = Totals(AllocSizes(f.sections, b))
    PROVE  /\ b \in BOOLEAN /\ Base(m, b) \in Nat /\ (~b => m.dmem \in DmemBases)
           /\ m.addresses[i] \in Nat /\ Base(m, b) + t[i - 1] <= m.addresses[i]
           /\ m.addresses[i] + f.sections[i].size <= Base(m, b) + t[i]
           /\ f.sections[i].align # 0 => m.addresses[i] % f.sections[i].align = 0
<1> PICK sh : sh = f.sections[i]
  OBVIOUS
<1>1. /\ i \in DOMAIN f.sections /\ m.addresses = Addresses(f.sections, m.pmem, m.dmem)
      /\ m.pmem \in Nat /\ sh.size \in Nat /\ sh.align \in Nat
  BY SizesNat DEF Placed
<1>2. b \in BOOLEAN
  BY DEF should_allocate_pmem
<1>3. ~b => m.dmem \in DmemBases
  <2> SUFFICES ASSUME ~b PROVE m.dmem \in DmemBases
    OBVIOUS
  <2>1. b = FALSE
    BY <1>2
  <2>2. /\ t[i - 1] \in Nat /\ t[i] \in Nat /\ t[i] <= AllocSize(f.sections, FALSE)
        /\ t[i - 1] + AllocSizes(f.sections, FALSE)[i] <= t[i]
    BY <2>1, Shares
  <2>3. AllocSizes(f.sections, FALSE)[i] = sh.size + Extra(sh.align)
    BY <1>1, <2>1 DEF AllocSizes, get_alloc_size, Extra
  <2>4. Extra(sh.align) \in Nat /\ sh.size > 0
    BY <1>1, SMT DEF Extra, should_allocate
  <2> PICK x, y, z, u, v : /\ x = t[i - 1] /\ y = t[i] /\ z = AllocSize(f.sections, FALSE)
                           /\ u = sh.size /\ v = Extra(sh.align)
                           /\ x \in Nat /\ y \in Nat /\ z \in Nat /\ u \in Nat /\ v \in Nat
    BY <1>1, <2>2, <2>4, AllocSizeNat
  <2>5. y <= z /\ x + (u + v) <= y /\ u > 0
    BY <2>2, <2>3, <2>4
  <2>6. z # 0
    <3>1. \A k, l, n, w \in Nat : k + (n + w) <= l /\ n > 0 => ~(l <= 0)
      BY SMT
    <3> QED BY <2>5, <3>1
  <2> QED BY <2>6 DEF Placed
<1>4. Base(m, b) \in Nat
  BY <1>1, <1>2, <1>3, SmControlAssumption DEF Base
<1> PICK a : a = Addresses(f.sections, m.pmem, m.dmem)[i]
  OBVIOUS
<1>5. a \in Nat /\ Base(m, b) + t[i - 1] <= a
  BY <1>4, AddressIs
<1>6. /\ a + f.sections[i].size <= Base(m, b) + t[i]
      /\ f.sections[i].align # 0 => a % f.sections[i].align = 0
  BY <1>4, AddressIs
<1> QED BY <1>1, <1>2, <1>3, <1>4, <1>5, <1>6

\* The addresses of a module that is placed are numbers.
LEMMA AddressNat ==
    ASSUME NEW m, NEW top, NEW f \in Files, m.sections = f.sections, Placed(m, top),
           NEW i \in 1..Len(f.sections)
    PROVE  /\ m.addresses[i] \in Nat
           /\ DOMAIN m.addresses = 1..Len(f.sections)
           /\ m.addresses[i] # 0 => should_allocate(f.sections[i])
<1>1. /\ i \in DOMAIN f.sections /\ m.addresses = Addresses(f.sections, m.pmem, m.dmem)
      /\ DOMAIN f.sections = 1..Len(f.sections)
  BY SizesNat DEF Placed
<1>2. ~should_allocate(f.sections[i]) => m.addresses[i] = 0
  BY <1>1 DEF Addresses
<1>3. should_allocate(f.sections[i]) => m.addresses[i] \in Nat
  BY LoadedIn
<1>4. DOMAIN m.addresses = 1..Len(f.sections)
  BY <1>1 DEF Addresses
<1> QED BY <1>2, <1>3, <1>4

-----------------------------------------------------------------------------
(* Every action keeps CoreInv. *)

\* Allocations fail at most MaxFailures times.
LEMMA FailuresCount ==
    ASSUME failures \in 0..MaxFailures, Allocates \/ OutOfMemory
    PROVE  failures' \in 0..MaxFailures
<1>1. MaxFailures \in Nat
  BY SmControlAssumption
<1>2. CASE Allocates
  BY <1>2 DEF Allocates
<1>3. CASE OutOfMemory
  BY <1>1, <1>3, SMT DEF OutOfMemory
<1> QED BY <1>2, <1>3

\* When memory and modules are left alone.
LEMMA MemSame ==
    ASSUME MemInv, UNCHANGED <<heap, modules>>
    PROVE  MemInv'
BY DEF MemInv

\* The end of a load, whatever came of it.
LEMMA CoreIdle ==
    ASSUME CoreInv, Idle, UNCHANGED <<heap, symbols, modules, loads>>,
           failures' \in 0..MaxFailures, IsSeq(sm_list'), IsSeq(enabled')
    PROVE  CoreInv'
<1>1. MemInv'
  BY MemSame DEF CoreInv
<1>2. BaseInv'
  BY DEF CoreInv, BaseInv, Idle
<1>3. PhaseInv'
  BY DEF PhaseInv, Idle, FirstStep, Loading
<1> QED BY <1>1, <1>2, <1>3 DEF CoreInv

\* sm_load and elf_load begin.
LEMMA CoreStart ==
    ASSUME CoreInv, NEW f \in Files, NEW name \in SmNames \cup {Null}, StartLoad(f, name)
    PROVE  CoreInv'
<1>1. /\ elf_load(f) /\ pc = "idle" /\ file' = f /\ step' = FirstStep
      /\ UNCHANGED <<heap, symbols, sm_list, enabled>> /\ smname' = name
      /\ loads < MaxLoads /\ loads' = loads + 1
  BY DEF StartLoad, elf_load
<1>2. failures' \in 0..MaxFailures
  BY <1>1, FailuresCount DEF elf_load, CoreInv, BaseInv, Allocates
<1>3. loads' \in 0..MaxLoads
  <2>1. loads \in 0..MaxLoads /\ MaxLoads \in Nat
    BY SmControlAssumption DEF CoreInv, BaseInv
  <2> QED BY <1>1, <2>1, SMT
<1>4. step' \in Nat \X Nat /\ step'[1] = 1
  BY <1>1 DEF FirstStep
<1>5. CASE Return(Null) /\ UNCHANGED modules
  <2>1. MemInv'
    BY <1>1, <1>5, MemSame DEF CoreInv
  <2>2. BaseInv'
    BY <1>1, <1>2, <1>3, <1>5 DEF CoreInv, BaseInv
  <2>3. PhaseInv'
    BY <1>1, <1>4, <1>5 DEF PhaseInv, Return, Loading
  <2> QED BY <2>1, <2>2, <2>3 DEF CoreInv
<1>6. CASE ~(Return(Null) /\ UNCHANGED modules)
  <2> PICK e \in ElfModules \ DOMAIN modules :
          /\ em' = e /\ pc' = "sections"
          /\ modules' = [x \in DOMAIN modules \cup {e} |->
                 IF x = e THEN [pmem |-> 0, dmem |-> Null, sections |-> f.sections,
                                addresses |-> << >>, words |-> {}]
                 ELSE modules[x]]
    BY <1>1, <1>6 DEF elf_load
  <2>1. /\ DOMAIN modules' = DOMAIN modules \cup {e}
        /\ modules'[e].dmem = Null /\ modules'[e].sections = f.sections
        /\ modules'[e].addresses = << >>
        /\ DOMAIN modules'[e] = {"pmem", "dmem", "sections", "addresses", "words"}
        /\ \A x \in DOMAIN modules : x # e /\ modules'[x] = modules[x]
    OBVIOUS
  <2>2. MemInv'
    <3>1. \A x \in DOMAIN modules' : ModuleInv(modules'[x], heap')
      BY <1>1, <2>1 DEF CoreInv, MemInv, ModuleInv
    <3>2. \A x, y \in DOMAIN modules' :
             (x # y /\ modules'[x].addresses # << >> /\ modules'[y].addresses # << >>)
                 => NoShare(modules'[x], modules'[y])
      BY <2>1 DEF CoreInv, MemInv
    <3> QED BY <1>1, <3>1, <3>2 DEF CoreInv, MemInv
  <2>3. BaseInv'
    BY <1>1, <1>2, <1>3, <2>1 DEF CoreInv, BaseInv
  <2>4. PhaseInv'
    BY <1>1, <1>4, <2>1 DEF PhaseInv, Loading
  <2> QED BY <2>2, <2>3, <2>4 DEF CoreInv
<1> QED BY <1>5, <1>6

\* Registration appends to the list, and what the processor enables to its
\* table; sm_register_existing only to the list.
LEMMA CoreRegister ==
    ASSUME CoreInv, register_sm \/ sm_register_existing
    PROVE  CoreInv'
<1>1. CASE register_sm
  <2>1. IsSeq(sm_list') /\ IsSeq(enabled')
    BY <1>1, AppendFacts DEF register_sm, CoreInv, BaseInv
  <2>2. Idle /\ UNCHANGED <<heap, symbols, modules, loads>> /\ failures' \in 0..MaxFailures
    BY <1>1 DEF register_sm, CoreInv, BaseInv
  <2> QED BY <2>1, <2>2, CoreIdle
<1>2. CASE sm_register_existing
  <2>1. IsSeq(sm_list') /\ failures' \in 0..MaxFailures
    <3>1. IsSeq(sm_list) /\ failures \in 0..MaxFailures /\ \A e : IsSeq(Append(sm_list, e))
      BY AppendFacts DEF CoreInv, BaseInv
    <3> PICK id \in DOMAIN Existing :
            \/ Allocates /\ sm_list' = Append(sm_list, [id |-> id, em |-> Null, name |-> Null, from |-> {Null}])
            \/ OutOfMemory /\ UNCHANGED sm_list
      BY <1>2 DEF sm_register_existing
    <3>2. failures' \in 0..MaxFailures
      BY <3>1, FailuresCount
    <3> QED BY <3>1, <3>2
  <2>2. UNCHANGED <<heap, symbols, modules, pc, file, em, step, enabled, smname, held, orphans, loads>>
    BY <1>2 DEF sm_register_existing
  <2>3. MemInv'
    BY <2>2, MemSame DEF CoreInv
  <2>4. BaseInv'
    BY <2>1, <2>2 DEF CoreInv, BaseInv
  <2>5. PhaseInv'
    BY <2>2 DEF CoreInv, PhaseInv, Loading
  <2> QED BY <2>3, <2>4, <2>5 DEF CoreInv
<1> QED BY <1>1, <1>2

\* A load or a registration ends.
LEMMA CoreEnds ==
    ASSUME CoreInv, LoadFails \/ RegisterFails \/ ClientLoaded
    PROVE  CoreInv'
<1>1. Idle /\ UNCHANGED <<heap, symbols, modules, loads, sm_list, enabled>>
  BY DEF LoadFails, RegisterFails, ClientLoaded
<1>2. failures' \in 0..MaxFailures
  BY FailuresCount DEF LoadFails, RegisterFails, ClientLoaded, CoreInv, BaseInv, Allocates
<1> QED BY <1>1, <1>2, CoreIdle DEF CoreInv, BaseInv

\* What is left when a module is taken out.
LEMMA MemRemoved ==
    ASSUME MemInv, NEW e, modules' = Restrict(modules, DOMAIN modules \ {e}),
           heap' \in DataEndRom..HEAP_END, heap' % 2 = 0, heap <= heap'
    PROVE  /\ MemInv' /\ DOMAIN modules' = DOMAIN modules \ {e}
           /\ \A x \in DOMAIN modules' : x \in DOMAIN modules /\ modules'[x] = modules[x]
<1>1. /\ DOMAIN modules' = DOMAIN modules \ {e}
      /\ \A x \in DOMAIN modules' : x \in DOMAIN modules /\ modules'[x] = modules[x]
  BY DEF Restrict
<1> QED BY <1>1, MemKept

\* What is left of the symbols are some of them.
LEMMA SymbolsRemoved ==
    ASSUME BaseInv, NEW e, remove_global_symbols(e)
    PROVE  /\ IsSeq(symbols')
           /\ \A i \in DOMAIN symbols' :
                 \E j \in DOMAIN symbols : symbols'[i] = symbols[j] /\ symbols[j].owner # e
           /\ \A i \in DOMAIN symbols' :
                 symbols'[i].value \in Nat /\ symbols'[i].is_section \in BOOLEAN
<1> PICK K : K = {i \in DOMAIN symbols : symbols[i].owner # e}
  OBVIOUS
<1>1. symbols' = Keep(symbols, K) /\ IsSeq(symbols)
  BY DEF remove_global_symbols, BaseInv
<1>2. /\ IsSeq(symbols')
      /\ \A i \in DOMAIN symbols' : \E j \in DOMAIN symbols : j \in K /\ symbols'[i] = symbols[j]
  <2>1. IsSeq(symbols')
    BY <1>1, KeepFacts
  <2>2. \A i \in DOMAIN symbols' : \E j \in DOMAIN symbols : j \in K /\ symbols'[i] = symbols[j]
    BY <1>1, KeepFacts
  <2> QED BY <2>1, <2>2
<1>3. /\ IsSeq(symbols')
      /\ \A i \in DOMAIN symbols' :
            \E j \in DOMAIN symbols : symbols'[i] = symbols[j] /\ symbols[j].owner # e
  BY <1>2
<1> QED BY <1>3 DEF BaseInv

\* A client unloads a module.
LEMMA CoreUnloads ==
    ASSUME CoreInv, ClientUnloads
    PROVE  CoreInv'
<1> PICK e \in held : ~InUse(e) /\ elf_unload(e) /\ held' = held \ {e}
  BY DEF ClientUnloads
<1>1. UNCHANGED <<heap, pc, file, em, step, failures, sm_list, enabled, smname, orphans, loads>>
      /\ pc = "idle"
  BY DEF ClientUnloads
<1>2. MemInv' /\ DOMAIN modules' = DOMAIN modules \ {e}
  <2>1. heap' \in DataEndRom..HEAP_END /\ heap' % 2 = 0 /\ heap <= heap'
    <3>1. heap' \in DataEndRom..HEAP_END /\ heap' % 2 = 0
      BY <1>1 DEF CoreInv, MemInv
    <3>2. heap' \in Nat
      BY <3>1, HeapNat
    <3> QED BY <1>1, <3>1, <3>2, SMT
  <2> QED BY <2>1, MemRemoved DEF elf_unload, CoreInv
<1>3. BaseInv'
  BY <1>1, <1>2, SymbolsRemoved DEF CoreInv, BaseInv, elf_unload
<1>4. PhaseInv'
  BY <1>1, <1>2 DEF CoreInv, PhaseInv, Loading
<1> QED BY <1>2, <1>3, <1>4 DEF CoreInv

\* A module gets its place: load_sections takes program memory from the heap,
\* and data memory that no module has.
LEMMA MemPlaced ==
    ASSUME MemInv, em \in DOMAIN modules, NEW f \in Files, modules[em].sections = f.sections,
           pmem_malloc(AllocSize(f.sections, TRUE)),
           NEW d, \/ d = Null /\ AllocSize(f.sections, FALSE) = 0
                  \/ d \in FreeDmem(AllocSize(f.sections, FALSE)),
           modules' = [modules EXCEPT ![em].pmem = heap, ![em].dmem = d,
                                      ![em].addresses = Addresses(f.sections, heap, d)]
    PROVE  /\ MemInv' /\ DOMAIN modules' = DOMAIN modules
           /\ modules'[em].sections = f.sections /\ Placed(modules'[em], heap')
<1> PICK size \in Nat : size = AllocSize(f.sections, TRUE) /\ size < Word
  BY AllocSizeNat
<1>1. heap \in DataEndRom..HEAP_END /\ heap \in Nat /\ DataEndRom <= heap
  BY HeapNat DEF MemInv
<1>2. heap' \in DataEndRom..HEAP_END /\ heap' % 2 = 0 /\ heap + size <= heap'
  BY <1>1, PmemMalloc
<1>3. heap' \in Nat /\ heap <= heap'
  <2>1. heap' \in Nat
    BY <1>2, HeapNat
  <2>2. \A a, b, c \in Nat : a + b <= c => a <= c
    BY SMT
  <2> QED BY <1>1, <1>2, <2>1, <2>2
<1>4. /\ DOMAIN modules' = DOMAIN modules
      /\ modules'[em].sections = f.sections /\ modules'[em].pmem = heap
      /\ modules'[em].dmem = d /\ DOMAIN modules'[em] = DOMAIN modules[em]
      /\ modules'[em].addresses = Addresses(f.sections, heap, d)
      /\ \A e \in DOMAIN modules : e # em => modules'[e] = modules[e]
  <2> PICK m, a : m = modules[em] /\ a = Addresses(f.sections, heap, d)
    OBVIOUS
  <2>1. DOMAIN m = {"pmem", "dmem", "sections", "addresses", "words"} /\ m.sections = f.sections
    BY DEF MemInv, ModuleInv
  <2> PICK n : n = [m EXCEPT !.pmem = heap, !.dmem = d, !.addresses = a]
    OBVIOUS
  <2>2. DOMAIN n = DOMAIN m /\ n.pmem = heap /\ n.dmem = d /\ n.addresses = a /\ n.sections = m.sections
    BY <2>1
  <2>3. modules' = [modules EXCEPT ![em] = n]
    OBVIOUS
  <2> QED BY <2>1, <2>2, <2>3
<1>5. Placed(modules'[em], heap')
  BY <1>1, <1>2, <1>4 DEF Placed, FreeDmem
<1>6. ASSUME NEW e \in DOMAIN modules, e # em
      PROVE  /\ ModuleInv(modules[e], heap')
             /\ modules[e].addresses # << >> =>
                   NoShare(modules'[em], modules[e]) /\ NoShare(modules[e], modules'[em])
  <2> PICK g \in Files : modules[e].sections = g.sections
    BY DEF MemInv, ModuleInv
  <2>1. Placed(modules[e], heap) => Placed(modules[e], heap')
    BY <1>1, <1>3, PlacedStays
  <2>2. ModuleInv(modules[e], heap')
    BY <2>1 DEF MemInv, ModuleInv
  <2>3. ASSUME modules[e].addresses # << >>
        PROVE  NoShare(modules'[em], modules[e]) /\ NoShare(modules[e], modules'[em])
    <3>1. Placed(modules[e], heap)
      BY <2>3 DEF MemInv, ModuleInv
    <3>2. modules[e].pmem + AllocSize(modules[e].sections, TRUE) <= modules'[em].pmem
      BY <1>4, <3>1 DEF Placed
    <3>3. \/ modules'[em].dmem = Null \/ modules[e].dmem = Null
          \/ modules'[em].dmem + AllocSize(modules'[em].sections, FALSE) <= modules[e].dmem
          \/ modules[e].dmem + AllocSize(modules[e].sections, FALSE) <= modules'[em].dmem
      BY <1>4 DEF FreeDmem
    <3> QED BY <3>2, <3>3 DEF NoShare
  <2> QED BY <2>2, <2>3
<1>7. MemInv'
  <2>1. \A e \in DOMAIN modules' : ModuleInv(modules'[e], heap')
    BY <1>4, <1>5, <1>6 DEF MemInv, ModuleInv
  <2>2. \A e, g \in DOMAIN modules' :
          (e # g /\ modules'[e].addresses # << >> /\ modules'[g].addresses # << >>)
              => NoShare(modules'[e], modules'[g])
    BY <1>4, <1>6 DEF MemInv
  <2> QED BY <1>2, <2>1, <2>2 DEF MemInv
<1> QED BY <1>4, <1>5, <1>7

\* load_sections.
LEMMA CoreSections ==
    ASSUME CoreInv, load_sections, UNCHANGED smVars
    PROVE  CoreInv'
<1> PICK f \in Files : f = file /\ em \in DOMAIN modules /\ modules[em].sections = f.sections
  BY DEF load_sections, CoreInv, PhaseInv, Loading
<1> PICK p, d : p = AllocSize(f.sections, TRUE) /\ d = AllocSize(f.sections, FALSE)
  OBVIOUS
<1>1. p \in Nat /\ p < Word /\ d \in Nat
  BY AllocSizeNat
<1>2. heap \in DataEndRom..HEAP_END /\ heap % 2 = 0 /\ heap \in Nat /\ heap <= heap
  BY HeapNat, SMT DEF CoreInv, MemInv
<1>3. UNCHANGED <<symbols, file, step>> /\ UNCHANGED smVars /\ pc = "sections"
  BY DEF load_sections
<1>4. failures' \in 0..MaxFailures
  BY FailuresCount DEF load_sections, CoreInv, BaseInv
<1>5. ASSUME SectionsFail, heap' \in DataEndRom..HEAP_END, heap' % 2 = 0, heap <= heap'
      PROVE  CoreInv'
  <2>1. MemInv' /\ DOMAIN modules' = DOMAIN modules \ {em} /\ pc' = "returned" /\ em' = Null
    BY <1>5, MemRemoved DEF SectionsFail, Return, CoreInv
  <2>2. BaseInv'
    BY <1>3, <1>4, <2>1 DEF CoreInv, BaseInv, smVars
  <2>3. PhaseInv'
    BY <1>3, <2>1 DEF CoreInv, PhaseInv, Loading
  <2> QED BY <2>1, <2>2, <2>3 DEF CoreInv
<1>6. CASE SectionsFail /\ UNCHANGED heap
  BY <1>2, <1>5, <1>6
<1>7. CASE SectionsFail /\ pmem_malloc(p)
  <2>1. heap' \in DataEndRom..HEAP_END /\ heap' % 2 = 0 /\ heap + p <= heap'
    BY <1>1, <1>2, <1>7, PmemMalloc
  <2>2. heap' \in Nat
    BY <2>1, HeapNat
  <2>3. \A a, b, c \in Nat : a + b <= c => a <= c
    BY SMT
  <2> QED BY <1>1, <1>2, <1>5, <1>7, <2>1, <2>2, <2>3
<1>8. CASE ~SectionsFail
  <2>1. /\ pmem_malloc(p) /\ pc' = "relocate" /\ UNCHANGED em
        /\ \E dmem \in IF d > 0 THEN FreeDmem(d) ELSE {Null} :
              modules' = [modules EXCEPT
                  ![em].pmem = heap, ![em].dmem = dmem,
                  ![em].addresses = Addresses(f.sections, heap, dmem)]
    BY <1>8 DEF load_sections
  <2> PICK dmem \in IF d > 0 THEN FreeDmem(d) ELSE {Null} :
              modules' = [modules EXCEPT
                  ![em].pmem = heap, ![em].dmem = dmem,
                  ![em].addresses = Addresses(f.sections, heap, dmem)]
    BY <2>1
  <2>2. d > 0 \/ d = 0
    <3>1. \A n \in Nat : n > 0 \/ n = 0
      BY SMT
    <3> QED BY <1>1, <3>1
  <2>3. \/ dmem = Null /\ d = 0
        \/ dmem \in FreeDmem(d)
    BY <2>2
  <2>4. /\ MemInv' /\ DOMAIN modules' = DOMAIN modules
        /\ modules'[em].sections = f.sections /\ Placed(modules'[em], heap')
    BY <2>1, <2>3, MemPlaced DEF CoreInv
  <2>5. BaseInv'
    BY <1>3, <1>4, <2>4 DEF CoreInv, BaseInv, smVars
  <2>6. PhaseInv'
    BY <1>3, <2>1, <2>4 DEF CoreInv, PhaseInv, Loading
  <2> QED BY <2>4, <2>5, <2>6 DEF CoreInv
<1> QED BY <1>6, <1>7, <1>8 DEF load_sections

\* relocate_sections.
LEMMA CoreRelocate ==
    ASSUME CoreInv, relocate_sections, UNCHANGED smVars
    PROVE  CoreInv'
<1>1. UNCHANGED <<heap, file, step, failures>> /\ UNCHANGED smVars /\ pc = "relocate"
  BY DEF relocate_sections
<1>2. em \in DOMAIN modules /\ file \in Files /\ modules[em].sections = file.sections
  BY <1>1 DEF CoreInv, PhaseInv, Loading
<1>3. heap' \in DataEndRom..HEAP_END /\ heap' % 2 = 0 /\ heap <= heap'
  <2>1. heap \in DataEndRom..HEAP_END /\ heap % 2 = 0
    BY DEF CoreInv, MemInv
  <2>2. heap \in Nat
    BY <2>1, HeapNat
  <2> QED BY <1>1, <2>1, <2>2, SMT
<1> PICK ws : ws = Words(file.sections, modules[em].addresses)
  OBVIOUS
<1>4. CASE modules' = [modules EXCEPT ![em].words = ws] /\ pc' = "symtab" /\ UNCHANGED <<symbols, em>>
  <2>1. /\ DOMAIN modules' = DOMAIN modules
        /\ \A e \in DOMAIN modules :
              /\ DOMAIN modules'[e] = DOMAIN modules[e]
              /\ modules'[e].sections = modules[e].sections
              /\ modules'[e].addresses = modules[e].addresses
              /\ modules'[e].pmem = modules[e].pmem /\ modules'[e].dmem = modules[e].dmem
    BY <1>4
  <2>2. MemInv'
    BY <1>3, <2>1, MemKept DEF CoreInv
  <2>3. BaseInv'
    BY <1>1, <1>4, <2>1 DEF CoreInv, BaseInv, smVars
  <2>4. PhaseInv'
    <3>1. Placed(modules'[em], heap')
      BY <1>1, <1>2, <2>1 DEF CoreInv, PhaseInv, Placed
    <3>2. step' \in Nat \X Nat /\ step'[1] # 0 /\ step'[2] = 0
      BY <1>1 DEF CoreInv, PhaseInv, FirstStep
    <3> QED BY <1>1, <1>2, <1>4, <2>1, <3>1, <3>2 DEF CoreInv, PhaseInv, Loading
  <2> QED BY <2>2, <2>3, <2>4 DEF CoreInv
<1>5. CASE elf_unload(em) /\ Return(Null)
  <2>1. MemInv' /\ DOMAIN modules' = DOMAIN modules \ {em} /\ pc' = "returned" /\ em' = Null
    BY <1>3, <1>5, MemRemoved DEF elf_unload, Return, CoreInv
  <2>2. /\ IsSeq(symbols')
        /\ \A i \in DOMAIN symbols' : symbols'[i].value \in Nat /\ symbols'[i].is_section \in BOOLEAN
    BY <1>5, SymbolsRemoved DEF elf_unload, CoreInv
  <2>3. BaseInv'
    BY <1>1, <2>1, <2>2 DEF CoreInv, BaseInv, smVars
  <2>4. PhaseInv'
    BY <1>1, <2>1 DEF CoreInv, PhaseInv, Loading
  <2> QED BY <2>1, <2>3, <2>4 DEF CoreInv
<1> QED BY <1>4, <1>5 DEF relocate_sections

\* Indices of sections are not reserved.
LEMMA SectionIndices ==
    \A x \in 1..(SHN_LORESERVE - 1) : x < SHN_LORESERVE /\ x # 0
BY SMT DEF SHN_LORESERVE

\* The values that update_global_symtab adds are numbers.
LEMMA ValuesNat ==
    ASSUME NEW m, NEW top, NEW f \in Files, m.sections = f.sections, Placed(m, top),
           NEW p, p[1] \in 1..Len(f.sections),
           p[2] # 0 => /\ f.sections[p[1]].type = "SYMTAB"
                       /\ p[2] \in 1..Len(f.sections[p[1]].entries),
           NEW v \in AdditionValues(f.sections, m.addresses, p)
    PROVE  v \in Nat
<1>1. CASE p[2] = 0
  <2>1. v = m.addresses[p[1]]
    BY <1>1 DEF AdditionValues
  <2> QED BY <2>1, AddressNat
<1>2. CASE p[2] # 0
  <2> PICK sh : sh = f.sections[p[1]]
    OBVIOUS
  <2>1. sh \in ToSet(f.sections) /\ sh.type = "SYMTAB" /\ p[2] \in 1..Len(sh.entries)
    BY <1>2, SizesNat
  <2>2. sh.entries \in Seq(ToSet(sh.entries))
    BY <2>1, SmControlAssumption DEF WellFormed
  <2> PICK sym : sym = sh.entries[p[2]]
    OBVIOUS
  <2>3. sym \in ToSet(sh.entries)
    BY <2>1, <2>2, ElementOfSeq
  <2>4. /\ sym.value \in Nat /\ sym.shndx \in Nat
        /\ sym.shndx < SHN_LORESERVE => sym.shndx \in {0} \cup DOMAIN f.sections
    BY <2>1, <2>3, SmControlAssumption DEF WellFormed
  <2>5. v \in get_local_symbol_value(sym, m.addresses)
    BY <1>2 DEF AdditionValues
  <2> PICK n \in Nat : n = sym.shndx
    BY <2>4
  <2> PICK vals : vals = get_local_symbol_value(sym, m.addresses)
    OBVIOUS
  <2>6. CASE sym.shndx = SHN_UNDEF
    <3>1. SHN_UNDEF # SHN_ABS /\ SHN_UNDEF \notin 1..(SHN_LORESERVE - 1)
      BY SMT DEF SHN_UNDEF, SHN_ABS, SHN_LORESERVE
    <3>2. vals = {}
      BY <2>6, <3>1 DEF get_local_symbol_value
    <3> QED BY <2>5, <3>2
  <2>7. CASE sym.shndx # SHN_UNDEF /\ sym.shndx = SHN_ABS
    <3>1. SHN_ABS \notin 1..(SHN_LORESERVE - 1)
      BY SMT DEF SHN_ABS, SHN_LORESERVE
    <3>2. vals = {x \in {sym.value} : x < Word}
      BY <2>7, <3>1 DEF get_local_symbol_value
    <3> QED BY <2>4, <2>5, <3>2
  <2>8. CASE sym.shndx # SHN_UNDEF /\ sym.shndx # SHN_ABS /\ sym.shndx \in 1..(SHN_LORESERVE - 1)
    <3>1. v = (m.addresses[sym.shndx] + sym.value) % Word
      BY <2>5, <2>8 DEF get_local_symbol_value
    <3>3. sym.shndx \in 1..Len(f.sections)
      BY <2>4, <2>8, SectionIndices, SizesNat
    <3>4. m.addresses[sym.shndx] \in Nat
      BY <3>3, AddressNat
    <3>5. \A x, y \in Nat : (x + y) % Word \in Nat
      BY SMT DEF Word
    <3> QED BY <2>4, <3>1, <3>4, <3>5
  <2>9. CASE sym.shndx # SHN_UNDEF /\ sym.shndx # SHN_ABS /\ sym.shndx \notin 1..(SHN_LORESERVE - 1)
    BY <2>5, <2>9 DEF get_local_symbol_value
  <2> QED BY <2>6, <2>7, <2>8, <2>9
<1> QED BY <1>1, <1>2

\* update_global_symtab goes on to a symbol of a symbol table, or to a section.
LEMMA NextStepIs ==
    ASSUME NEW f \in Files, NEW p \in Nat \X Nat, p[1] \in 1..Len(f.sections),
           p[2] # 0 => p[2] \in 1..Len(f.sections[p[1]].entries),
           NEW q, q = NextStep(f.sections, p)
    PROVE  /\ q \in Nat \X Nat /\ q[1] # 0
           /\ q[2] # 0 => LET sh == f.sections[q[1]]
                          IN sh.type = "SYMTAB" /\ q[2] \in 1..Len(sh.entries)
<1> PICK i, k \in Nat : p = <<i, k>> /\ i = p[1] /\ k = p[2]
  OBVIOUS
<1> PICK sh : sh = f.sections[i]
  OBVIOUS
<1>1. CASE sh.type = "SYMTAB" /\ k < Len(sh.entries)
  <2>1. q = <<i, k + 1>>
    BY <1>1 DEF NextStep
  <2>2. sh \in ToSet(f.sections)
    BY SizesNat
  <2>3. sh.entries \in Seq(ToSet(sh.entries))
    BY <2>2, SmControlAssumption DEF WellFormed
  <2>4. Len(sh.entries) \in Nat
    BY <2>3, LenProperties
  <2>5. k + 1 \in Nat /\ k + 1 \in 1..Len(sh.entries) /\ i # 0
    BY <1>1, <2>4, SMT
  <2> QED BY <1>1, <2>1, <2>5
<1>2. CASE ~(sh.type = "SYMTAB" /\ k < Len(sh.entries))
  <2>1. q = <<i + 1, 0>>
    BY <1>2 DEF NextStep
  <2>2. i + 1 \in Nat /\ i + 1 # 0 /\ 0 \in Nat
    BY SMT
  <2> QED BY <2>1, <2>2
<1> QED BY <1>1, <1>2

\* update_global_symtab.
LEMMA CoreSymtab ==
    ASSUME CoreInv, update_global_symtab, UNCHANGED smVars
    PROVE  CoreInv'
<1>1. UNCHANGED <<heap, modules, file>> /\ UNCHANGED smVars /\ pc = "symtab"
  BY DEF update_global_symtab
<1>2. /\ em \in DOMAIN modules /\ file \in Files /\ modules[em].sections = file.sections
      /\ Placed(modules[em], heap)
      /\ step \in Nat \X Nat /\ step[1] # 0
      /\ (step[1] <= Len(file.sections) /\ step[2] # 0) =>
             /\ file.sections[step[1]].type = "SYMTAB"
             /\ step[2] \in 1..Len(file.sections[step[1]].entries)
  BY <1>1 DEF CoreInv, PhaseInv, Loading
<1>3. failures' \in 0..MaxFailures
  BY FailuresCount DEF update_global_symtab, CoreInv, BaseInv, Allocates
<1>4. step[1] <= Len(file.sections) => step[1] \in 1..Len(file.sections)
  <2>1. step[1] \in Nat /\ Len(file.sections) \in Nat
    BY <1>2, SizesNat
  <2> QED BY <1>2, <2>1, SMT
<1>5. MemInv'
  BY <1>1, MemSame DEF CoreInv
<1>6. /\ em' = em
      /\ pc' \in {"symtab", "returned", "undefined"}
      /\ \/ step' = step
         \/ step[1] <= Len(file.sections) /\ step' = NextStep(file.sections, step)
  BY <1>1 DEF update_global_symtab, Return
<1>7. /\ step' \in Nat \X Nat /\ step'[1] # 0
      /\ (pc' = "symtab" /\ step'[1] <= Len(file.sections) /\ step'[2] # 0) =>
            LET sh == file.sections[step'[1]]
            IN sh.type = "SYMTAB" /\ step'[2] \in 1..Len(sh.entries)
  <2>1. CASE step' = step
    BY <1>2, <2>1
  <2>2. CASE step[1] <= Len(file.sections) /\ step' = NextStep(file.sections, step)
    BY <1>2, <1>4, <2>2, NextStepIs
  <2> QED BY <1>6, <2>1, <2>2
<1>8. PhaseInv'
  BY <1>1, <1>2, <1>6, <1>7 DEF PhaseInv, Loading, Placed
<1>9. /\ IsSeq(symbols')
      /\ \A i \in DOMAIN symbols' : symbols'[i].value \in Nat /\ symbols'[i].is_section \in BOOLEAN
  <2>1. CASE symbols' = symbols
    BY <2>1 DEF CoreInv, BaseInv
  <2>2. CASE symbols' # symbols
    <3> PICK v \in AdditionValues(file.sections, modules[em].addresses, step) :
            /\ step[1] <= Len(file.sections)
            /\ symbols' = Append(symbols, Symbol(AdditionName(file.sections, step), v, em, step[2] = 0))
      BY <2>2 DEF update_global_symtab, add_symbol
    <3> PICK s : s = Symbol(AdditionName(file.sections, step), v, em, step[2] = 0)
      OBVIOUS
    <3>1. v \in Nat
      BY <1>2, <1>4, ValuesNat
    <3>2. s.value \in Nat /\ s.is_section \in BOOLEAN
      BY <3>1 DEF Symbol
    <3>3. IsSeq(symbols) /\ \A i \in DOMAIN symbols : symbols[i].value \in Nat /\ symbols[i].is_section \in BOOLEAN
      BY DEF CoreInv, BaseInv
    <3> QED BY <3>2, <3>3, AppendFacts
  <2> QED BY <2>1, <2>2
<1>10. BaseInv'
  BY <1>1, <1>3, <1>9 DEF CoreInv, BaseInv, smVars
<1> QED BY <1>5, <1>8, <1>10 DEF CoreInv

\* At first.
LEMMA CoreInit ==
    ASSUME Init
    PROVE  CoreInv
<1>1. IsSeq(enabled) /\ IsSeq(<< >>)
  <2>1. << >> \in Seq({})
    BY EmptySeq
  <2> QED BY <2>1, SmControlAssumption DEF Init, IsSeq
<1>2. MemInv
  <2>1. DataEndRom \in DataEndRom..HEAP_END /\ DataEndRom % 2 = 0
    BY PmemAssumption, SMT DEF HEAP_END
  <2>2. DOMAIN modules = {}
    BY DEF Init, ElfInit
  <2> QED BY <2>1, <2>2 DEF MemInv, Init, ElfInit, PmemInit
<1>3. BaseInv
  <2>1. 0 \in 0..MaxFailures /\ 0 \in 0..MaxLoads
    BY SmControlAssumption, SMT
  <2>2. DOMAIN modules = {} /\ DOMAIN symbols = {}
    BY DEF Init, ElfInit, SymtabInit
  <2> QED BY <1>1, <2>1, <2>2 DEF BaseInv, Init, ElfInit, SymtabInit
<1>4. PhaseInv
  BY DEF PhaseInv, Loading, Init, ElfInit, FirstStep
<1> QED BY <1>2, <1>3, <1>4 DEF CoreInv

\* CoreInv is inductive.
LEMMA CoreNext ==
    ASSUME CoreInv, [Next]_vars
    PROVE  CoreInv'
<1>1. CASE sm_load
  BY <1>1, CoreStart DEF sm_load
<1>2. CASE ClientLoads
  BY <1>2, CoreStart DEF ClientLoads
<1>3. CASE LoadFails \/ RegisterFails \/ ClientLoaded
  BY <1>3, CoreEnds
<1>4. CASE register_sm \/ sm_register_existing
  BY <1>4, CoreRegister
<1>5. CASE ClientUnloads
  BY <1>5, CoreUnloads
<1>6. CASE Phase
  BY <1>6, CoreSections, CoreRelocate, CoreSymtab DEF Phase
<1>7. CASE UNCHANGED vars
  <2>1. MemInv'
    BY <1>7, MemSame DEF CoreInv, vars, elfVars
  <2>2. BaseInv' /\ PhaseInv'
    BY <1>7 DEF CoreInv, BaseInv, PhaseInv, Loading, Placed, vars, elfVars, smVars
  <2> QED BY <2>1, <2>2 DEF CoreInv
<1> QED BY <1>1, <1>2, <1>3, <1>4, <1>5, <1>6, <1>7 DEF Next

-----------------------------------------------------------------------------
(* Whose a module is. *)

Answered == held \cup Registered \cup orphans

\* Every module is answered for by one; a module that is being loaded by none
\* of the others, and before update_global_symtab it owns no symbols.
OwnInv ==
    /\ DOMAIN modules = Answered \cup ({em} \ {Null})
    /\ em \notin Answered
    /\ held \cap Registered = {} /\ held \cap orphans = {} /\ Registered \cap orphans = {}
    /\ \A i, j \in DOMAIN sm_list : i # j /\ sm_list[i].em # Null => sm_list[i].em # sm_list[j].em
    /\ \A i \in DOMAIN symbols : symbols[i].owner \in DOMAIN modules
    /\ pc \in {"sections", "relocate"} => \A i \in DOMAIN symbols : symbols[i].owner # em

\* Null is nobody's.
LEMMA NullIsNone ==
    ASSUME CoreInv, OwnInv
    PROVE  Null \notin DOMAIN modules /\ Null \notin Answered
<1>1. Null \notin DOMAIN modules
  BY SmControlAssumption DEF CoreInv, BaseInv
<1> QED BY <1>1 DEF OwnInv

\* An entry more in the list of modules.
LEMMA ListAppended ==
    ASSUME CoreInv, OwnInv, NEW r, sm_list' = Append(sm_list, r),
           r.em = Null \/ r.em \notin Registered
    PROVE  /\ Registered' = Registered \cup ({r.em} \ {Null})
           /\ \A i, j \in DOMAIN sm_list' :
                 i # j /\ sm_list'[i].em # Null => sm_list'[i].em # sm_list'[j].em
<1> PICK n, t : n = Len(sm_list) /\ t = sm_list'
  OBVIOUS
<1>1. IsSeq(sm_list)
  BY DEF CoreInv, BaseInv
<1>2. /\ DOMAIN sm_list = 1..n /\ DOMAIN t = 1..(n + 1)
      /\ \A i \in 1..(n + 1) : i = n + 1 \/ i \in 1..n
      /\ t[n + 1] = r /\ n + 1 \in 1..(n + 1)
      /\ \A i \in 1..n : t[i] = sm_list[i] /\ i \in 1..(n + 1) /\ i # n + 1
  BY <1>1, AppendFacts
<1>3. Registered' = Registered \cup ({r.em} \ {Null})
  <2>1. Registered' = {t[i].em : i \in DOMAIN t} \ {Null}
    BY DEF Registered
  <2> QED BY <1>2, <2>1 DEF Registered
<1>4. ASSUME NEW i \in DOMAIN t, NEW j \in DOMAIN t, i # j, t[i].em # Null
      PROVE  t[i].em # t[j].em
  <2>1. CASE i \in 1..n /\ j \in 1..n
    BY <1>2, <1>4, <2>1 DEF OwnInv
  <2>2. CASE i = n + 1 /\ j \in 1..n
    BY <1>2, <1>4, <2>2 DEF Registered
  <2>3. CASE i \in 1..n /\ j = n + 1
    BY <1>2, <1>4, <2>3 DEF Registered
  <2> QED BY <1>2, <1>4, <2>1, <2>2, <2>3
<1> QED BY <1>3, <1>4

\* sm_load and elf_load begin.
LEMMA OwnStart ==
    ASSUME CoreInv, OwnInv, NEW f, NEW name, StartLoad(f, name)
    PROVE  OwnInv'
<1>1. /\ pc = "idle" /\ em = Null /\ elf_load(f)
      /\ UNCHANGED <<symbols, sm_list, held, orphans>>
  BY DEF StartLoad, elf_load, CoreInv, PhaseInv
<1>2. Null \notin DOMAIN modules /\ Null \notin Answered /\ Answered' = Answered /\ Registered' = Registered
  BY <1>1, NullIsNone DEF Answered, Registered
<1>3. CASE Return(Null) /\ UNCHANGED modules
  BY <1>1, <1>2, <1>3 DEF OwnInv, Return
<1>4. CASE ~(Return(Null) /\ UNCHANGED modules)
  <2> PICK e \in ElfModules \ DOMAIN modules :
          em' = e /\ pc' = "sections" /\ DOMAIN modules' = DOMAIN modules \cup {e}
    BY <1>1, <1>4 DEF elf_load
  <2>1. e # Null
    BY SmControlAssumption
  <2> QED BY <1>1, <1>2, <2>1 DEF OwnInv
<1> QED BY <1>3, <1>4

\* Who answers for a module that was loaded.
LEMMA OwnEnds ==
    ASSUME CoreInv, OwnInv, LoadFails \/ RegisterFails \/ register_sm \/ ClientLoaded
    PROVE  OwnInv'
<1>1. UNCHANGED <<modules, symbols>> /\ em' = Null /\ pc' = "idle"
  BY DEF LoadFails, RegisterFails, register_sm, ClientLoaded, Idle
<1>2. Null \notin DOMAIN modules /\ Null \notin Answered
  BY NullIsNone
<1>3. CASE LoadFails
  <2>1. em = Null /\ UNCHANGED <<held, orphans, sm_list>>
    BY <1>3 DEF LoadFails
  <2> QED BY <1>1, <1>2, <2>1 DEF OwnInv, Answered, Registered
<1>4. CASE RegisterFails
  <2>1. em # Null /\ orphans' = orphans \cup {em} /\ UNCHANGED <<held, sm_list>>
    BY <1>4 DEF RegisterFails
  <2>2. Registered' = Registered
    BY <2>1 DEF Registered
  <2> QED BY <1>1, <1>2, <2>1, <2>2 DEF OwnInv, Answered
<1>5. CASE ClientLoaded
  <2>1. held' = held \cup ({em} \ {Null}) /\ UNCHANGED <<orphans, sm_list>>
    BY <1>5 DEF ClientLoaded
  <2>2. Registered' = Registered
    BY <2>1 DEF Registered
  <2> QED BY <1>1, <1>2, <2>1, <2>2 DEF OwnInv, Answered
<1>6. CASE register_sm
  <2> PICK r : r.em = em /\ sm_list' = Append(sm_list, r)
    BY <1>6 DEF register_sm
  <2>1. em # Null /\ UNCHANGED <<held, orphans>>
    BY <1>6 DEF register_sm
  <2>2. em \notin Registered
    BY DEF OwnInv, Answered
  <2>3. /\ Registered' = Registered \cup {em}
        /\ \A i, j \in DOMAIN sm_list' :
              i # j /\ sm_list'[i].em # Null => sm_list'[i].em # sm_list'[j].em
    BY <2>1, <2>2, ListAppended
  <2> QED BY <1>1, <1>2, <2>1, <2>3 DEF OwnInv, Answered
<1> QED BY <1>3, <1>4, <1>5, <1>6

\* A linked module in the list is no ElfModule.
LEMMA OwnExisting ==
    ASSUME CoreInv, OwnInv, sm_register_existing
    PROVE  OwnInv'
<1>1. UNCHANGED <<modules, symbols, em, pc, held, orphans>>
  BY DEF sm_register_existing
<1>2. CASE sm_list' = sm_list
  BY <1>1, <1>2 DEF OwnInv, Answered, Registered
<1>3. CASE sm_list' # sm_list
  <2> PICK r : r.em = Null /\ sm_list' = Append(sm_list, r)
    BY <1>3 DEF sm_register_existing
  <2>1. /\ Registered' = Registered
        /\ \A i, j \in DOMAIN sm_list' :
              i # j /\ sm_list'[i].em # Null => sm_list'[i].em # sm_list'[j].em
    BY ListAppended
  <2> QED BY <1>1, <2>1 DEF OwnInv, Answered
<1> QED BY <1>2, <1>3

\* A client unloads a module that it loaded, and nobody else has it.
LEMMA OwnUnloads ==
    ASSUME CoreInv, OwnInv, ClientUnloads
    PROVE  OwnInv'
<1> PICK e \in held : elf_unload(e) /\ held' = held \ {e}
  BY DEF ClientUnloads
<1>1. UNCHANGED <<pc, em, sm_list, orphans>> /\ pc = "idle" /\ Registered' = Registered
  BY DEF ClientUnloads, Registered
<1>2. DOMAIN modules' = DOMAIN modules \ {e}
  BY DEF elf_unload, Restrict
<1>3. \A i \in DOMAIN symbols' :
          \E j \in DOMAIN symbols : symbols'[i] = symbols[j] /\ symbols[j].owner # e
  BY SymbolsRemoved DEF elf_unload, CoreInv
<1>4. \A i \in DOMAIN symbols' : symbols'[i].owner \in DOMAIN modules'
  BY <1>2, <1>3 DEF OwnInv
<1>5. em \notin Answered' /\ DOMAIN modules' = Answered' \cup ({em} \ {Null})
  BY <1>1, <1>2 DEF OwnInv, Answered
<1> QED BY <1>1, <1>4, <1>5 DEF OwnInv, Answered

\* The phases of elf_load.
LEMMA OwnPhase ==
    ASSUME CoreInv, OwnInv, Phase
    PROVE  OwnInv'
<1>1. UNCHANGED <<sm_list, held, orphans>> /\ Registered' = Registered /\ Answered' = Answered
  BY DEF Phase, smVars, Registered, Answered
<1>2. Null \notin DOMAIN modules /\ Null \notin Answered
  BY NullIsNone
<1>3. CASE load_sections
  <2>1. UNCHANGED symbols /\ pc = "sections"
    BY <1>3 DEF load_sections
  <2>2. CASE SectionsFail
    <3>1. DOMAIN modules' = DOMAIN modules \ {em} /\ em' = Null /\ pc' = "returned"
      BY <2>2 DEF SectionsFail, Restrict, Return
    <3> QED BY <1>1, <1>2, <2>1, <3>1 DEF OwnInv
  <2>3. CASE ~SectionsFail
    <3>1. DOMAIN modules' = DOMAIN modules /\ em' = em /\ pc' = "relocate"
      BY <1>3, <2>3 DEF load_sections
    <3> QED BY <1>1, <2>1, <3>1 DEF OwnInv
  <2> QED BY <2>2, <2>3
<1>4. CASE relocate_sections
  <2>1. CASE elf_unload(em) /\ Return(Null)
    <3>1. DOMAIN modules' = DOMAIN modules \ {em} /\ em' = Null /\ pc' = "returned"
      BY <2>1 DEF elf_unload, Restrict, Return
    <3>2. \A i \in DOMAIN symbols' :
              \E j \in DOMAIN symbols : symbols'[i] = symbols[j] /\ symbols[j].owner # em
      BY <2>1, SymbolsRemoved DEF elf_unload, CoreInv
    <3>3. \A i \in DOMAIN symbols' : symbols'[i].owner \in DOMAIN modules'
      BY <3>1, <3>2 DEF OwnInv
    <3> QED BY <1>1, <1>2, <3>1, <3>3 DEF OwnInv
  <2>2. CASE ~(elf_unload(em) /\ Return(Null))
    <3>1. DOMAIN modules' = DOMAIN modules /\ UNCHANGED <<em, symbols>> /\ pc' = "symtab"
      BY <1>4, <2>2 DEF relocate_sections
    <3> QED BY <1>1, <3>1 DEF OwnInv
  <2> QED BY <2>1, <2>2
<1>5. CASE update_global_symtab
  <2>1. UNCHANGED <<modules, em>> /\ pc' \in {"symtab", "returned", "undefined"} /\ pc = "symtab"
    BY <1>5 DEF update_global_symtab, Return
  <2>2. \A i \in DOMAIN symbols' : symbols'[i].owner \in DOMAIN modules
    <3>1. CASE symbols' = symbols
      BY <3>1 DEF OwnInv
    <3>2. CASE symbols' # symbols
      <4> PICK s : s.owner = em /\ symbols' = Append(symbols, s)
        BY <1>5, <3>2 DEF update_global_symtab, add_symbol, Symbol
      <4>1. em \in DOMAIN modules /\ IsSeq(symbols)
        BY <2>1 DEF CoreInv, PhaseInv, Loading, BaseInv
      <4>2. \A i \in DOMAIN symbols : symbols[i].owner \in DOMAIN modules
        BY DEF OwnInv
      <4> QED BY <4>1, <4>2, AppendFacts
    <3> QED BY <3>1, <3>2
  <2> QED BY <1>1, <2>1, <2>2 DEF OwnInv
<1> QED BY <1>3, <1>4, <1>5 DEF Phase

\* OwnInv holds at first, every step keeps it, and it says what Owned says.
LEMMA OwnInit ==
    ASSUME Init
    PROVE  OwnInv
<1>1. DOMAIN modules = {} /\ DOMAIN symbols = {} /\ DOMAIN sm_list = {} /\ pc = "idle"
  BY DEF Init, ElfInit, SymtabInit
<1>2. Answered = {} /\ em = Null
  BY <1>1 DEF Init, ElfInit, Answered, Registered
<1> QED BY <1>1, <1>2 DEF OwnInv, Answered

\* Every step keeps it: those of elf_load, of sm_load and of the clients.
LEMMA OwnNext ==
    ASSUME CoreInv, OwnInv, [Next]_vars
    PROVE  OwnInv'
<1>1. CASE sm_load \/ ClientLoads
  BY <1>1, OwnStart DEF sm_load, ClientLoads
<1>2. CASE UNCHANGED vars
  BY <1>2 DEF vars, elfVars, smVars, OwnInv, Answered, Registered
<1> QED BY <1>1, <1>2, OwnEnds, OwnExisting, OwnUnloads, OwnPhase DEF Next

\* What the owners own is what Owned says of them.
LEMMA OwnImplies ==
    ASSUME OwnInv
    PROVE  Owned
<1>1. DOMAIN Owners = 1..4
  BY DEF Owners
<1>2. /\ Owners[1] = held /\ Owners[2] = Registered
      /\ Owners[3] = orphans /\ Owners[4] = {em} \ {Null}
  BY DEF Owners
<1>3. 1..4 = {1, 2, 3, 4}
  BY SMT
<1>4. UNION Range(Owners) = Answered \cup ({em} \ {Null})
  BY <1>1, <1>2, <1>3 DEF Range, Answered
<1>5. \A i, j \in DOMAIN Owners : i # j => Owners[i] \cap Owners[j] = {}
  BY <1>1, <1>2, <1>3 DEF OwnInv, Answered
<1> QED BY <1>4, <1>5 DEF OwnInv, Owned

-----------------------------------------------------------------------------
(* Ids. *)

\* The ids in the list are the processor's, and no two entries share one; the
\* linked modules have the first ids.
TableInv ==
    /\ Len(Existing) <= Len(enabled) /\ Len(enabled) <= MaxSms
    /\ \A i \in DOMAIN sm_list : sm_list[i].id \in DOMAIN enabled
    /\ \A i, j \in DOMAIN sm_list : i # j => sm_list[i].id # sm_list[j].id

\* An entry with an id that is in no use.
LEMMA TableAppended ==
    ASSUME BaseInv, TableInv, NEW r, sm_list' = Append(sm_list, r),
           r.id \in DOMAIN enabled', DOMAIN enabled \subseteq DOMAIN enabled',
           \A i \in DOMAIN sm_list : sm_list[i].id # r.id
    PROVE  /\ \A i \in DOMAIN sm_list' : sm_list'[i].id \in DOMAIN enabled'
           /\ \A i, j \in DOMAIN sm_list' : i # j => sm_list'[i].id # sm_list'[j].id
<1> PICK n, t : n = Len(sm_list) /\ t = sm_list'
  OBVIOUS
<1>1. IsSeq(sm_list)
  BY DEF BaseInv
<1>2. /\ DOMAIN sm_list = 1..n /\ DOMAIN t = 1..(n + 1)
      /\ \A i \in 1..(n + 1) : i = n + 1 \/ i \in 1..n
      /\ t[n + 1] = r /\ \A i \in 1..n : t[i] = sm_list[i]
  BY <1>1, AppendFacts
<1>3. \A i \in DOMAIN t : t[i].id \in DOMAIN enabled'
  BY <1>2 DEF TableInv
<1>4. \A i, j \in DOMAIN t : i # j => t[i].id # t[j].id
  BY <1>2 DEF TableInv
<1> QED BY <1>3, <1>4

\* The list is empty at first, and the processor has the linked modules.
LEMMA TableInit ==
    ASSUME Init
    PROVE  TableInv
<1>1. DOMAIN sm_list = {} /\ enabled = Existing /\ Len(Existing) \in Nat
  <2>1. Len(Existing) \in Nat
    BY SmControlAssumption, LenProperties
  <2> QED BY <2>1 DEF Init
<1>2. Len(Existing) <= Len(Existing) /\ Len(Existing) <= MaxSms
  BY <1>1, SmControlAssumption, SMT
<1> QED BY <1>1, <1>2 DEF TableInv

\* Only the end of a load and sm_register_existing change the list, and each
\* gives the new entry the id that the processor has just given.
LEMMA TableNext ==
    ASSUME CoreInv, TableInv, [Next]_vars
    PROVE  TableInv'
<1>1. /\ IsSeq(enabled) /\ IsSeq(sm_list)
      /\ Len(enabled) \in Nat /\ DOMAIN enabled = 1..Len(enabled) /\ BaseInv
  BY SeqFacts DEF CoreInv, BaseInv
<1> PICK n \in Nat : n = Len(enabled)
  BY <1>1
<1>2. Len(Existing) \in Nat /\ DOMAIN Existing = 1..Len(Existing) /\ MaxSms \in Nat
  BY SmControlAssumption, LenProperties
<1>3. CASE UNCHANGED <<sm_list, enabled>>
  BY <1>3 DEF TableInv
<1>4. CASE register_sm
  <2> PICK r : r.id = NewId /\ sm_list' = Append(sm_list, r)
    BY <1>4 DEF register_sm
  <2>1. enabled' = Append(enabled, Layout(smname)) /\ n < MaxSms
    BY <1>4 DEF register_sm, Registrable, sancus_enable
  <2>2. Len(enabled') = n + 1 /\ DOMAIN enabled' = 1..(n + 1) /\ r.id = n + 1
    BY <1>1, <2>1, AppendFacts DEF NewId
  <2>3. n + 1 \in 1..(n + 1) /\ n + 1 \notin 1..n /\ 1..n \subseteq 1..(n + 1)
    BY SMT
  <2>4. Len(Existing) <= n + 1 /\ n + 1 <= MaxSms
    <3>1. \A x, y, z \in Nat : x <= y /\ y < z => x <= y + 1 /\ y + 1 <= z
      BY SMT
    <3> QED BY <1>2, <2>1, <3>1 DEF TableInv
  <2>5. \A i \in DOMAIN sm_list : sm_list[i].id # r.id
    BY <1>1, <2>2, <2>3 DEF TableInv
  <2>6. /\ \A i \in DOMAIN sm_list' : sm_list'[i].id \in DOMAIN enabled'
        /\ \A i, j \in DOMAIN sm_list' : i # j => sm_list'[i].id # sm_list'[j].id
    BY <1>1, <2>2, <2>3, <2>5, TableAppended
  <2> QED BY <2>2, <2>4, <2>6 DEF TableInv
<1>5. CASE sm_register_existing /\ sm_list' # sm_list
  <2> PICK id \in DOMAIN Existing :
          /\ \A i \in DOMAIN sm_list : sm_list[i].id # id
          /\ sm_list' = Append(sm_list, [id |-> id, em |-> Null, name |-> Null, from |-> {Null}])
    BY <1>5 DEF sm_register_existing
  <2> PICK r : r = [id |-> id, em |-> Null, name |-> Null, from |-> {Null}]
    OBVIOUS
  <2>1. enabled' = enabled
    BY <1>5 DEF sm_register_existing
  <2>2. r.id \in DOMAIN enabled
    <3>1. \A x, y \in Nat : x <= y => 1..x \subseteq 1..y
      BY SMT
    <3> QED BY <1>1, <1>2, <3>1 DEF TableInv
  <2>3. /\ \A i \in DOMAIN sm_list' : sm_list'[i].id \in DOMAIN enabled'
        /\ \A i, j \in DOMAIN sm_list' : i # j => sm_list'[i].id # sm_list'[j].id
    BY <1>1, <2>1, <2>2, TableAppended
  <2> QED BY <2>1, <2>3 DEF TableInv
<1>6. \/ UNCHANGED <<sm_list, enabled>> \/ register_sm
      \/ sm_register_existing /\ sm_list' # sm_list
  BY DEF Next, vars, smVars, sm_load, ClientLoads, StartLoad, LoadFails, RegisterFails,
         ClientLoaded, ClientUnloads, Phase, sm_register_existing
<1> QED BY <1>3, <1>4, <1>5, <1>6

\* An id finds the entry that it was given to.
LEMMA Finds ==
    ASSUME BaseInv, TableInv, NEW i \in DOMAIN sm_list
    PROVE  find_sm_list(sm_list[i].id) = sm_list[i]
<1>1. DOMAIN sm_list = 1..Len(sm_list) /\ Len(sm_list) \in Nat
  BY SeqFacts DEF BaseInv
<1>2. \A j \in 1..(i - 1) : j \in 1..Len(sm_list) /\ j # i
  BY <1>1, SMT
<1>3. \A j \in 1..(i - 1) : sm_list[j].id # sm_list[i].id
  BY <1>1, <1>2 DEF TableInv
<1>4. \A k \in DOMAIN sm_list : sm_list[k].id = sm_list[i].id => k = i
  BY DEF TableInv
<1>5. i = CHOOSE k \in DOMAIN sm_list :
              /\ sm_list[k].id = sm_list[i].id
              /\ \A j \in 1..(k - 1) : sm_list[j].id # sm_list[i].id
  BY <1>3, <1>4
<1> QED BY <1>5 DEF find_sm_list

\* What SmTable calls the table.
Table == [i \in DOMAIN sm_list |-> [id |-> sm_list[i].id, module |-> find_sm_list(sm_list[i].id).em]]
Entry(r) == [id |-> r.id, module |-> r.em]

\* The module that an id finds is the one of its own entry.
LEMMA TableIs ==
    ASSUME BaseInv, TableInv
    PROVE  Table = [i \in DOMAIN sm_list |-> Entry(sm_list[i])]
BY Finds DEF Table, Entry

\* One entry more in the list is one more in the table.
LEMMA EntryAppended ==
    ASSUME NEW s, IsSeq(s), NEW r, NEW t, t = Append(s, r),
           NEW u, u = [i \in DOMAIN s |-> Entry(s[i])],
           NEW v, v = [i \in DOMAIN t |-> Entry(t[i])]
    PROVE  v = Append(u, Entry(r)) /\ DOMAIN u = DOMAIN s
<1> PICK n, e : n = Len(s) /\ e = Entry(r)
  OBVIOUS
<1>1. /\ n \in Nat /\ DOMAIN s = 1..n /\ DOMAIN t = 1..(n + 1)
      /\ \A i \in 1..(n + 1) : i = n + 1 \/ i \in 1..n
      /\ t[n + 1] = r /\ n + 1 \in 1..(n + 1)
      /\ \A i \in 1..n : t[i] = s[i] /\ i \in 1..(n + 1)
  BY AppendFacts
<1> PICK S : S = {u[i] : i \in 1..n} \cup {e}
  OBVIOUS
<1>2. u \in [1..n -> S] /\ u = [i \in 1..n |-> u[i]]
  BY <1>1
<1>3. /\ \A i \in 1..n : v[i] = u[i]
      /\ v[n + 1] = e /\ v = [i \in 1..(n + 1) |-> v[i]]
  BY <1>1
<1>4. v \in [1..(n + 1) -> S]
  BY <1>1, <1>3
<1>5. n + 1 \in Nat
  BY <1>1, SMT
<1>6. u \in Seq(S) /\ v \in Seq(S)
  BY <1>1, <1>2, <1>4, <1>5, SeqDef
<1>7. Len(u) = n /\ Len(v) = n + 1
  <2>1. DOMAIN u = 1..n /\ DOMAIN v = 1..(n + 1)
    BY <1>2, <1>3
  <2>2. DOMAIN u = 1..Len(u) /\ DOMAIN v = 1..Len(v) /\ Len(u) \in Nat /\ Len(v) \in Nat
    BY <1>6, LenProperties
  <2>3. \A a, b \in Nat : 1..a = 1..b => a = b
    BY SMT
  <2> QED BY <1>1, <1>5, <2>1, <2>2, <2>3
<1>8. /\ Append(u, e) \in Seq(S) /\ Len(Append(u, e)) = n + 1
      /\ Append(u, e)[n + 1] = e /\ \A i \in 1..n : Append(u, e)[i] = u[i]
  BY <1>6, <1>7, AppendProperties
<1>9. \A i \in 1..(n + 1) : v[i] = Append(u, e)[i]
  BY <1>1, <1>3, <1>8
<1>10. v = Append(u, e)
  BY <1>6, <1>7, <1>8, <1>9, SeqEqual
<1> QED BY <1>1, <1>2, <1>10

\* Registration is SmTable's, and nothing else touches the table.
LEMMA TableStep ==
    ASSUME CoreInv, TableInv, OwnInv, CoreInv', TableInv', [Next]_vars
    PROVE  [T!Next]_Table
<1>1. /\ Table = [i \in DOMAIN sm_list |-> Entry(sm_list[i])]
      /\ Table' = [i \in DOMAIN sm_list' |-> Entry(sm_list'[i])]
  <2>1. Table = [i \in DOMAIN sm_list |-> Entry(sm_list[i])]
    BY TableIs DEF CoreInv
  <2>2. (BaseInv /\ TableInv)' => (Table = [i \in DOMAIN sm_list |-> Entry(sm_list[i])])'
    BY TableIs, PTL
  <2> QED BY <2>1, <2>2 DEF CoreInv
<1>2. CASE sm_list' = sm_list
  BY <1>1, <1>2
<1>3. ASSUME NEW r, sm_list' = Append(sm_list, r), r.em \in ElfModules \cup {Null}
      PROVE  T!Next
  <2>1. /\ IsSeq(sm_list) /\ IsSeq(enabled')
        /\ Len(enabled') \in Nat /\ DOMAIN enabled' = 1..Len(enabled')
    BY SeqFacts DEF CoreInv, BaseInv
  <2> PICK n : n = Len(sm_list)
    OBVIOUS
  <2>2. /\ DOMAIN sm_list = 1..n /\ DOMAIN sm_list' = 1..(n + 1)
        /\ sm_list'[n + 1] = r /\ n + 1 \in 1..(n + 1)
        /\ \A i \in 1..n : sm_list'[i] = sm_list[i] /\ i \in 1..(n + 1) /\ i # n + 1
    BY <1>3, <2>1, AppendFacts
  <2>3. r.id \in 1..Len(enabled') /\ Len(enabled') <= MaxSms
    BY <2>1, <2>2 DEF TableInv
  <2>4. r.id \in 1..MaxSms /\ r.id # 0
    <3>1. MaxSms \in Nat
      BY SmControlAssumption
    <3>2. \A x, y \in Nat : x <= y => \A z \in 1..x : z \in 1..y /\ z # 0
      BY SMT
    <3> QED BY <2>1, <2>3, <3>1, <3>2
  <2>5. \A i \in DOMAIN sm_list : sm_list[i].id # r.id
    BY <2>2 DEF TableInv
  <2>6. Table' = Append(Table, Entry(r)) /\ DOMAIN Table = DOMAIN sm_list
    <3> PICK s, t, u, v : s = sm_list /\ t = sm_list' /\ u = Table /\ v = Table'
      OBVIOUS
    <3>1. /\ IsSeq(s) /\ t = Append(s, r)
          /\ u = [i \in DOMAIN s |-> Entry(s[i])] /\ v = [i \in DOMAIN t |-> Entry(t[i])]
      BY <1>1, <1>3, <2>1
    <3>2. v = Append(u, Entry(r)) /\ DOMAIN u = DOMAIN s
      BY <3>1, EntryAppended
    <3> QED BY <3>2
  <2>7. \A i \in DOMAIN Table : Table[i].id # r.id
    BY <1>1, <2>5, <2>6 DEF Entry
  <2>8. T!Register(r.id, r.em)
    BY <2>4, <2>6, <2>7 DEF T!Register, T!Found, Entry, Table
  <2> QED BY <1>3, <2>4, <2>8 DEF T!Next
<1>4. CASE register_sm
  <2> PICK r : r.em = em /\ sm_list' = Append(sm_list, r)
    BY <1>4 DEF register_sm
  <2>1. em \in ElfModules \cup {Null}
    BY DEF CoreInv, BaseInv, PhaseInv
  <2> QED BY <1>3, <2>1
<1>5. CASE sm_register_existing /\ sm_list' # sm_list
  <2> PICK r : r.em = Null /\ sm_list' = Append(sm_list, r)
    BY <1>5 DEF sm_register_existing
  <2> QED BY <1>3
<1>6. \/ UNCHANGED sm_list \/ register_sm
      \/ sm_register_existing /\ sm_list' # sm_list
  BY DEF Next, vars, smVars, sm_load, ClientLoads, StartLoad, LoadFails, RegisterFails,
         ClientLoaded, ClientUnloads, Phase, sm_register_existing
<1> QED BY <1>2, <1>4, <1>5, <1>6

-----------------------------------------------------------------------------
(* What words refer to. *)

\* A word that was written by name has the value of the symbol that the name
\* finds, which belongs to the module that the word names, unless it was linked
\* into the program.
WordInv(w) ==
    w.name # Null =>
        \E s \in get_global_symbol_value(w.name) :
            /\ w.value = (s.value + w.addend) % Word
            /\ Named(StaticSymbols, w.name) = {} => s.owner = w.owner

RefInv == \A e \in DOMAIN modules : \A w \in modules[e].words : WordInv(w)

\* What is found stays found when a symbol is added,
LEMMA FoundStays ==
    ASSUME IsSeq(symbols), NEW x, symbols' = Append(symbols, x),
           NEW name, NEW s \in get_global_symbol_value(name)
    PROVE  s \in get_global_symbol_value(name)'
<1>1. CASE Named(StaticSymbols, name) # {}
  BY <1>1 DEF get_global_symbol_value
<1>2. CASE Named(StaticSymbols, name) = {}
  <2> PICK i : IsFirst(symbols, name, i) /\ s = symbols[i]
    BY <1>2 DEF get_global_symbol_value, FirstNamed, IsFirst
  <2> PICK S : symbols \in Seq(S) /\ x \in S
    BY AppendFacts
  <2>1. symbols' \in Seq(S)
    BY AppendProperties
  <2>2. FirstAt(symbols', name, s)
    BY FirstStays
  <2> PICK j : IsFirst(symbols', name, j) /\ symbols'[j] = s
    BY <2>2 DEF FirstAt
  <2>3. FirstNamed(symbols', name) = {symbols'[j]}
    BY <2>1, FirstOnly
  <2> QED BY <1>2, <2>3 DEF get_global_symbol_value
<1> QED BY <1>1, <1>2

\* and when those of another module are removed.
LEMMA FoundKept ==
    ASSUME IsSeq(symbols), NEW e, remove_global_symbols(e),
           NEW name, NEW s \in get_global_symbol_value(name),
           Named(StaticSymbols, name) = {} => s.owner # e
    PROVE  s \in get_global_symbol_value(name)'
<1>1. CASE Named(StaticSymbols, name) # {}
  BY <1>1 DEF get_global_symbol_value
<1>2. CASE Named(StaticSymbols, name) = {}
  <2> PICK i : IsFirst(symbols, name, i) /\ s = symbols[i]
    BY <1>2 DEF get_global_symbol_value, FirstNamed, IsFirst
  <2> PICK S : symbols \in Seq(S)
    BY DEF IsSeq
  <2> PICK K : K = {k \in DOMAIN symbols : symbols[k].owner # e}
    OBVIOUS
  <2>1. symbols' = Keep(symbols, K) /\ symbols' \in Seq(S)
    BY KeepPlaces DEF remove_global_symbols
  <2>2. i \in K
    BY <1>2 DEF IsFirst, Named
  <2>3. FirstAt(symbols', name, s)
    BY <2>1, <2>2, FirstKept
  <2> PICK j : IsFirst(symbols', name, j) /\ symbols'[j] = s
    BY <2>3 DEF FirstAt
  <2>4. FirstNamed(symbols', name) = {symbols'[j]}
    BY <2>1, FirstOnly
  <2> QED BY <1>2, <2>4 DEF get_global_symbol_value
<1> QED BY <1>1, <1>2

\* A word of relocate_section is right when it is written.
LEMMA WordWritten ==
    ASSUME NEW sections, NEW addresses, NEW w \in Words(sections, addresses)
    PROVE  WordInv(w)
<1> PICK sh, re, s : /\ s \in Resolved(sections, sh, re, addresses)
                     /\ w = Written(sh, re, s, addresses)
  BY DEF Words
<1>1. w.name = s.name /\ w.owner = s.owner /\ w.value = (s.value + w.addend) % Word
  BY DEF Written
<1> PICK sym : sym = Referred(sections, sh, re)
  OBVIOUS
<1>2. CASE sym.shndx = SHN_UNDEF
  <2>1. s \in get_global_symbol_value(sym.name)
    BY <1>2 DEF Resolved
  <2>2. s.name = sym.name
    BY <2>1 DEF get_global_symbol_value, FirstNamed, Named
  <2> QED BY <1>1, <2>1, <2>2 DEF WordInv
<1>3. CASE sym.shndx # SHN_UNDEF
  <2>1. s.name = Null
    BY <1>3 DEF Resolved, Symbol
  <2> QED BY <1>1, <2>1 DEF WordInv
<1> QED BY <1>2, <1>3

\* There are no modules at first, so no word refers to anything.
LEMMA RefInit ==
    ASSUME Init
    PROVE  RefInv
<1>1. DOMAIN modules = {}
  BY DEF Init, ElfInit
<1> QED BY <1>1 DEF RefInv

\* A step keeps what words refer to when each word was there before and is
\* found still.
LEMMA RefKept ==
    ASSUME RefInv, symbols' = symbols,
           \A e \in DOMAIN modules' : \A w \in modules'[e].words :
               WordInv(w) \/ \E g \in DOMAIN modules : w \in modules[g].words
    PROVE  RefInv'
<1> SUFFICES ASSUME NEW e \in DOMAIN modules', NEW w \in modules'[e].words
             PROVE  WordInv(w)'
  BY DEF RefInv
<1>1. WordInv(w)
  BY DEF RefInv
<1> QED BY <1>1 DEF WordInv, get_global_symbol_value

\* Every step keeps it: additions go to the end, so that what is found first
\* stays first, and removals take only symbols that no word refers to.
LEMMA RefNext ==
    ASSUME CoreInv, OwnInv, RefInv, [Next]_vars
    PROVE  RefInv'
<1>1. IsSeq(symbols)
  BY DEF CoreInv, BaseInv
<1>2. CASE UNCHANGED <<modules, symbols>>
  BY <1>2, RefKept DEF RefInv
<1>3. CASE sm_load \/ ClientLoads
  <2> PICK f, name : StartLoad(f, name)
    BY <1>3 DEF sm_load, ClientLoads
  <2>1. elf_load(f) /\ UNCHANGED symbols
    BY DEF StartLoad, elf_load
  <2>2. \A e \in DOMAIN modules' : \A w \in modules'[e].words :
            \E g \in DOMAIN modules : w \in modules[g].words
    <3>1. CASE UNCHANGED modules
      BY <3>1
    <3>2. CASE ~UNCHANGED modules
      <4> PICK e \in ElfModules :
              modules' = [x \in DOMAIN modules \cup {e} |->
                     IF x = e THEN [pmem |-> 0, dmem |-> Null, sections |-> f.sections,
                                    addresses |-> << >>, words |-> {}]
                     ELSE modules[x]]
        BY <2>1, <3>2 DEF elf_load
      <4>1. /\ DOMAIN modules' = DOMAIN modules \cup {e} /\ modules'[e].words = {}
            /\ \A x \in DOMAIN modules : x # e => modules'[x] = modules[x]
        OBVIOUS
      <4> QED BY <4>1
    <3> QED BY <3>1, <3>2
  <2> QED BY <2>1, <2>2, RefKept
<1>4. CASE ClientUnloads
  <2> PICK e \in held : ~InUse(e) /\ elf_unload(e)
    BY <1>4 DEF ClientUnloads
  <2> SUFFICES ASSUME NEW g \in DOMAIN modules', NEW w \in modules'[g].words
               PROVE  WordInv(w)'
    BY DEF RefInv
  <2>1. g \in DOMAIN modules \ {e} /\ w \in modules[g].words
    BY DEF elf_unload, Restrict
  <2>2. w.owner # e /\ WordInv(w)
    BY <2>1 DEF InUse, RefInv
  <2>3. remove_global_symbols(e)
    BY DEF elf_unload
  <2> QED BY <1>1, <2>2, <2>3, FoundKept DEF WordInv
<1>5. CASE load_sections
  <2>1. UNCHANGED symbols /\ em \in DOMAIN modules
    BY <1>5 DEF load_sections, CoreInv, PhaseInv, Loading
  <2>2. CASE SectionsFail
    BY <2>1, <2>2, RefKept DEF SectionsFail, Restrict
  <2>3. CASE ~SectionsFail
    <3> PICK d, as : modules' = [modules EXCEPT ![em].pmem = heap, ![em].dmem = d, ![em].addresses = as]
      BY <1>5, <2>3 DEF load_sections
    <3> PICK m : m = modules[em]
      OBVIOUS
    <3>1. DOMAIN m = {"pmem", "dmem", "sections", "addresses", "words"}
      BY <2>1 DEF CoreInv, MemInv, ModuleInv
    <3> PICK n : n = [m EXCEPT !.pmem = heap, !.dmem = d, !.addresses = as]
      OBVIOUS
    <3>2. n.words = m.words
      BY <3>1
    <3>3. modules' = [modules EXCEPT ![em] = n]
      OBVIOUS
    <3>4. DOMAIN modules' = DOMAIN modules /\ \A e \in DOMAIN modules : modules'[e].words = modules[e].words
      BY <3>2, <3>3
    <3> QED BY <2>1, <3>4, RefKept
  <2> QED BY <2>2, <2>3
<1>6. CASE relocate_sections
  <2>1. em \in DOMAIN modules /\ pc = "relocate"
    BY <1>6 DEF relocate_sections, CoreInv, PhaseInv, Loading
  <2>2. CASE elf_unload(em) /\ Return(Null)
    <3> SUFFICES ASSUME NEW g \in DOMAIN modules', NEW w \in modules'[g].words
                 PROVE  WordInv(w)'
      BY DEF RefInv
    <3>1. g \in DOMAIN modules /\ w \in modules[g].words /\ WordInv(w)
      BY <2>2 DEF elf_unload, Restrict, RefInv
    <3>2. remove_global_symbols(em)
      BY <2>2 DEF elf_unload
    <3>3. ASSUME NEW s \in get_global_symbol_value(w.name), Named(StaticSymbols, w.name) = {}
          PROVE  s.owner # em
      <4>1. \E i \in DOMAIN symbols : s = symbols[i]
        BY <3>3 DEF get_global_symbol_value, FirstNamed, Named
      <4> QED BY <2>1, <4>1 DEF OwnInv
    <3> QED BY <1>1, <3>1, <3>2, <3>3, FoundKept DEF WordInv
  <2>3. CASE ~(elf_unload(em) /\ Return(Null))
    <3> PICK addresses : /\ modules' = [modules EXCEPT ![em].words = Words(file.sections, addresses)]
                         /\ UNCHANGED symbols
      BY <1>6, <2>3 DEF relocate_sections
    <3> PICK ws : ws = Words(file.sections, addresses)
      OBVIOUS
    <3>1. \A w \in ws : WordInv(w)
      BY WordWritten
    <3>2. /\ DOMAIN modules' = DOMAIN modules
          /\ \A e \in DOMAIN modules : \A w \in modules'[e].words : w \in ws \/ w \in modules[e].words
      <4>1. modules' = [modules EXCEPT ![em] = [modules[em] EXCEPT !.words = ws]]
        OBVIOUS
      <4>2. DOMAIN modules[em] = {"pmem", "dmem", "sections", "addresses", "words"}
        BY <2>1 DEF CoreInv, MemInv, ModuleInv
      <4> QED BY <4>1, <4>2
    <3> QED BY <3>1, <3>2, RefKept
  <2> QED BY <2>2, <2>3
<1>7. CASE update_global_symtab
  <2>1. UNCHANGED modules
    BY <1>7 DEF update_global_symtab
  <2>2. CASE UNCHANGED symbols
    BY <2>1, <2>2, <1>2
  <2>3. CASE symbols' # symbols
    <3> PICK x : symbols' = Append(symbols, x)
      BY <1>7, <2>3 DEF update_global_symtab, add_symbol
    <3> SUFFICES ASSUME NEW g \in DOMAIN modules', NEW w \in modules'[g].words
                 PROVE  WordInv(w)'
      BY DEF RefInv
    <3>1. WordInv(w)
      BY <2>1 DEF RefInv
    <3> QED BY <1>1, <3>1, FoundStays DEF WordInv
  <2> QED BY <2>2, <2>3
<1>8. \/ UNCHANGED <<modules, symbols>> \/ sm_load \/ ClientLoads \/ ClientUnloads
      \/ load_sections \/ relocate_sections \/ update_global_symtab
  BY DEF Next, vars, elfVars, LoadFails, RegisterFails, register_sm, sm_register_existing,
         ClientLoaded, Phase
<1> QED BY <1>2, <1>3, <1>4, <1>5, <1>6, <1>7, <1>8

\* What a name finds is what it means.
LEMMA MeaningIs ==
    ASSUME CoreInv, NEW name, NEW s \in get_global_symbol_value(name)
    PROVE  Meaning(name) = s
<1> PICK S, U : StaticSymbols \in Seq(S) /\ symbols \in Seq(U)
  BY SmControlAssumption DEF CoreInv, BaseInv, IsSeq
<1> PICK V : V = S \cup U
  OBVIOUS
<1>1. StaticSymbols \in Seq(V) /\ symbols \in Seq(V)
  <2>1. S \subseteq V /\ U \subseteq V
    OBVIOUS
  <2> QED BY <2>1, SeqMonotonic
<1> PICK all, p, q : all = StaticSymbols \o symbols /\ p = Len(StaticSymbols) /\ q = Len(symbols)
  OBVIOUS
<1>2. p \in Nat /\ q \in Nat /\ DOMAIN StaticSymbols = 1..p /\ DOMAIN symbols = 1..q
  BY <1>1, LenProperties
<1>3. /\ all \in Seq(V) /\ Len(all) = p + q
      /\ \A i \in 1..(p + q) : all[i] = IF i <= p THEN StaticSymbols[i] ELSE symbols[i - p]
  BY <1>1, ConcatProperties
<1>4. DOMAIN all = 1..(p + q)
  BY <1>3, LenProperties
<1>5. /\ \A i \in 1..p : i \in 1..(p + q) /\ i <= p
      /\ \A i \in 1..(p + q) : i \in 1..p \/ (i - p \in 1..q /\ ~(i <= p))
      /\ \A i \in 1..q : i + p \in 1..(p + q) /\ ~(i + p <= p) /\ (i + p) - p = i
  BY <1>2, SMT
<1>6. /\ \A i \in 1..p : all[i] = StaticSymbols[i]
      /\ \A i \in 1..q : all[i + p] = symbols[i]
  BY <1>3, <1>5
<1>7. \A i \in 1..(p + q) : i \in 1..p \/ (i - p \in 1..q /\ all[i] = symbols[i - p])
  BY <1>3, <1>5
<1>8. \E i : IsFirst(all, name, i) /\ all[i] = s
  <2>1. CASE Named(StaticSymbols, name) # {}
    <3> PICK i : IsFirst(StaticSymbols, name, i) /\ s = StaticSymbols[i]
      BY <2>1 DEF get_global_symbol_value, FirstNamed, IsFirst
    <3>1. i \in 1..p /\ i \in Named(all, name) /\ all[i] = s
      BY <1>2, <1>4, <1>5, <1>6 DEF IsFirst, Named
    <3>2. ASSUME NEW k \in Named(all, name) PROVE i <= k
      <4>1. CASE k \in 1..p
        BY <1>2, <1>6, <4>1 DEF IsFirst, Named
      <4>2. CASE k \in 1..(p + q) /\ k \notin 1..p
        BY <1>2, <3>1, <4>2, SMT
      <4> QED BY <1>4, <4>1, <4>2 DEF Named
    <3> QED BY <3>1, <3>2 DEF IsFirst
  <2>2. CASE Named(StaticSymbols, name) = {}
    <3> PICK i : IsFirst(symbols, name, i) /\ s = symbols[i]
      BY <2>2 DEF get_global_symbol_value, FirstNamed, IsFirst
    <3>1. i \in 1..q /\ i + p \in Named(all, name) /\ all[i + p] = s
      BY <1>2, <1>4, <1>5, <1>6 DEF IsFirst, Named
    <3>2. ASSUME NEW k \in Named(all, name) PROVE i + p <= k
      <4>1. k \notin 1..p
        BY <1>2, <1>6, <2>2 DEF Named
      <4>2. k \in 1..(p + q) /\ k - p \in 1..q /\ all[k] = symbols[k - p]
        BY <1>4, <1>7, <4>1 DEF Named
      <4>3. i <= k - p
        BY <1>2, <4>2 DEF IsFirst, Named
      <4> QED BY <1>2, <3>1, <4>2, <4>3, SMT
    <3> QED BY <3>1, <3>2 DEF IsFirst
  <2> QED BY <2>1, <2>2
<1> PICK i : IsFirst(all, name, i) /\ all[i] = s
  BY <1>8
<1>9. i = CHOOSE k \in Named(all, name) : \A j \in Named(all, name) : k <= j
  <2>1. \A k \in Named(all, name) : k \in Int
    BY <1>4, SMT DEF Named
  <2>2. \A k \in Named(all, name) : i <= k /\ k <= i => k = i
    BY <2>1, SMT DEF IsFirst
  <2> QED BY <2>2 DEF IsFirst
<1>10. Meaning(name) = all[CHOOSE k \in Named(all, name) : \A j \in Named(all, name) : k <= j]
  BY DEF Meaning, Named
<1> QED BY <1>9, <1>10

\* The symbol that a word's name finds now is the one it was written for.
LEMMA RefImplies ==
    ASSUME CoreInv, RefInv
    PROVE  RefsBound
BY MeaningIs DEF RefInv, WordInv, RefsBound

-----------------------------------------------------------------------------
(* Where sections lie. *)

\* Where a loaded section lies.
LEMMA SectionLies ==
    ASSUME CoreInv, NEW e \in DOMAIN modules, NEW i \in Loaded(e),
           NEW f \in Files, modules[e].sections = f.sections,
           NEW b, b = should_allocate_pmem(f.sections[i]),
           NEW t, t = Totals(AllocSizes(f.sections, b))
    PROVE  /\ Placed(modules[e], heap) /\ modules[e].addresses # << >>
           /\ i \in 1..Len(f.sections) /\ b \in BOOLEAN
           /\ Base(modules[e], b) \in Nat /\ (~b => modules[e].dmem \in DmemBases)
           /\ Start(e, i) \in Nat /\ Base(modules[e], b) + t[i - 1] <= Start(e, i)
           /\ End(e, i) \in Nat /\ End(e, i) <= Base(modules[e], b) + t[i]
           /\ f.sections[i].align # 0 => Start(e, i) % f.sections[i].align = 0
<1> PICK m : m = modules[e]
  OBVIOUS
<1>1. i \in DOMAIN m.addresses /\ m.addresses[i] # 0
  BY DEF Loaded
<1>2. m.addresses # << >>
  BY <1>1
<1>3. Placed(m, heap)
  BY <1>2 DEF CoreInv, MemInv, ModuleInv
<1>4. i \in 1..Len(f.sections)
  BY <1>1, <1>3, SizesNat DEF Placed, Addresses
<1>5. should_allocate(f.sections[i])
  BY <1>1, <1>3, <1>4, AddressNat
<1>6. /\ b \in BOOLEAN /\ Base(m, b) \in Nat /\ (~b => m.dmem \in DmemBases)
      /\ m.addresses[i] \in Nat /\ Base(m, b) + t[i - 1] <= m.addresses[i]
  BY <1>3, <1>4, <1>5, LoadedIn
<1>7. /\ m.addresses[i] + f.sections[i].size <= Base(m, b) + t[i]
      /\ f.sections[i].align # 0 => m.addresses[i] % f.sections[i].align = 0
  BY <1>3, <1>4, <1>5, LoadedIn
<1>8. f.sections[i].size \in Nat
  BY <1>4, SizesNat
<1>9. \A x, y \in Nat : x + y \in Nat
  BY SMT
<1>10. m.addresses[i] + f.sections[i].size \in Nat
  BY <1>6, <1>8, <1>9
<1>11. Start(e, i) = m.addresses[i] /\ End(e, i) = m.addresses[i] + f.sections[i].size
  BY DEF Start, End
<1> QED BY <1>2, <1>3, <1>4, <1>6, <1>7, <1>10, <1>11

\* It lies in the block of its kind.
LEMMA InBlock ==
    ASSUME CoreInv, NEW e \in DOMAIN modules, NEW i \in Loaded(e),
           NEW b, b = should_allocate_pmem(modules[e].sections[i])
    PROVE  /\ Placed(modules[e], heap) /\ modules[e].addresses # << >>
           /\ b \in BOOLEAN /\ (~b => modules[e].dmem \in DmemBases)
           /\ Base(modules[e], b) \in Nat /\ AllocSize(modules[e].sections, b) \in Nat
           /\ Start(e, i) \in Nat /\ End(e, i) \in Nat
           /\ Base(modules[e], b) <= Start(e, i)
           /\ End(e, i) <= Base(modules[e], b) + AllocSize(modules[e].sections, b)
<1> PICK f \in Files : modules[e].sections = f.sections
  BY DEF CoreInv, MemInv, ModuleInv
<1> PICK t : t = Totals(AllocSizes(f.sections, b))
  OBVIOUS
<1>1. /\ Placed(modules[e], heap) /\ modules[e].addresses # << >>
      /\ i \in 1..Len(f.sections) /\ b \in BOOLEAN
      /\ Base(modules[e], b) \in Nat /\ (~b => modules[e].dmem \in DmemBases)
  BY SectionLies
<1>2. /\ Start(e, i) \in Nat /\ Base(modules[e], b) + t[i - 1] <= Start(e, i)
      /\ End(e, i) \in Nat /\ End(e, i) <= Base(modules[e], b) + t[i]
  BY SectionLies
<1>3. t[i - 1] \in Nat /\ t[i] \in Nat /\ t[i] <= AllocSize(f.sections, b)
  BY <1>1, Shares
<1>4. AllocSize(f.sections, b) \in Nat
  BY <1>1, AllocSizeNat
<1>5. \A c, x, y, z, u, v \in Nat : c + x <= u /\ v <= c + y /\ y <= z => c <= u /\ v <= c + z
  BY SMT
<1>6. Base(modules[e], b) <= Start(e, i) /\ End(e, i) <= Base(modules[e], b) + AllocSize(f.sections, b)
  BY <1>1, <1>2, <1>3, <1>4, <1>5
<1> QED BY <1>1, <1>2, <1>4, <1>6

\* Two sections of one kind in one module.
LEMMA ApartInModule ==
    ASSUME CoreInv, NEW e \in DOMAIN modules, NEW i \in Loaded(e), NEW j \in Loaded(e), i < j,
           should_allocate_pmem(modules[e].sections[i]) = should_allocate_pmem(modules[e].sections[j])
    PROVE  End(e, i) <= Start(e, j)
<1> PICK f \in Files : modules[e].sections = f.sections
  BY DEF CoreInv, MemInv, ModuleInv
<1> PICK b, t : b = should_allocate_pmem(f.sections[i]) /\ t = Totals(AllocSizes(f.sections, b))
  OBVIOUS
<1>1. /\ i \in 1..Len(f.sections) /\ b \in BOOLEAN /\ Base(modules[e], b) \in Nat
      /\ End(e, i) \in Nat /\ End(e, i) <= Base(modules[e], b) + t[i]
  BY SectionLies
<1>2. b = should_allocate_pmem(f.sections[j])
  OBVIOUS
<1>3. /\ j \in 1..Len(f.sections)
      /\ Start(e, j) \in Nat /\ Base(modules[e], b) + t[j - 1] <= Start(e, j)
  BY <1>2, SectionLies
<1>4. t[i] \in Nat /\ t[i] <= t[j - 1]
  BY <1>1, <1>3, Shares
<1>5. t[j - 1] \in Nat
  BY <1>1, <1>3, Shares
<1>6. \A c, x, y, u, v \in Nat : u <= c + x /\ x <= y /\ c + y <= v => u <= v
  BY SMT
<1> QED BY <1>1, <1>3, <1>4, <1>5, <1>6

\* Two sections of one kind in two modules.
LEMMA ApartBetween ==
    ASSUME CoreInv, NEW e \in DOMAIN modules, NEW g \in DOMAIN modules, e # g,
           NEW i \in Loaded(e), NEW j \in Loaded(g),
           should_allocate_pmem(modules[e].sections[i]) = should_allocate_pmem(modules[g].sections[j])
    PROVE  Disjoint(Start(e, i), End(e, i), Start(g, j), End(g, j))
<1> PICK b : b = should_allocate_pmem(modules[e].sections[i])
  OBVIOUS
<1> PICK m, n : m = modules[e] /\ n = modules[g]
  OBVIOUS
<1>1. /\ m.addresses # << >> /\ b \in BOOLEAN /\ (~b => m.dmem \in DmemBases)
      /\ Base(m, b) \in Nat /\ AllocSize(m.sections, b) \in Nat
      /\ Start(e, i) \in Nat /\ End(e, i) \in Nat
      /\ Base(m, b) <= Start(e, i) /\ End(e, i) <= Base(m, b) + AllocSize(m.sections, b)
  BY InBlock
<1>2. b = should_allocate_pmem(modules[g].sections[j])
  OBVIOUS
<1>3. /\ n.addresses # << >> /\ (~b => n.dmem \in DmemBases)
      /\ Base(n, b) \in Nat /\ AllocSize(n.sections, b) \in Nat
      /\ Start(g, j) \in Nat /\ End(g, j) \in Nat
      /\ Base(n, b) <= Start(g, j) /\ End(g, j) <= Base(n, b) + AllocSize(n.sections, b)
  BY <1>2, InBlock
<1>4. NoShare(m, n)
  BY <1>1, <1>3 DEF CoreInv, MemInv
<1>5. \/ Base(m, b) + AllocSize(m.sections, b) <= Base(n, b)
      \/ Base(n, b) + AllocSize(n.sections, b) <= Base(m, b)
  <2>1. CASE b = TRUE
    BY <1>4, <2>1 DEF NoShare, Base
  <2>2. CASE b = FALSE
    <3>1. m.dmem # Null /\ n.dmem # Null
      BY <1>1, <1>3, <2>2, SmControlAssumption
    <3> QED BY <1>4, <2>2, <3>1 DEF NoShare, Base
  <2> QED BY <1>1, <2>1, <2>2
<1>6. \A c, x, u, v \in Nat : u <= c + x /\ c + x <= v => u <= v
  BY SMT
<1>7. \A x, y, z \in Nat : x <= y /\ y <= z => x <= z
  BY SMT
<1>8. CASE Base(m, b) + AllocSize(m.sections, b) <= Base(n, b)
  <2>1. End(e, i) <= Base(n, b)
    BY <1>1, <1>3, <1>6, <1>8
  <2> QED BY <1>1, <1>3, <1>7, <2>1 DEF Disjoint
<1>9. CASE Base(n, b) + AllocSize(n.sections, b) <= Base(m, b)
  <2>1. End(g, j) <= Base(m, b)
    BY <1>1, <1>3, <1>6, <1>9
  <2> QED BY <1>1, <1>3, <1>7, <2>1 DEF Disjoint
<1> QED BY <1>5, <1>8, <1>9

\* Data lies below code.
LEMMA ApartKinds ==
    ASSUME CoreInv, NEW e \in DOMAIN modules, NEW g \in DOMAIN modules,
           NEW i \in Loaded(e), NEW j \in Loaded(g),
           ~should_allocate_pmem(modules[e].sections[i]), should_allocate_pmem(modules[g].sections[j])
    PROVE  End(e, i) <= Start(g, j)
<1> PICK m, n : m = modules[e] /\ n = modules[g]
  OBVIOUS
<1>1. FALSE = should_allocate_pmem(modules[e].sections[i]) /\ TRUE = should_allocate_pmem(modules[g].sections[j])
  BY DEF should_allocate_pmem
<1>2. /\ m.dmem \in DmemBases /\ End(e, i) \in Nat /\ Base(m, FALSE) \in Nat
      /\ AllocSize(m.sections, FALSE) \in Nat
      /\ End(e, i) <= Base(m, FALSE) + AllocSize(m.sections, FALSE)
  BY <1>1, InBlock
<1>3. Start(g, j) \in Nat /\ Base(n, TRUE) <= Start(g, j) /\ Placed(n, heap)
  BY <1>1, InBlock
<1>4. m.dmem + AllocSize(m.sections, FALSE) <= DataEndRom
  BY <1>2, SmControlAssumption DEF CoreInv, MemInv, ModuleInv
<1>5. DataEndRom <= n.pmem /\ n.pmem \in Nat /\ DataEndRom \in Nat
  BY <1>3, HeapNat DEF Placed, CoreInv, MemInv
<1>6. \A c, x, d, w, u, v \in Nat : u <= c + x /\ c + x <= d /\ d <= w /\ w <= v => u <= v
  BY SMT
<1> QED BY <1>2, <1>3, <1>4, <1>5, <1>6 DEF Base

\* The blocks of two modules are apart, the sections of one follow each other,
\* and data memory lies below program memory.
LEMMA MemImplies ==
    ASSUME CoreInv
    PROVE  NoOverlap
<1>1. ASSUME NEW e \in DOMAIN modules, NEW g \in DOMAIN modules,
             NEW i \in Loaded(e), NEW j \in Loaded(g), e # g \/ i # j
      PROVE  Disjoint(Start(e, i), End(e, i), Start(g, j), End(g, j))
  <2> PICK b, c : /\ b = should_allocate_pmem(modules[e].sections[i])
                  /\ c = should_allocate_pmem(modules[g].sections[j])
                  /\ b \in BOOLEAN /\ c \in BOOLEAN
    BY DEF should_allocate_pmem
  <2>1. CASE b = c /\ e # g
    BY <2>1, ApartBetween
  <2>2. CASE b = c /\ e = g
    <3>1. \A k \in Loaded(e) : k \in Int
      <4> SUFFICES ASSUME NEW k \in Loaded(e) PROVE k \in Int
        OBVIOUS
      <4> PICK f \in Files : modules[e].sections = f.sections
        BY DEF CoreInv, MemInv, ModuleInv
      <4>1. k \in 1..Len(f.sections)
        BY SectionLies
      <4> QED BY <4>1, SMT
    <3>2. i < j \/ j < i
      BY <1>1, <2>2, <3>1, SMT
    <3> QED BY <2>2, <3>2, ApartInModule DEF Disjoint
  <2>3. CASE b # c
    BY <2>3, ApartKinds DEF Disjoint
  <2> QED BY <2>1, <2>2, <2>3
<1>2. ASSUME NEW e \in DOMAIN modules, NEW i \in Loaded(e)
      PROVE  LET sh == modules[e].sections[i]
             IN /\ sh.align # 0 => Start(e, i) % sh.align = 0
                /\ should_allocate_pmem(sh) => DataEndRom <= Start(e, i) /\ End(e, i) <= heap
  <2> PICK sh : sh = modules[e].sections[i]
    OBVIOUS
  <2>1. sh.align # 0 => Start(e, i) % sh.align = 0
    <3> PICK f \in Files : modules[e].sections = f.sections
      BY DEF CoreInv, MemInv, ModuleInv
    <3> QED BY SectionLies
  <2>2. ASSUME should_allocate_pmem(sh)
        PROVE  DataEndRom <= Start(e, i) /\ End(e, i) <= heap
    <3> PICK m : m = modules[e]
      OBVIOUS
    <3>1. TRUE = should_allocate_pmem(modules[e].sections[i])
      BY <2>2 DEF should_allocate_pmem
    <3>2. /\ Start(e, i) \in Nat /\ Base(m, TRUE) <= Start(e, i) /\ Placed(m, heap)
          /\ End(e, i) \in Nat /\ End(e, i) <= Base(m, TRUE) + AllocSize(m.sections, TRUE)
          /\ AllocSize(m.sections, TRUE) \in Nat
      BY <3>1, InBlock
    <3>3. /\ m.pmem \in Nat /\ DataEndRom <= m.pmem
          /\ m.pmem + AllocSize(m.sections, TRUE) <= heap
      BY <3>2 DEF Placed
    <3>4. heap \in Nat /\ DataEndRom \in Nat
      BY HeapNat DEF CoreInv, MemInv
    <3>5. \A c, x, d, u, v, h \in Nat : c <= u /\ v <= c + x /\ d <= c /\ c + x <= h => d <= u /\ v <= h
      BY SMT
    <3> QED BY <3>2, <3>3, <3>4, <3>5 DEF Base
  <2> QED BY <2>1, <2>2
<1> QED BY <1>1, <1>2 DEF NoOverlap

-----------------------------------------------------------------------------
(* The layouts of registered modules. *)

\* The layout that an entry was registered with is enabled, and what its name
\* finds; the symbols are linked into the program or belong to the modules in
\* from.
Protected(r) ==
    /\ r.id \in DOMAIN enabled
    /\ enabled[r.id].public_start \in Nat /\ enabled[r.id].public_end \in Nat
    /\ enabled[r.id].public_start < enabled[r.id].public_end
    /\ \A which \in Parts :
          \E s \in get_sm_symbol(r.name, which) :
              /\ s.value = enabled[r.id][which]
              /\ Named(StaticSymbols, <<r.name, which>>) = {} => s.owner \in r.from

\* That is so for every module that sm_load registered, and each was loaded
\* under a name of its own.
LayoutInv ==
    \A i \in DOMAIN sm_list :
        /\ sm_list[i].em = Null => sm_list[i].name = Null
        /\ sm_list[i].em # Null =>
              /\ Protected(sm_list[i])
              /\ sm_list[i].name # Null
              /\ \A j \in DOMAIN sm_list : j # i => sm_list[j].name # sm_list[i].name

\* A name finds one symbol.
LEMMA FoundOnce ==
    ASSUME IsSeq(symbols), NEW name, NEW s \in get_global_symbol_value(name)
    PROVE  get_global_symbol_value(name) = {s}
<1> PICK table : /\ IsSeq(table) /\ get_global_symbol_value(name) = FirstNamed(table, name)
  <2>1. IsSeq(StaticSymbols)
    BY SmControlAssumption DEF IsSeq
  <2> QED BY <2>1 DEF get_global_symbol_value
<1> PICK i : IsFirst(table, name, i) /\ s = table[i]
  BY DEF FirstNamed, IsFirst
<1> QED BY FirstOnly DEF IsSeq

\* Its value is a number, and its owner a module or, if it was linked into the
\* program, nobody.
LEMMA FoundTyped ==
    ASSUME CoreInv, OwnInv, NEW name, NEW s \in get_global_symbol_value(name)
    PROVE  /\ s.value \in Nat /\ s.owner \in DOMAIN modules \cup {Null}
<1>1. CASE Named(StaticSymbols, name) # {}
  <2>1. \E i \in DOMAIN StaticSymbols : s = StaticSymbols[i]
    BY <1>1 DEF get_global_symbol_value, FirstNamed, Named
  <2>2. s \in ToSet(StaticSymbols)
    BY <2>1 DEF ToSet
  <2> QED BY <2>2, SmControlAssumption
<1>2. CASE Named(StaticSymbols, name) = {}
  <2>1. \E i \in DOMAIN symbols : s = symbols[i]
    BY <1>2 DEF get_global_symbol_value, FirstNamed, Named
  <2> QED BY <2>1 DEF CoreInv, BaseInv, OwnInv
<1> QED BY <1>1, <1>2

\* A step that keeps the list, and the symbols that its entries rest on.
LEMMA LayoutKept ==
    ASSUME LayoutInv, UNCHANGED <<sm_list, enabled>>,
           \A i \in DOMAIN sm_list : \A name : \A s \in get_global_symbol_value(name) :
              (sm_list[i].em # Null /\ (Named(StaticSymbols, name) = {} => s.owner \in sm_list[i].from))
                 => s \in get_global_symbol_value(name)'
    PROVE  LayoutInv'
<1>1. ASSUME NEW i \in DOMAIN sm_list, sm_list[i].em # Null
      PROVE  Protected(sm_list[i])'
  <2> PICK r : r = sm_list[i]
    OBVIOUS
  <2>1. Protected(r)
    BY <1>1 DEF LayoutInv
  <2>2. ASSUME NEW which \in Parts
        PROVE  \E s \in get_sm_symbol(r.name, which)' :
                  /\ s.value = enabled[r.id][which]
                  /\ Named(StaticSymbols, <<r.name, which>>) = {} => s.owner \in r.from
    <3> PICK s \in get_sm_symbol(r.name, which) :
            /\ s.value = enabled[r.id][which]
            /\ Named(StaticSymbols, <<r.name, which>>) = {} => s.owner \in r.from
      BY <2>1 DEF Protected
    <3>1. s \in get_sm_symbol(r.name, which)'
      BY <1>1 DEF get_sm_symbol
    <3> QED BY <3>1
  <2>3. Protected(r)'
    BY <2>1, <2>2 DEF Protected
  <2> QED BY <2>3
<1> QED BY <1>1 DEF LayoutInv

\* A name whose layout is enabled cannot be registered again: the processor
\* refuses a layout that overlaps itself.
LEMMA NotTwice ==
    ASSUME CoreInv, NEW r, Protected(r)
    PROVE  ~Registrable(r.name)
<1> PICK j \in DOMAIN enabled : j = r.id
  BY DEF Protected
<1> PICK l : l = Layout(r.name)
  OBVIOUS
<1>1. ASSUME NEW which \in Parts
      PROVE  l[which] = enabled[j][which]
  <2> PICK s \in get_sm_symbol(r.name, which) : s.value = enabled[j][which]
    BY DEF Protected
  <2>1. get_sm_symbol(r.name, which) = {s}
    BY FoundOnce DEF get_sm_symbol, CoreInv, BaseInv
  <2> QED BY <2>1 DEF Layout
<1>2. l.public_start = enabled[j].public_start /\ l.public_end = enabled[j].public_end
  BY <1>1 DEF Parts
<1>3. ~Disjoint(l.public_start, l.public_end, enabled[j].public_start, enabled[j].public_end)
  <2>1. \A x, y \in Nat : x < y => ~(y <= x)
    BY SMT
  <2> QED BY <1>2, <2>1 DEF Disjoint, Protected
<1> QED BY <1>3 DEF Registrable, sancus_enable, Apart

\* What register_sm adds to the list is protected,
LEMMA NewProtected ==
    ASSUME CoreInv, OwnInv, register_sm, NEW r,
           r = [id |-> NewId, em |-> em, name |-> smname,
                from |-> {s.owner : s \in UNION {get_sm_symbol(smname, w) : w \in Parts}}]
    PROVE  Protected(r)'
<1> PICK name, l, from, j :
        /\ name = smname /\ l = Layout(smname) /\ j = Len(enabled) + 1
        /\ from = {s.owner : s \in UNION {get_sm_symbol(smname, w) : w \in Parts}}
  OBVIOUS
<1>1. r.id = j /\ r.name = name /\ r.from = from /\ Registrable(name)
  BY DEF NewId, register_sm
<1>2. symbols' = symbols /\ enabled' = Append(enabled, l) /\ IsSeq(enabled)
  BY DEF register_sm, CoreInv, BaseInv
<1>3. j \in DOMAIN enabled' /\ enabled'[j] = l
  BY <1>2, AppendFacts
<1>4. ASSUME NEW w \in Parts
      PROVE  \E s \in get_sm_symbol(name, w) :
                s.value = l[w] /\ s.value \in Nat /\ s.owner \in from
  <2> PICK s \in get_sm_symbol(name, w) : TRUE
    BY <1>1 DEF Registrable
  <2>1. get_sm_symbol(name, w) = {s} /\ s.value \in Nat
    BY FoundOnce, FoundTyped DEF get_sm_symbol, CoreInv, BaseInv
  <2>2. s.value = l[w]
    BY <2>1 DEF Layout
  <2> QED BY <2>1, <2>2
<1>5. \A w \in Parts : l[w] \in Nat
  BY <1>4
<1>6. l.public_start \in Nat /\ l.public_end \in Nat /\ l.public_start < l.public_end
  BY <1>1, <1>5 DEF Parts, Registrable, sancus_enable
<1>7. \A w \in Parts : get_sm_symbol(name, w)' = get_sm_symbol(name, w)
  BY <1>2 DEF get_sm_symbol, get_global_symbol_value
<1>8. ASSUME NEW w \in Parts
      PROVE  \E s \in get_sm_symbol(name, w)' :
                /\ s.value = l[w]
                /\ Named(StaticSymbols, <<name, w>>) = {} => s.owner \in from
  BY <1>4, <1>7
<1> QED BY <1>1, <1>3, <1>6, <1>8 DEF Protected

\* and what it held stays protected: registering changes no symbol.
LEMMA OldProtected ==
    ASSUME CoreInv, register_sm, NEW r, Protected(r)
    PROVE  Protected(r)'
<1>1. symbols' = symbols /\ IsSeq(enabled) /\ \E l : enabled' = Append(enabled, l)
  BY DEF register_sm, CoreInv, BaseInv
<1>2. r.id \in DOMAIN enabled' /\ enabled'[r.id] = enabled[r.id]
  BY <1>1, AppendFacts DEF Protected
<1>3. \A w \in Parts : get_sm_symbol(r.name, w)' = get_sm_symbol(r.name, w)
  BY <1>1 DEF get_sm_symbol, get_global_symbol_value
<1> QED BY <1>2, <1>3 DEF Protected

\* A module that is registered is the first one of its name.
LEMMA LayoutRegistered ==
    ASSUME CoreInv, OwnInv, LayoutInv, register_sm
    PROVE  LayoutInv'
<1> PICK r : r = [id |-> NewId, em |-> em, name |-> smname,
                  from |-> {s.owner : s \in UNION {get_sm_symbol(smname, w) : w \in Parts}}]
  OBVIOUS
<1> PICK n \in Nat : n = Len(sm_list)
  BY LenProperties DEF CoreInv, BaseInv, IsSeq
<1>1. /\ DOMAIN sm_list' = 1..(n + 1) /\ sm_list'[n + 1] = r
      /\ \A i \in DOMAIN sm_list' : i = n + 1 \/ (i \in DOMAIN sm_list /\ sm_list'[i] = sm_list[i])
  <2>1. sm_list' = Append(sm_list, r)
    BY DEF register_sm
  <2>2. IsSeq(sm_list)
    BY DEF CoreInv, BaseInv
  <2> QED BY <2>1, <2>2, AppendFacts
<1>2. r.em # Null /\ r.name # Null /\ Registrable(r.name)
  BY DEF register_sm
<1>3. Protected(r)'
  BY NewProtected
<1>4. ASSUME NEW i \in DOMAIN sm_list, sm_list[i].em # Null
      PROVE  Protected(sm_list[i]) /\ sm_list[i].name # r.name
  <2>1. Protected(sm_list[i])
    BY <1>4 DEF LayoutInv
  <2> QED BY <1>2, <2>1, NotTwice
<1>5. ASSUME NEW i \in DOMAIN sm_list
      PROVE  sm_list[i].name # r.name
  BY <1>2, <1>4, <1>5 DEF LayoutInv
<1>6. ASSUME NEW i \in DOMAIN sm_list'
      PROVE  /\ sm_list'[i].em = Null => sm_list'[i].name = Null
             /\ sm_list'[i].em # Null =>
                   /\ Protected(sm_list[i])'
                   /\ sm_list'[i].name # Null
                   /\ \A j \in DOMAIN sm_list' : j # i => sm_list'[j].name # sm_list'[i].name
  <2>1. CASE i = n + 1
    BY <1>1, <1>2, <1>3, <1>5, <2>1
  <2>2. CASE i # n + 1
    <3> PICK old : old = sm_list[i] /\ old = sm_list'[i] /\ i \in DOMAIN sm_list
      BY <1>1, <2>2
    <3>1. old.em # Null => Protected(old)'
      BY <1>4, OldProtected
    <3>2. old.em # Null => \A j \in DOMAIN sm_list' : j # i => sm_list'[j].name # old.name
      BY <1>1, <1>5 DEF LayoutInv
    <3> QED BY <3>1, <3>2 DEF LayoutInv
  <2> QED BY <2>1, <2>2
<1> QED BY <1>6 DEF LayoutInv

\* The list is empty at first.
LEMMA LayoutInit ==
    ASSUME Init
    PROVE  LayoutInv
<1>1. DOMAIN sm_list = {}
  BY DEF Init
<1> QED BY <1>1 DEF LayoutInv

\* Symbols are added after those that were found, and those of a registered
\* layout are not removed.
LEMMA LayoutNext ==
    ASSUME CoreInv, OwnInv, LayoutInv, [Next]_vars
    PROVE  LayoutInv'
<1>0. IsSeq(symbols) /\ IsSeq(sm_list)
  BY DEF CoreInv, BaseInv
<1>1. CASE UNCHANGED <<symbols, sm_list, enabled>>
  <2>1. \A name : get_global_symbol_value(name)' = get_global_symbol_value(name)
    BY <1>1 DEF get_global_symbol_value
  <2> QED BY <1>1, <2>1, LayoutKept
<1>2. CASE register_sm
  BY <1>2, LayoutRegistered
<1>3. CASE sm_register_existing /\ sm_list' # sm_list
  <2> PICK r : r.em = Null /\ r.name = Null /\ sm_list' = Append(sm_list, r)
    BY <1>3 DEF sm_register_existing
  <2>1. UNCHANGED <<symbols, enabled>>
    BY <1>3 DEF sm_register_existing
  <2>2. \A i \in DOMAIN sm_list' : \/ sm_list'[i] = r
                                   \/ i \in DOMAIN sm_list /\ sm_list'[i] = sm_list[i]
    BY <1>0, AppendFacts
  <2>3. \A old : Protected(old)' <=> Protected(old)
    BY <2>1 DEF Protected, get_sm_symbol, get_global_symbol_value
  <2> QED BY <2>2, <2>3 DEF LayoutInv
<1>4. CASE ClientUnloads
  <2> PICK e \in held : ~InUse(e) /\ elf_unload(e) /\ held' = held \ {e}
    BY <1>4 DEF ClientUnloads
  <2>1. UNCHANGED <<sm_list, enabled>> /\ remove_global_symbols(e)
    BY <1>4 DEF ClientUnloads, elf_unload
  <2>2. \A i \in DOMAIN sm_list : e \notin sm_list[i].from
    BY DEF InUse
  <2>3. ASSUME NEW i \in DOMAIN sm_list, NEW name, NEW s \in get_global_symbol_value(name),
               Named(StaticSymbols, name) = {} => s.owner \in sm_list[i].from
        PROVE  s \in get_global_symbol_value(name)'
    BY <1>0, <2>1, <2>2, <2>3, FoundKept
  <2> QED BY <2>1, <2>2, <2>3, LayoutKept
<1>5. CASE relocate_sections /\ UNCHANGED smVars /\ symbols' # symbols
  <2>1. elf_unload(em) /\ em \in DOMAIN modules /\ pc = "relocate"
    BY <1>5 DEF relocate_sections, CoreInv, PhaseInv, Loading
  <2>2. remove_global_symbols(em) /\ UNCHANGED <<sm_list, enabled>>
    BY <1>5, <2>1 DEF elf_unload, smVars
  <2>3. ASSUME NEW name, NEW s \in get_global_symbol_value(name)
        PROVE  s \in get_global_symbol_value(name)'
    <3>1. ASSUME Named(StaticSymbols, name) = {}
          PROVE  s.owner # em
      <4>1. \E i \in DOMAIN symbols : s = symbols[i]
        BY <3>1 DEF get_global_symbol_value, FirstNamed, Named
      <4> QED BY <2>1, <4>1 DEF OwnInv
    <3> QED BY <1>0, <2>2, <3>1, FoundKept
  <2> QED BY <2>2, <2>3, LayoutKept
<1>6. CASE update_global_symtab /\ UNCHANGED smVars /\ symbols' # symbols
  <2> PICK x : symbols' = Append(symbols, x)
    BY <1>6 DEF update_global_symtab, add_symbol
  <2>1. UNCHANGED <<sm_list, enabled>>
    BY <1>6 DEF smVars
  <2>2. \A name : \A s \in get_global_symbol_value(name) : s \in get_global_symbol_value(name)'
    BY <1>0, FoundStays
  <2> QED BY <2>1, <2>2, LayoutKept
<1>7. \/ UNCHANGED <<symbols, sm_list, enabled>>
      \/ register_sm \/ ClientUnloads
      \/ sm_register_existing /\ sm_list' # sm_list
      \/ relocate_sections /\ UNCHANGED smVars /\ symbols' # symbols
      \/ update_global_symtab /\ UNCHANGED smVars /\ symbols' # symbols
  <2>1. CASE Phase
    <3>1. load_sections => UNCHANGED symbols
      BY DEF load_sections
    <3> QED BY <2>1, <3>1 DEF Phase, smVars
  <2>2. CASE sm_load \/ ClientLoads
    BY <2>2 DEF sm_load, ClientLoads, StartLoad, elf_load
  <2>3. CASE LoadFails \/ RegisterFails \/ ClientLoaded
    BY <2>3 DEF LoadFails, RegisterFails, ClientLoaded
  <2>4. CASE sm_register_existing /\ sm_list' = sm_list
    BY <2>4 DEF sm_register_existing
  <2>5. CASE UNCHANGED vars
    BY <2>5 DEF vars, elfVars, smVars
  <2> QED BY <2>1, <2>2, <2>3, <2>4, <2>5 DEF Next
<1> QED BY <1>1, <1>2, <1>3, <1>4, <1>5, <1>6, <1>7

-----------------------------------------------------------------------------
(* The theorems. *)

\* CoreInv and TableInv say what TypeOK says.
LEMMA TypeImplies ==
    ASSUME CoreInv, TableInv
    PROVE  TypeOK
BY DEF CoreInv, MemInv, BaseInv, PhaseInv, TableInv, TypeOK

\* The inductive invariant.
IInv == CoreInv /\ OwnInv /\ TableInv /\ RefInv

\* Memory, the owners of modules, ids, and what words refer to: every step of
\* every load, registration and unloading keeps them together.
THEOREM Invariant == Spec => []IInv
<1>1. Init => IInv
  BY CoreInit, OwnInit, TableInit, RefInit DEF IInv
<1>2. IInv /\ [Next]_vars => IInv'
  BY CoreNext, OwnNext, TableNext, RefNext DEF IInv
<1> QED BY <1>1, <1>2, PTL DEF Spec

\* The heap of program memory is even and within its bounds, and every
\* symbol is one (pmem_malloc, update_global_symtab).
THEOREM TypeCorrect == Spec => []TypeOK
<1>1. IInv => TypeOK
  BY TypeImplies DEF IInv
<1> QED BY <1>1, Invariant, PTL

\* Every ElfModule is answered for by exactly one, and only they own symbols,
\* whichever load fails and where (elf_load's error paths, elf_unload,
\* register_sm).
THEOREM OneOwner == Spec => []Owned
<1>1. IInv => Owned
  BY OwnImplies DEF IInv
<1> QED BY <1>1, Invariant, PTL

\* Whatever the sizes and alignments of the sections, two never overlap, each
\* is aligned, and code lies in program memory (get_alloc_size, pmem_malloc,
\* load_sections).
THEOREM SectionsApart == Spec => []NoOverlap
<1>1. IInv => NoOverlap
  BY MemImplies DEF IInv
<1> QED BY <1>1, Invariant, PTL

\* A relocated word means to the end what it meant when it was written
\* (get_global_symbol_value, add_symbol, remove_global_symbols).
THEOREM WordsStayRight == Spec => []RefsBound
<1>1. IInv => RefsBound
  BY RefImplies DEF IInv
<1> QED BY <1>1, Invariant, PTL

\* Whatever the names that modules are loaded under and the symbols in their
\* files: what was protected for a module is what its name delimits to the end,
\* and no name is registered twice (register_sm, get_sm_symbol, sancus_enable).
THEOREM NamesKept == Spec => []LayoutsKept
<1>1. Init => LayoutInv
  BY LayoutInit
<1>2. IInv /\ LayoutInv /\ [Next]_vars => LayoutInv'
  BY LayoutNext DEF IInv
<1>3. LayoutInv => LayoutsKept
  BY DEF LayoutInv, LayoutsKept, Protected
<1> QED BY <1>1, <1>2, <1>3, Invariant, PTL DEF Spec

\* The list of modules implements SmTable: an id finds the module that it was
\* given to, and is never given twice (append_sm_list, find_sm_list).
THEOREM IdsKept == Spec => TableSpec
<1>1. Init => T!Init
  <2>1. Init => DOMAIN sm_list = {}
    BY DEF Init
  <2> QED BY <2>1 DEF T!Init
<1>2. IInv /\ IInv' /\ [Next]_vars => [T!Next]_Table
  BY TableStep DEF IInv
<1> QED BY <1>1, <1>2, Invariant, PTL DEF Spec, TableSpec, T!Spec, Table

=============================================================================
