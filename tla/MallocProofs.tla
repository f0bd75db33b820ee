---------------------------- MODULE MallocProofs ----------------------------
(***************************************************************************)
(* Proofs about Malloc for every pool size, growth quantum and set of      *)
(* requests that does not wrap a size_t (RequestsFit).                     *)
(***************************************************************************)
EXTENDS Malloc, TLAPS

\* What the control state says of the variables.
PcInv ==
    /\ freep = Null => pc = "idle" /\ avail = {} /\ DOMAIN live = {} /\ pool_free_pos = 0
    /\ pool_free_pos = Quanta * (Top - PoolStart)
    /\ pc = "search" \/ inner => nbytes \in Requests /\ nquantas = Quantas(nbytes)
    /\ inner => pc = "scan"
    /\ pc = "scan" => block \in Addr /\ block >= PoolStart /\ q \in avail

\* The block that get_mem_from_pool links starts at Top and serves the call.
InnerInv ==
    inner => block = Top /\ size[block] = PoolQuantas(nquantas)

\* The inductive invariant.
IInv ==
    /\ TypeOK
    /\ PcInv
    /\ InnerInv
    /\ Tiling
    /\ EnoughRoom
    /\ SortedRing
    /\ Coalesced
    /\ WalkSound

-----------------------------------------------------------------------------
(* Arithmetic of a request. *)

\* A size_t has 2^16 values.
LEMMA WordNat == Word \in Nat /\ Word > 0
BY SMT DEF Word

\* Under RequestsFit, the sizes asked for are natural numbers.
LEMMA RequestsNat == Requests \subseteq Nat
<1>1. \A x \in 0..(Word - 1) : x \in Nat
  BY WordNat, SMT
<1> QED BY <1>1, MallocAssumption

\* 16-bit arithmetic is exact below 2^16.
LEMMA NoWrap ==
    ASSUME NEW x \in Nat, x < Word
    PROVE  x % Word = x
BY SMT DEF Word

\* Rounding up to whole quantas.
LEMMA RoundUp ==
    ASSUME NEW x \in Nat
    PROVE  /\ (x + 3) \div 4 \in Nat
           /\ x <= 4 * ((x + 3) \div 4)
           /\ 4 * ((x + 3) \div 4) <= x + 3
BY SMT

\* The computation of nquantas does not wrap, and covers the request and a
\* header.
LEMMA QuantasFit ==
    ASSUME RequestsFit, NEW n \in Requests
    PROVE  /\ Quantas(n) \in Nat /\ Quantas(n) >= 1
           /\ n + 4 <= 4 * Quantas(n)
           /\ 4 * Quantas(n) <= n + 7
<1>1. /\ PoolSize + n + 8 <= Word
      /\ PoolSize \in Nat /\ n \in Nat
  BY MallocAssumption, WordNat, SMT DEF RequestsFit, Quanta
<1>2. n + Quanta - 1 = n + 3 /\ n + 3 < Word /\ n + 3 \in Nat
  BY <1>1, WordNat, SMT DEF Quanta
<1>3. Quantas(n) = (n + 3) \div 4 + 1
  BY <1>2, NoWrap DEF Quantas, Quanta
<1> DEFINE d == (n + 3) \div 4
<1>4. d \in Nat /\ n <= 4 * d /\ 4 * d <= n + 3
  BY <1>1, RoundUp
<1> HIDE DEF d
<1>5. d + 1 \in Nat /\ d + 1 >= 1 /\ n + 4 <= 4 * (d + 1) /\ 4 * (d + 1) <= n + 7
  BY <1>4, <1>1, SMT
<1> QED BY <1>3, <1>5 DEF d

\* Neither the block's size in bytes nor the new pool_free_pos wraps.
LEMMA PoolBytesFit ==
    ASSUME RequestsFit, NEW n \in Requests
    PROVE  /\ PoolQuantas(Quantas(n)) \in Nat
           /\ PoolQuantas(Quantas(n)) >= Quantas(n)
           /\ PoolBytes(Quantas(n)) = 4 * PoolQuantas(Quantas(n))
           /\ 4 * PoolQuantas(Quantas(n)) + PoolSize < Word
<1> DEFINE k == Quantas(n)
<1>1. k \in Nat /\ k >= 1 /\ 4 * k <= n + 7
  BY QuantasFit
<1>2. /\ PoolSize + 4 * MinPool < Word
      /\ PoolSize + n + 8 <= Word
      /\ MinPool \in Nat /\ PoolSize \in Nat /\ n \in Nat
  BY MallocAssumption, WordNat, SMT DEF RequestsFit, Quanta
<1> HIDE DEF k
<1>3. /\ PoolQuantas(k) \in Nat /\ PoolQuantas(k) >= k
      /\ 4 * PoolQuantas(k) + PoolSize < Word
  BY <1>1, <1>2, WordNat, SMT DEF PoolQuantas
<1>4. PoolQuantas(k) * Quanta = 4 * PoolQuantas(k)
  BY <1>3, SMT DEF Quanta
<1>5. 4 * PoolQuantas(k) \in Nat /\ 4 * PoolQuantas(k) < Word
  BY <1>2, <1>3, WordNat, SMT
<1>6. PoolBytes(k) = 4 * PoolQuantas(k)
  BY <1>4, <1>5, NoWrap DEF PoolBytes
<1> QED BY <1>3, <1>6 DEF k

\* Top, the first quanta beyond what was carved, is a natural number.
LEMMA TopNat ==
    ASSUME NEW x \in Nat
    PROVE  PoolStart + x \div Quanta \in Nat
BY SMT DEF PoolStart, Quanta

\* pool_free_pos and Top name the same place in bytes and in quantas.
LEMMA TopIs ==
    ASSUME NEW t \in Nat, NEW x \in Nat, x <= PoolSize, x = 4 * t
    PROVE  /\ x \div 4 = t
           /\ t <= PoolSize \div 4
           /\ PoolSize \div 4 \in Nat
<1>1. PoolSize \in Nat
  BY MallocAssumption
<1>2. x \div 4 = t
  BY SMT
<1>3. PoolSize \div 4 \in Nat
  BY <1>1, SMT
<1>4. t <= PoolSize \div 4
  BY <1>1, SMT
<1> QED BY <1>2, <1>3, <1>4

-----------------------------------------------------------------------------
(* Addresses. *)

\* What p + k addresses, for blocks and quantas of the pool.
LEMMA Addresses ==
    /\ PoolEnd \in Nat /\ PoolEnd >= 2
    /\ Base = 1 /\ Null = 0 /\ PoolStart = 2 /\ Quanta = 4
    /\ \A a : a \in Addr <=> a \in Nat /\ (a = 1 \/ (2 <= a /\ a < PoolEnd))
<1>1. PoolSize \in Nat
  BY MallocAssumption
<1>2. PoolSize \div 4 \in Nat
  BY <1>1, SMT
<1>3. PoolEnd = 2 + PoolSize \div 4
  BY SMT DEF PoolEnd, PoolStart, Quanta
<1> QED BY <1>2, <1>3, SMT DEF Addr, Base, Null, PoolStart, Quanta

-----------------------------------------------------------------------------
(* The invariant holds initially. *)

\* An untouched pool satisfies the invariant.
LEMMA InitIInv == Init => IInv
<1> SUFFICES ASSUME Init PROVE IInv
  OBVIOUS
<1>0. PoolSize \in Nat
  BY MallocAssumption
<1>1. Top = 2
  BY SMT DEF Init, Top, PoolStart, Quanta
<1>2. TypeOK
  <2>1. PoolEnd - PoolStart \in Nat
    BY Addresses, SMT
  <2>2. next \in [Addr -> Addr \cup {Null}] /\ size \in [Addr -> 0..(PoolEnd - PoolStart)]
    BY <2>1, Addresses, SMT DEF Init
  <2>3. DOMAIN live = {} /\ avail = {}
    BY SMT DEF Init
  <2>4. \A u \in DOMAIN live : live[u] \in Requests
    BY <2>3, SMT
  <2>5. pool_free_pos \in 0..PoolSize /\ nquantas \in Nat /\ nbytes \in Requests \cup {0}
    BY <1>0, SMT DEF Init
  <2>6. freep \in Addr \cup {Null} /\ prevp \in Addr \cup {Null} /\ p \in Addr \cup {Null}
    BY SMT DEF Init
  <2>7. pc \in {"idle", "search", "scan"} /\ inner \in BOOLEAN
    BY DEF Init
  <2>8. block \in Addr \cup {Null} /\ q \in Addr \cup {Null}
    BY SMT DEF Init
  <2>9. DOMAIN live \subseteq Pointers /\ avail \subseteq Addr
    BY <2>3, SMT
  <2> QED BY <2>2, <2>4, <2>5, <2>6, <2>7, <2>8, <2>9 DEF TypeOK
<1>3. LiveBlocks = {} /\ Blocks = {} /\ InHand = {}
  BY SMT DEF Init, LiveBlocks, Blocks, FreeBlocks, InHand
<1>4. PcInv /\ InnerInv
  BY <1>1, SMT DEF Init, PcInv, InnerInv, PoolStart, Quanta
<1>5. Tiling
  BY <1>1, <1>3, Addresses, SMT
  DEF Init, Tiling, CarvedEnd, KindsApart, BlocksApart, NothingLost, PoolStart
<1>6. EnoughRoom /\ SortedRing /\ Coalesced /\ WalkSound
  BY SMT DEF Init, EnoughRoom, SortedRing, Coalesced, WalkSound, FreeBlocks
<1> QED BY <1>2, <1>4, <1>5, <1>6 DEF IInv

-----------------------------------------------------------------------------
(* Every step preserves the invariant: one lemma per action. *)

\* The numbers the invariant talks about are numbers.
LEMMA Numbers ==
    ASSUME IInv
    PROVE  /\ Top \in Nat /\ Top >= 2 /\ pool_free_pos \in Nat
           /\ pool_free_pos = 4 * (Top - 2)
           /\ CarvedEnd \in Nat /\ Top <= CarvedEnd /\ CarvedEnd <= PoolEnd
           /\ \A a \in Addr : size[a] \in Nat
<1>1. pool_free_pos \in Nat /\ \A a \in Addr : size[a] \in Nat
  BY Addresses, MallocAssumption, SMT DEF IInv, TypeOK
<1>2. Top \in Nat /\ Top >= 2
  BY <1>1, SMT DEF Top, PoolStart, Quanta
<1>3. pool_free_pos = 4 * (Top - 2)
  BY Addresses, SMT DEF IInv, PcInv
<1>4. inner => PoolQuantas(nquantas) \in Nat
  BY MallocAssumption, SMT DEF IInv, TypeOK, PoolQuantas
<1>5. CarvedEnd \in Nat /\ Top <= CarvedEnd
  BY <1>2, <1>4, SMT DEF CarvedEnd
<1> QED BY <1>1, <1>2, <1>3, <1>5 DEF IInv, Tiling

\* A call of malloc starts the walk at freep, or carves if nothing is free.
LEMMA MallocCallIInv ==
    ASSUME RequestsFit, IInv, NEW n \in Requests, MallocCall(n)
    PROVE  IInv'
<1> USE Addresses, Numbers
<1>1. /\ LiveBlocks' = LiveBlocks /\ Top' = Top /\ ~inner /\ CarvedEnd' = CarvedEnd
      /\ InHand = {} /\ InHand' = {} /\ pc = "idle"
  BY SMT DEF MallocCall, freeVars, LiveBlocks, Top, CarvedEnd, InHand, IInv, PcInv
<1>2. nquantas' \in Nat
  BY QuantasFit DEF MallocCall
<1>3. CASE freep = Null
  <2>1. /\ avail = {} /\ DOMAIN live = {} /\ pool_free_pos = 0
        /\ avail' = {1} /\ freep' = 1 /\ p' = 1 /\ prevp' = 1
        /\ next' = [next EXCEPT ![1] = 1] /\ size' = [size EXCEPT ![1] = 0]
    BY <1>3, SMT DEF MallocCall, IInv, PcInv, TypeOK
  <2>2. TypeOK'
    BY <2>1, <1>2, SMT DEF MallocCall, freeVars, IInv, TypeOK
  <2>3. LiveBlocks = {} /\ Blocks' = {} /\ CarvedEnd = 2
    BY <2>1, <1>1, SMT DEF LiveBlocks, Blocks, FreeBlocks, CarvedEnd
  <2>4. PcInv' /\ InnerInv'
    BY <2>1, <1>1, SMT DEF MallocCall, freeVars, PcInv, InnerInv, IInv
  <2>5. Tiling'
    BY <2>1, <2>3, <1>1, SMT
    DEF Tiling, KindsApart, BlocksApart, NothingLost
  <2>6. next'[1] = 1 /\ size'[1] = 0
    BY <2>1, SMT DEF IInv, TypeOK
  <2>7. SortedRing' /\ Coalesced' /\ WalkSound' /\ EnoughRoom'
    BY <2>1, <2>6, SMT DEF MallocCall, SortedRing, NextIsSuccessor, Coalesced, FreeBlocks,
       WalkSound, Passed, EnoughRoom
  <2> QED BY <2>2, <2>4, <2>5, <2>7 DEF IInv
<1>4. CASE freep # Null
  <2>1. /\ avail' = avail /\ freep' = freep /\ p' = next[freep] /\ prevp' = freep
        /\ next' = next /\ size' = size /\ live' = live
        /\ freep \in avail /\ freep \in Addr /\ next[freep] \in avail
    BY <1>4, SMT DEF MallocCall, IInv, SortedRing, NextIsSuccessor, TypeOK
  <2>2. TypeOK'
    BY <2>1, <1>2, SMT DEF MallocCall, freeVars, IInv, TypeOK
  <2>3. Blocks' = Blocks /\ FreeBlocks' = FreeBlocks
    BY <2>1, <1>1, SMT DEF Blocks, FreeBlocks
  <2>4. PcInv' /\ InnerInv'
    BY <1>4, <2>1, <1>1, SMT DEF MallocCall, freeVars, PcInv, InnerInv, IInv
  <2>5. Tiling'
    BY <2>1, <2>3, <1>1, SMT
    DEF IInv, Tiling, KindsApart, BlocksApart, NothingLost
  <2>6. SortedRing' /\ Coalesced' /\ EnoughRoom'
    BY <2>1, <2>3, SMT DEF IInv, SortedRing, NextIsSuccessor, Coalesced, EnoughRoom
  <2>7. WalkSound'
    <3>1. \A b \in avail : ~ Passed(b)'
      BY <2>1, <1>4, SMT DEF Passed, IInv, SortedRing, NextIsSuccessor, TypeOK
    <3> QED BY <2>1, <3>1 DEF WalkSound
  <2> QED BY <2>2, <2>4, <2>5, <2>6, <2>7 DEF IInv
<1> QED BY <1>3, <1>4

\* The steps of the walk that only move prevp and p.
LEMMA AdvanceIInv ==
    ASSUME IInv, Advance
    PROVE  IInv'
<1> USE Addresses, Numbers
<1>1. /\ LiveBlocks' = LiveBlocks /\ FreeBlocks' = FreeBlocks /\ InHand' = InHand
      /\ Blocks' = Blocks /\ Top' = Top /\ CarvedEnd' = CarvedEnd
  BY SMT DEF Advance, headers, freeVars, LiveBlocks, FreeBlocks, InHand, Blocks, Top,
     CarvedEnd
<1>2. /\ freep # 0 /\ p \in avail /\ p \in Addr /\ next[p] \in avail
      /\ prevp \in avail /\ next[prevp] = p
  BY SMT DEF Advance, IInv, PcInv, TypeOK, SortedRing, NextIsSuccessor, WalkSound
<1>3. TypeOK'
  BY <1>2, SMT DEF Advance, headers, freeVars, IInv, TypeOK
<1>4. PcInv' /\ InnerInv'
  BY <1>1, SMT DEF Advance, headers, freeVars, IInv, PcInv, InnerInv
<1>5. Tiling' /\ EnoughRoom' /\ SortedRing' /\ Coalesced'
  BY <1>1, SMT DEF Advance, headers, IInv, Tiling, KindsApart, BlocksApart, NothingLost,
     EnoughRoom, SortedRing, NextIsSuccessor, Coalesced
<1>6. \A b \in avail : Passed(b)' => Passed(b) \/ b = p
  <2>1. /\ freep \in avail /\ freep \in Addr /\ p # freep /\ p' = next[p] /\ freep' = freep
        /\ avail \subseteq Addr
    BY <1>2, SMT DEF Advance, headers, freeVars, IInv, TypeOK, SortedRing
  <2>2. /\ next[p] > p \/ next[p] = 1
        /\ \A b \in avail : b > p => p < next[p] /\ next[p] <= b
    BY <1>2, SMT DEF IInv, SortedRing, NextIsSuccessor
  <2> QED BY <2>1, <2>2, <1>2, SMT DEF Passed
<1>7. WalkSound'
  BY <1>2, <1>6, SMT DEF Advance, headers, WalkSound, IInv
<1> QED BY <1>3, <1>4, <1>5, <1>7 DEF IInv

\* The scan of free moves one block on.
LEMMA ScanStepIInv ==
    ASSUME IInv, ScanStep
    PROVE  IInv'
<1> USE Addresses, Numbers
<1>1. /\ LiveBlocks' = LiveBlocks /\ FreeBlocks' = FreeBlocks /\ InHand' = InHand
      /\ Blocks' = Blocks /\ Top' = Top /\ CarvedEnd' = CarvedEnd
  BY SMT DEF ScanStep, headers, callVars, LiveBlocks, FreeBlocks, InHand, Blocks, Top,
     CarvedEnd
<1>2. /\ freep # 0 /\ q \in avail /\ next[q] \in avail /\ next[q] \in Addr
  BY SMT DEF ScanStep, IInv, PcInv, TypeOK, SortedRing, NextIsSuccessor
<1>3. TypeOK'
  BY <1>2, SMT DEF ScanStep, headers, callVars, IInv, TypeOK
<1>4. PcInv' /\ InnerInv'
  BY <1>1, <1>2, SMT DEF ScanStep, headers, callVars, IInv, PcInv, InnerInv
<1>5. Tiling' /\ EnoughRoom' /\ SortedRing' /\ Coalesced' /\ WalkSound'
  BY <1>1, SMT DEF ScanStep, headers, callVars, IInv, Tiling, KindsApart, BlocksApart,
     NothingLost, EnoughRoom, SortedRing, NextIsSuccessor, Coalesced, WalkSound
<1> QED BY <1>3, <1>4, <1>5 DEF IInv

\* A request that finds no room changes the call only.
LEMMA ExhaustedIInv ==
    ASSUME IInv, Exhausted
    PROVE  IInv'
<1> USE Addresses, Numbers
<1>1. /\ LiveBlocks' = LiveBlocks /\ FreeBlocks' = FreeBlocks /\ InHand' = InHand
      /\ Blocks' = Blocks /\ Top' = Top /\ CarvedEnd' = CarvedEnd /\ ~inner
  BY SMT DEF Exhausted, headers, freeVars, LiveBlocks, FreeBlocks, InHand, Blocks, Top,
     CarvedEnd, IInv, PcInv
<1>2. TypeOK'
  BY SMT DEF Exhausted, headers, freeVars, IInv, TypeOK
<1>3. PcInv' /\ InnerInv'
  BY <1>1, SMT DEF Exhausted, headers, freeVars, IInv, PcInv, InnerInv
<1>4. Tiling' /\ EnoughRoom' /\ SortedRing' /\ Coalesced' /\ WalkSound'
  BY <1>1, SMT DEF Exhausted, headers, IInv, Tiling, KindsApart, BlocksApart,
     NothingLost, EnoughRoom, SortedRing, NextIsSuccessor, Coalesced, WalkSound
<1> QED BY <1>2, <1>3, <1>4 DEF IInv

\* malloc returns r: the live map gains r + 1.
LEMMA ReturnPtrLive ==
    ASSUME IInv, pc = "search", NEW r \in Addr, r >= 2, ReturnPtr(r)
    PROVE  /\ DOMAIN live' = DOMAIN live \cup {r + 1}
           /\ \A u \in DOMAIN live' : live'[u] = IF u = r + 1 THEN nbytes ELSE live[u]
           /\ LiveBlocks' = LiveBlocks \cup {r}
           /\ DOMAIN live' \subseteq Pointers
           /\ \A u \in DOMAIN live' : live'[u] \in Requests
<1> USE Addresses
<1>1. /\ DOMAIN live' = DOMAIN live \cup {r + 1}
      /\ \A u \in DOMAIN live' : live'[u] = IF u = r + 1 THEN nbytes ELSE live[u]
  BY SMT DEF ReturnPtr
<1>2. LiveBlocks' = LiveBlocks \cup {r}
  BY <1>1, SMT DEF LiveBlocks
<1>3. DOMAIN live \subseteq Pointers /\ \A u \in DOMAIN live : live[u] \in Requests
  BY DEF IInv, TypeOK
<1>4. nbytes \in Requests
  BY DEF IInv, PcInv
<1>5. r + 1 \in Pointers
  BY SMT DEF Pointers
<1> QED BY <1>1, <1>2, <1>3, <1>4, <1>5

\* The ring around the block at p that the walk stands on.
LEMMA RingAtP ==
    ASSUME IInv, pc = "search", size[p] > 0
    PROVE  /\ freep # 0 /\ ~inner /\ InHand = {} /\ CarvedEnd = Top
           /\ p \in FreeBlocks /\ p \in Addr /\ p >= 2 /\ p \in avail /\ p \notin LiveBlocks
           /\ prevp \in avail /\ prevp \in Addr /\ prevp < p /\ next[prevp] = p
           /\ next[p] \in avail /\ next[p] # p
           /\ \A a \in avail : a # prevp => next[a] # p
<1> USE Addresses, Numbers
<1>1. /\ freep # 0 /\ ~inner /\ prevp \in avail /\ next[prevp] = p /\ InHand = {}
      /\ CarvedEnd = Top /\ avail \subseteq Addr
  BY SMT DEF IInv, PcInv, WalkSound, InHand, CarvedEnd, TypeOK
<1>2. \A a \in avail : NextIsSuccessor(a)
  BY <1>1, SMT DEF IInv, SortedRing
<1>3. p \in avail /\ p \in Addr /\ p # 1 /\ prevp \in Addr
  BY <1>1, <1>2, SMT DEF NextIsSuccessor, IInv, SortedRing
<1>4. p \in FreeBlocks /\ p >= 2 /\ p \notin LiveBlocks
  BY <1>3, SMT DEF FreeBlocks, IInv, Tiling, KindsApart
<1>5. prevp < p
  BY <1>1, <1>2, <1>3, SMT DEF NextIsSuccessor
<1>6. next[p] \in avail /\ next[p] # p
  BY <1>2, <1>3, SMT DEF NextIsSuccessor
<1>7. \A a \in avail : a # prevp => next[a] # p
  BY <1>1, <1>2, <1>3, <1>5, SMT DEF NextIsSuccessor
<1> QED BY <1>1, <1>3, <1>4, <1>5, <1>6, <1>7

\* Unlinking a block that fits exactly leaves a sorted, coalesced ring.
LEMMA TakeExactIInv ==
    ASSUME RequestsFit, IInv, TakeExact
    PROVE  IInv'
<1> USE Addresses, Numbers
<1>1. /\ pc = "search" /\ nbytes \in Requests /\ nquantas = Quantas(nbytes)
      /\ nquantas \in Nat /\ size[p] = nquantas
  BY SMT DEF TakeExact, IInv, PcInv, TypeOK
<1>2. nquantas >= 1 /\ nbytes + 4 <= 4 * nquantas
  BY <1>1, QuantasFit
<1>3. size[p] > 0
  BY <1>1, <1>2, SMT
<1>4. /\ freep # 0 /\ ~inner /\ InHand = {} /\ CarvedEnd = Top
      /\ p \in FreeBlocks /\ p \in Addr /\ p >= 2 /\ p \in avail /\ p \notin LiveBlocks
      /\ prevp \in avail /\ prevp \in Addr /\ prevp < p /\ next[prevp] = p
      /\ next[p] \in avail /\ next[p] # p
      /\ \A a \in avail : a # prevp => next[a] # p
  BY <1>1, <1>3, RingAtP
<1>5. ReturnPtr(p)
  BY DEF TakeExact
<1>6. /\ DOMAIN live' = DOMAIN live \cup {p + 1}
      /\ \A u \in DOMAIN live' : live'[u] = IF u = p + 1 THEN nbytes ELSE live[u]
      /\ LiveBlocks' = LiveBlocks \cup {p}
      /\ DOMAIN live' \subseteq Pointers
      /\ \A u \in DOMAIN live' : live'[u] \in Requests
  BY <1>1, <1>4, <1>5, ReturnPtrLive
<1>7. /\ next' = [next EXCEPT ![prevp] = next[p], ![p] = 0]
      /\ size' = size /\ freep' = prevp /\ avail' = avail \ {p}
      /\ pc' = "idle" /\ ~inner' /\ Top' = Top /\ CarvedEnd' = CarvedEnd
      /\ pool_free_pos' = pool_free_pos /\ InHand' = {}
  BY <1>1, <1>4, SMT DEF TakeExact, ReturnPtr, freeVars, Top, CarvedEnd, InHand
<1>8. next \in [Addr -> Addr \cup {0}] /\ avail \subseteq Addr
  BY SMT DEF IInv, TypeOK
<1>9. \A a \in Addr : next'[a] = IF a = p THEN 0 ELSE IF a = prevp THEN next[p] ELSE next[a]
  BY <1>7, <1>8, <1>4, SMT
<1>10. TypeOK'
  <2>1. next' \in [Addr -> Addr \cup {0}] /\ avail' \subseteq Addr
    BY <1>4, <1>7, <1>8, SMT
  <2>2. inner' \in BOOLEAN
    BY DEF TakeExact, freeVars, IInv, TypeOK
  <2>3. /\ size' \in [Addr -> 0..(PoolEnd - PoolStart)] /\ freep' \in Addr \cup {Null}
        /\ pool_free_pos' \in 0..PoolSize
        /\ pc' \in {"idle", "search", "scan"}
        /\ nbytes' \in Requests \cup {0} /\ nquantas' \in Nat
        /\ prevp' \in Addr \cup {Null} /\ p' \in Addr \cup {Null}
        /\ block' \in Addr \cup {Null} /\ q' \in Addr \cup {Null}
    BY <1>4, <1>7, SMT DEF TakeExact, ReturnPtr, freeVars, IInv, TypeOK
  <2> QED BY <2>1, <2>2, <2>3, <1>6, Addresses DEF TypeOK
<1>11. PcInv' /\ InnerInv'
  BY <1>4, <1>7, SMT DEF IInv, PcInv, InnerInv
<1>12. FreeBlocks' = FreeBlocks \ {p} /\ Blocks' = Blocks
  BY <1>4, <1>6, <1>7, SMT DEF Blocks, FreeBlocks
<1>13. Tiling'
  BY <1>4, <1>6, <1>7, <1>12, SMT DEF IInv, Tiling, KindsApart, BlocksApart, NothingLost
<1>14. EnoughRoom'
  <2>1. ASSUME NEW u \in DOMAIN live' PROVE live'[u] + Quanta <= Quanta * size'[u - 1]
    <3>1. CASE u = p + 1
      BY <3>1, <1>1, <1>2, <1>4, <1>6, <1>7, SMT
    <3>2. CASE u # p + 1
      BY <3>2, <1>6, <1>7, SMT DEF IInv, EnoughRoom
    <3> QED BY <3>1, <3>2
  <2> QED BY <2>1 DEF EnoughRoom
<1>15. SortedRing'
  <2>1. /\ 1 \in avail /\ size[1] = 0 /\ \A a \in avail : NextIsSuccessor(a)
    BY <1>4, SMT DEF IInv, SortedRing
  <2>2. ASSUME NEW a \in avail' PROVE NextIsSuccessor(a)'
    BY <2>1, <1>4, <1>7, <1>8, <1>9, SMT DEF NextIsSuccessor
  <2> QED BY <2>1, <2>2, <1>4, <1>7, SMT DEF SortedRing
<1>16. Coalesced' /\ WalkSound'
  BY <1>7, <1>12, SMT DEF IInv, Coalesced, WalkSound
<1> QED BY <1>10, <1>11, <1>13, <1>14, <1>15, <1>16 DEF IInv

\* Splitting a larger block keeps its head free and tiles the same quantas.
LEMMA TakeTailIInv ==
    ASSUME RequestsFit, IInv, TakeTail
    PROVE  IInv'
<1> USE Addresses, Numbers
<1> DEFINE rest == size[p] - nquantas
           r == p + rest
<1>1. /\ pc = "search" /\ nbytes \in Requests /\ nquantas = Quantas(nbytes)
      /\ nquantas \in Nat /\ size[p] > nquantas
  BY SMT DEF TakeTail, IInv, PcInv, TypeOK
<1>2. nquantas >= 1 /\ nbytes + 4 <= 4 * nquantas
  BY <1>1, QuantasFit
<1>3. p \in Addr /\ size[p] \in Nat /\ size[p] > 0
  <2>1. p \in avail /\ avail \subseteq Addr
    BY <1>1, SMT DEF IInv, PcInv, TypeOK, WalkSound, SortedRing, NextIsSuccessor
  <2> QED BY <1>1, <2>1, SMT
<1>4. /\ freep # 0 /\ ~inner /\ InHand = {} /\ CarvedEnd = Top
      /\ p \in FreeBlocks /\ p \in Addr /\ p >= 2 /\ p \in avail /\ p \notin LiveBlocks
      /\ prevp \in avail /\ prevp \in Addr /\ prevp < p /\ next[prevp] = p
  BY <1>1, <1>3, RingAtP
<1>5. /\ \A a \in Blocks : a >= 2 /\ size[a] > 0 /\ a + size[a] <= Top /\ a \in Addr
      /\ \A a, b \in Blocks : a < b => a + size[a] <= b
      /\ p \in Blocks
  <2>1. Blocks \subseteq Addr
    BY <1>4, SMT DEF Blocks, LiveBlocks, FreeBlocks, IInv, TypeOK, Pointers
  <2> QED BY <2>1, <1>4, SMT DEF IInv, Tiling, BlocksApart, Blocks
<1>6. /\ r \in Addr /\ r >= 2 /\ r > p /\ rest \in Nat /\ rest > 0
      /\ r + nquantas = p + size[p] /\ r < p + size[p] /\ r = p + rest
  BY <1>1, <1>2, <1>3, <1>4, <1>5, SMT
<1>7. r \notin Blocks /\ r \notin avail
  <2>1. r \notin Blocks
    BY <1>5, <1>6, SMT
  <2> QED BY <2>1, <1>6, SMT DEF Blocks, FreeBlocks
<1>8. ReturnPtr(r)
  BY DEF TakeTail
<1>9. /\ DOMAIN live' = DOMAIN live \cup {r + 1}
      /\ \A u \in DOMAIN live' : live'[u] = IF u = r + 1 THEN nbytes ELSE live[u]
      /\ LiveBlocks' = LiveBlocks \cup {r}
      /\ DOMAIN live' \subseteq Pointers
      /\ \A u \in DOMAIN live' : live'[u] \in Requests
  BY <1>1, <1>6, <1>8, ReturnPtrLive
<1>10. /\ next' = next /\ freep' = prevp /\ avail' = avail
       /\ size' = [size EXCEPT ![p] = rest, ![r] = nquantas]
       /\ pc' = "idle" /\ ~inner' /\ Top' = Top /\ CarvedEnd' = CarvedEnd
       /\ pool_free_pos' = pool_free_pos /\ InHand' = {}
  BY <1>1, <1>4, SMT DEF TakeTail, ReturnPtr, freeVars, Top, CarvedEnd, InHand
<1>11. size \in [Addr -> 0..(PoolEnd - PoolStart)] /\ size[p] <= PoolEnd - PoolStart
  BY <1>3, SMT DEF IInv, TypeOK
<1>12. \A a \in Addr : size'[a] = IF a = r THEN nquantas ELSE IF a = p THEN rest ELSE size[a]
  <2> HIDE DEF r, rest
  <2> QED BY <1>10, <1>11, <1>6, SMT
<1> HIDE DEF r, rest
<1>13. TypeOK'
  <2>1. size' \in [Addr -> 0..(PoolEnd - PoolStart)]
    BY <1>1, <1>2, <1>3, <1>6, <1>10, <1>11, SMT DEF rest
  <2>2. inner' \in BOOLEAN
    BY DEF TakeTail, freeVars, IInv, TypeOK
  <2>3. /\ next' \in [Addr -> Addr \cup {Null}] /\ freep' \in Addr \cup {Null}
        /\ pool_free_pos' \in 0..PoolSize
        /\ pc' \in {"idle", "search", "scan"}
        /\ nbytes' \in Requests \cup {0} /\ nquantas' \in Nat
        /\ prevp' \in Addr \cup {Null} /\ p' \in Addr \cup {Null}
        /\ block' \in Addr \cup {Null} /\ q' \in Addr \cup {Null}
        /\ avail' \subseteq Addr
    BY <1>4, <1>10, SMT DEF TakeTail, ReturnPtr, freeVars, IInv, TypeOK
  <2> QED BY <2>1, <2>2, <2>3, <1>9 DEF TypeOK
<1>14. PcInv' /\ InnerInv'
  BY <1>4, <1>10, SMT DEF IInv, PcInv, InnerInv
<1>15. FreeBlocks' = FreeBlocks /\ Blocks' = Blocks \cup {r}
  BY <1>4, <1>9, <1>10, SMT DEF Blocks, FreeBlocks
<1>16. Tiling'
  <2>1. KindsApart'
    BY <1>7, <1>4, <1>9, <1>10, SMT DEF IInv, Tiling, KindsApart
  <2>2. BlocksApart'
    <3>1. /\ r \in Nat /\ p \in Nat /\ size[p] \in Nat /\ Blocks' = Blocks \cup {r}
          /\ size'[r] = nquantas /\ size'[p] = rest /\ CarvedEnd' = Top
          /\ \A a \in Blocks : a # p => size'[a] = size[a]
      <4>1. r \in Nat /\ p \in Nat /\ size[p] \in Nat /\ p # r
        BY <1>3, <1>6, SMT
      <4>2. \A a \in Blocks : a # r
        BY <1>7
      <4>3. \A a \in Blocks : a # p => size'[a] = size[a]
        BY <4>2, <1>5, <1>12
      <4>4. size'[r] = nquantas /\ size'[p] = rest
        BY <4>1, <1>4, <1>6, <1>12
      <4> QED BY <4>1, <4>3, <4>4, <1>4, <1>10, <1>15
    <3>2. \A a \in Blocks' : a >= 2 /\ size'[a] > 0 /\ a + size'[a] <= Top
      BY <3>1, <1>1, <1>2, <1>5, <1>6, SMT
    <3>3. ASSUME NEW a \in Blocks', NEW b \in Blocks', a < b PROVE a + size'[a] <= b
      <4>1. CASE a \in Blocks /\ b \in Blocks
        BY <4>1, <3>1, <3>3, <1>1, <1>3, <1>5, <1>6, SMT
      <4>2. CASE a = r
        BY <4>2, <3>1, <3>3, <1>5, <1>6, <1>7, SMT
      <4>3. CASE a \in Blocks /\ b = r
        BY <4>3, <3>1, <3>3, <1>5, <1>6, <1>7, SMT
      <4> QED BY <4>1, <4>2, <4>3, <3>1
    <3> QED BY <3>1, <3>2, <3>3 DEF BlocksApart, PoolStart
  <2>3. NothingLost'
    <3>1. ASSUME NEW x \in PoolStart..(CarvedEnd - 1)
          PROVE  \E a \in Blocks' : a <= x /\ x < a + size'[a]
      <4>1. PICK a \in Blocks : a <= x /\ x < a + size[a]
        BY DEF IInv, Tiling, NothingLost
      <4>2. CASE a = p /\ x >= r
        BY <4>1, <4>2, <1>6, <1>12, <1>15, SMT
      <4>3. CASE a = p /\ x < r
        <5>1. size'[p] = rest /\ p + rest = r
          BY <1>3, <1>6, <1>12, SMT DEF r
        <5> QED BY <5>1, <4>1, <4>3, <1>15, SMT
      <4>4. CASE a # p
        <5>1. a # r /\ a \in Addr
          BY <1>5, <1>7
        <5> QED BY <5>1, <4>1, <4>4, <1>12, <1>15, SMT
      <4> QED BY <4>1, <4>2, <4>3, <4>4, <1>5, <1>6, SMT
    <3> QED BY <3>1, <1>10 DEF NothingLost
  <2> QED BY <2>1, <2>2, <2>3, <1>10 DEF IInv, Tiling
<1>17. EnoughRoom'
  <2>1. ASSUME NEW u \in DOMAIN live' PROVE live'[u] + Quanta <= Quanta * size'[u - 1]
    <3>1. CASE u = r + 1
      BY <3>1, <1>1, <1>2, <1>6, <1>9, <1>12, SMT
    <3>2. CASE u # r + 1
      <4>1. u \in DOMAIN live /\ u - 1 \in LiveBlocks /\ u - 1 \in Blocks
        BY <3>2, <1>9, SMT DEF LiveBlocks, Blocks
      <4>2. u - 1 # p /\ u - 1 # r /\ u - 1 \in Addr
        BY <4>1, <1>4, <1>5, <1>7
      <4> QED BY <3>2, <4>1, <4>2, <1>9, <1>12, SMT DEF IInv, EnoughRoom
    <3> QED BY <3>1, <3>2
  <2> QED BY <2>1 DEF EnoughRoom
<1>18. SortedRing'
  <2>1. 1 \in Addr /\ 1 # p /\ 1 # r
    BY <1>4, <1>6, SMT
  <2>2. 1 \in avail /\ size[1] = 0 /\ freep' \in avail /\ \A a \in avail : NextIsSuccessor(a)
    BY <1>4, <1>10, SMT DEF IInv, SortedRing
  <2>3. size'[1] = 0
    BY <2>1, <2>2, <1>12
  <2>4. \A a \in avail' : NextIsSuccessor(a)'
    BY <2>2, <1>10, SMT DEF NextIsSuccessor
  <2> QED BY <2>2, <2>3, <2>4, <1>10, SMT DEF SortedRing
<1>19. Coalesced'
  <2>1. ASSUME NEW a \in FreeBlocks PROVE a + size'[a] \notin avail
    <3>1. CASE a = p
      <4>1. a + size'[a] = r
        BY <3>1, <1>3, <1>6, <1>12, SMT DEF r
      <4> QED BY <4>1, <1>7
    <3>2. CASE a # p
      <4>1. a \in Blocks /\ a # r /\ a \in Addr
        BY <1>5, <1>7 DEF Blocks
      <4> QED BY <3>2, <4>1, <1>12, SMT DEF IInv, Coalesced
    <3> QED BY <3>1, <3>2
  <2> QED BY <2>1, <1>10, <1>15 DEF Coalesced
<1>20. WalkSound'
  BY <1>10, SMT DEF WalkSound
<1> QED BY <1>13, <1>14, <1>16, <1>17, <1>18, <1>19, <1>20 DEF IInv

\* Carving extends the tiling by the block that is returned.
LEMMA GrowIInv ==
    ASSUME RequestsFit, IInv, Grow
    PROVE  IInv'
<1> USE Addresses, Numbers
<1> DEFINE k == PoolQuantas(nquantas)
<1>1. /\ pc = "search" /\ nbytes \in Requests /\ nquantas = Quantas(nbytes) /\ ~inner
      /\ freep # 0 /\ CarvedEnd = Top /\ InHand = {} /\ freep \in avail /\ freep \in Addr
  BY SMT DEF Grow, IInv, PcInv, TypeOK, CarvedEnd, InHand, SortedRing
<1>2. k \in Nat /\ k >= 1 /\ PoolBytes(nquantas) = 4 * k /\ 4 * k + PoolSize < Word
  BY <1>1, QuantasFit, PoolBytesFit, SMT
<1>3. PoolSize \in Nat /\ pool_free_pos <= PoolSize
  BY MallocAssumption, SMT DEF IInv, TypeOK
<1> HIDE DEF k
<1>4. pool_free_pos + 4 * k <= PoolSize
  <2>1. pool_free_pos + 4 * k \in Nat /\ pool_free_pos + 4 * k < Word
    BY <1>2, <1>3, WordNat, SMT
  <2> QED BY <2>1, <1>2, NoWrap DEF Grow, HasRoom
<1>5. Top + k <= PoolEnd
  <2>1. Top - 2 + k \in Nat /\ pool_free_pos + 4 * k = 4 * (Top - 2 + k)
    BY <1>2, SMT
  <2>2. Top - 2 + k <= PoolSize \div 4
    BY <2>1, <1>3, <1>4, TopIs, SMT
  <2>3. PoolEnd = 2 + PoolSize \div 4 /\ PoolSize \div 4 \in Nat
    BY <1>3, SMT DEF PoolEnd, PoolStart, Quanta
  <2> QED BY <2>1, <2>2, <2>3, <1>2, SMT
<1>6. /\ Top \in Addr /\ k \in 0..(PoolEnd - PoolStart)
  BY <1>2, <1>5, SMT
<1>7. /\ size' = [size EXCEPT ![Top] = k] /\ next' = next /\ freep' = freep
      /\ pc' = "scan" /\ block' = Top /\ q' = freep /\ inner' /\ avail' = avail
      /\ live' = live /\ LiveBlocks' = LiveBlocks /\ FreeBlocks' = FreeBlocks
      /\ InHand' = {Top} /\ Top' = Top /\ Blocks' = Blocks \cup {Top}
      /\ nbytes' = nbytes /\ nquantas' = nquantas /\ pool_free_pos' = pool_free_pos
  BY <1>1, SMT DEF Grow, callVars, LiveBlocks, FreeBlocks, InHand, Top, Blocks, k
<1>8. CarvedEnd' = Top + k
  BY <1>7 DEF CarvedEnd, k, PoolQuantas
<1>9. /\ \A a \in Blocks : a >= 2 /\ size[a] > 0 /\ a + size[a] <= Top /\ a \in Addr
      /\ \A a, b \in Blocks : a < b => a + size[a] <= b
  <2>1. Blocks \subseteq Addr
    BY <1>1, SMT DEF Blocks, LiveBlocks, FreeBlocks, IInv, TypeOK, Pointers
  <2> QED BY <2>1, <1>1, SMT DEF IInv, Tiling, BlocksApart
<1>10. Top \notin Blocks /\ Top \notin avail /\ Top \notin LiveBlocks
  <2>1. Top \notin Blocks
    BY <1>9, SMT
  <2> QED BY <2>1, SMT DEF Blocks, FreeBlocks
<1>11. \A a \in Addr : size'[a] = IF a = Top THEN k ELSE size[a]
  BY <1>6, <1>7, SMT DEF IInv, TypeOK
<1>12. TypeOK'
  <2>1. size' \in [Addr -> 0..(PoolEnd - PoolStart)]
    BY <1>6, <1>7, SMT DEF IInv, TypeOK
  <2>2. inner' \in BOOLEAN
    BY DEF Grow
  <2>3. /\ next' \in [Addr -> Addr \cup {Null}] /\ freep' \in Addr \cup {Null}
        /\ pool_free_pos' \in 0..PoolSize
        /\ pc' \in {"idle", "search", "scan"}
        /\ nbytes' \in Requests \cup {0} /\ nquantas' \in Nat
        /\ prevp' \in Addr \cup {Null} /\ p' \in Addr \cup {Null}
        /\ block' \in Addr \cup {Null} /\ q' \in Addr \cup {Null}
        /\ avail' \subseteq Addr /\ DOMAIN live' \subseteq Pointers
        /\ \A u \in DOMAIN live' : live'[u] \in Requests
    BY <1>1, <1>6, <1>7, SMT DEF Grow, callVars, IInv, TypeOK
  <2> QED BY <2>1, <2>2, <2>3 DEF TypeOK
<1>13. PcInv' /\ InnerInv'
  <2>1. PcInv'
    BY <1>1, <1>6, <1>7, SMT DEF IInv, PcInv
  <2>2. InnerInv'
    BY <1>6, <1>7, <1>11 DEF InnerInv, k, PoolQuantas
  <2> QED BY <2>1, <2>2
<1>14. Tiling'
  <2>1. KindsApart'
    BY <1>7, <1>10, SMT DEF IInv, Tiling, KindsApart
  <2>2. BlocksApart'
    BY <1>2, <1>7, <1>8, <1>9, <1>10, <1>11, <1>6, SMT DEF BlocksApart
  <2>3. NothingLost'
    <3>1. ASSUME NEW x \in PoolStart..(CarvedEnd' - 1)
          PROVE  \E a \in Blocks' : a <= x /\ x < a + size'[a]
      <4>1. CASE x < Top
        <5>1. PICK a \in Blocks : a <= x /\ x < a + size[a]
          BY <4>1, <1>1, SMT DEF IInv, Tiling, NothingLost
        <5>2. a # Top /\ a \in Addr
          BY <1>9, <1>10
        <5> QED BY <5>1, <5>2, <1>7, <1>11, SMT
      <4>2. CASE x >= Top
        BY <4>2, <1>2, <1>6, <1>7, <1>8, <1>11, SMT
      <4> QED BY <4>1, <4>2, SMT
    <3> QED BY <3>1 DEF NothingLost
  <2> QED BY <2>1, <2>2, <2>3, <1>5, <1>7, <1>8 DEF Tiling
<1>15. EnoughRoom'
  <2>1. ASSUME NEW u \in DOMAIN live PROVE live[u] + Quanta <= Quanta * size'[u - 1]
    <3>1. u - 1 \in Blocks
      BY SMT DEF Blocks, LiveBlocks
    <3>2. u - 1 # Top /\ u - 1 \in Addr
      BY <3>1, <1>9, <1>10
    <3> QED BY <3>2, <1>11 DEF IInv, EnoughRoom
  <2> QED BY <2>1, <1>7 DEF EnoughRoom
<1>16. SortedRing' /\ Coalesced' /\ WalkSound'
  <2>1. \A a \in avail : size'[a] = size[a]
    BY <1>10, <1>11, SMT DEF IInv, TypeOK
  <2>2. SortedRing'
    BY <2>1, <1>7, SMT DEF IInv, SortedRing, NextIsSuccessor
  <2>3. Coalesced'
    BY <2>1, <1>7, SMT DEF IInv, Coalesced, FreeBlocks
  <2> QED BY <2>2, <2>3, <1>7, SMT DEF WalkSound
<1> QED BY <1>12, <1>13, <1>14, <1>15, <1>16 DEF IInv

\* A call of free starts its scan, or begins the ring.
LEMMA FreeCallIInv ==
    ASSUME IInv, NEW u \in DOMAIN live, FreeCall(u)
    PROVE  IInv'
<1> USE Addresses, Numbers
<1> DEFINE b == u - 1
<1>1. /\ u \in Pointers /\ DOMAIN live \subseteq Pointers
      /\ \A v \in DOMAIN live : live[v] \in Requests
  BY SMT DEF IInv, TypeOK
<1>2. b \in Addr /\ b >= 2 /\ b \in LiveBlocks /\ u = b + 1 /\ b \in Nat
  BY <1>1, SMT DEF Pointers, LiveBlocks
<1> HIDE DEF b
<1>3. /\ freep # 0 /\ ~inner /\ pc = "idle" /\ freep \in avail /\ freep \in Addr
      /\ InHand = {}
  BY SMT DEF FreeCall, IInv, PcInv, TypeOK, SortedRing, InHand
<1>4. /\ next' = next /\ size' = size /\ freep' = freep /\ avail' = avail
      /\ pc' = "scan" /\ block' = b /\ q' = freep /\ ~inner'
      /\ DOMAIN live' = DOMAIN live \ {u}
      /\ \A v \in DOMAIN live' : live'[v] = live[v]
      /\ pool_free_pos' = pool_free_pos /\ Top' = Top /\ CarvedEnd' = CarvedEnd
      /\ InHand' = {b} /\ FreeBlocks' = FreeBlocks
  BY <1>3, SMT DEF FreeCall, headers, callVars, Top, CarvedEnd, InHand, FreeBlocks, b
<1>5. LiveBlocks' = LiveBlocks \ {b}
  BY <1>1, <1>2, <1>4, SMT DEF LiveBlocks, Pointers
<1>6. Blocks' = Blocks
  BY <1>2, <1>3, <1>4, <1>5, SMT DEF Blocks
<1>7. TypeOK'
  <2>1. inner' \in BOOLEAN
    BY DEF FreeCall
  <2>2. /\ next' \in [Addr -> Addr \cup {Null}] /\ freep' \in Addr \cup {Null}
        /\ size' \in [Addr -> 0..(PoolEnd - PoolStart)]
        /\ pool_free_pos' \in 0..PoolSize
        /\ pc' \in {"idle", "search", "scan"}
        /\ nbytes' \in Requests \cup {0} /\ nquantas' \in Nat
        /\ prevp' \in Addr \cup {Null} /\ p' \in Addr \cup {Null}
        /\ block' \in Addr \cup {Null} /\ q' \in Addr \cup {Null}
        /\ avail' \subseteq Addr /\ DOMAIN live' \subseteq Pointers
        /\ \A v \in DOMAIN live' : live'[v] \in Requests
    BY <1>1, <1>2, <1>3, <1>4, SMT DEF FreeCall, callVars, IInv, TypeOK
  <2> QED BY <2>1, <2>2 DEF TypeOK
<1>8. PcInv' /\ InnerInv'
  BY <1>2, <1>3, <1>4, SMT DEF IInv, PcInv, InnerInv
<1>9. Tiling'
  <2>1. KindsApart'
    BY <1>2, <1>3, <1>4, <1>5, SMT DEF IInv, Tiling, KindsApart
  <2> QED BY <2>1, <1>4, <1>6, SMT DEF IInv, Tiling, BlocksApart, NothingLost
<1>10. EnoughRoom' /\ SortedRing' /\ Coalesced' /\ WalkSound'
  BY <1>4, SMT DEF IInv, EnoughRoom, SortedRing, NextIsSuccessor, Coalesced, WalkSound
<1> QED BY <1>7, <1>8, <1>9, <1>10 DEF IInv

\* Where the scan stops: q and its successor n surround the block.
LEMMA Place ==
    ASSUME IInv, pc = "scan", FitsAfter(q)
    PROVE  /\ q \in avail /\ q \in Addr /\ next[q] \in avail /\ next[q] \in Addr
           /\ block \in Addr /\ block >= 2 /\ block \in Blocks
           /\ block \notin avail /\ block \notin LiveBlocks
           /\ q < block /\ q + size[q] <= block
           /\ next[q] > block \/ next[q] = 1
           /\ next[q] > block => block + size[block] <= next[q] /\ next[q] \in FreeBlocks
           /\ \A a \in avail : a <= q \/ (next[q] > block /\ a >= next[q])
           /\ \A a \in avail : NextIsSuccessor(a)
           /\ 1 \in avail /\ size[1] = 0
           /\ Blocks \subseteq Addr /\ avail \subseteq Addr
           /\ \A a \in Blocks : a >= 2 /\ size[a] > 0 /\ a + size[a] <= CarvedEnd
           /\ \A a, b \in Blocks : a < b => a + size[a] <= b
           /\ freep # 0
<1> USE Addresses, Numbers
<1>1. /\ freep # 0 /\ q \in avail /\ block \in Addr /\ block >= 2 /\ avail \subseteq Addr
      /\ InHand = {block}
  BY SMT DEF IInv, PcInv, TypeOK, InHand
<1>2. 1 \in avail /\ size[1] = 0 /\ \A a \in avail : NextIsSuccessor(a)
  BY <1>1, SMT DEF IInv, SortedRing
<1>3. block \in Blocks /\ block \notin avail /\ block \notin LiveBlocks
  BY <1>1, SMT DEF Blocks, IInv, Tiling, KindsApart
<1>4. q \in Addr /\ next[q] \in avail /\ next[q] \in Addr
  BY <1>1, <1>2, SMT DEF NextIsSuccessor
<1>5. q < block /\ (next[q] > block \/ next[q] = 1)
  BY <1>1, <1>2, <1>4, SMT DEF FitsAfter, Between, AtWrap, NextIsSuccessor
<1>6. \A a \in avail : a <= q \/ (next[q] > block /\ a >= next[q])
  BY <1>1, <1>2, <1>4, <1>5, SMT DEF NextIsSuccessor
<1>7. Blocks \subseteq Addr
  BY <1>1, SMT DEF Blocks, LiveBlocks, FreeBlocks, IInv, TypeOK, Pointers
<1>8. /\ \A a \in Blocks : a >= 2 /\ size[a] > 0 /\ a + size[a] <= CarvedEnd
      /\ \A a, b \in Blocks : a < b => a + size[a] <= b
  BY SMT DEF IInv, Tiling, BlocksApart
<1>9. q + size[q] <= block
  <2>1. CASE q = 1
    BY <2>1, <1>1, <1>2, SMT
  <2>2. CASE q # 1
    <3>1. q \in Blocks
      BY <2>2, <1>1, SMT DEF Blocks, FreeBlocks
    <3> QED BY <3>1, <1>3, <1>5, <1>8
  <2> QED BY <2>1, <2>2
<1>10. next[q] > block => block + size[block] <= next[q] /\ next[q] \in FreeBlocks
  <2>1. next[q] > block => next[q] \in FreeBlocks /\ next[q] \in Blocks
    BY <1>1, <1>4, SMT DEF FreeBlocks, Blocks
  <2> QED BY <2>1, <1>3, <1>8
<1> QED BY <1>1, <1>2, <1>3, <1>4, <1>5, <1>6, <1>7, <1>8, <1>9, <1>10

\* The block that grows, and the ones whose headers disappear, when Link runs.
Home == IF MeetsLower THEN q ELSE block
Absorbed == (IF MeetsUpper THEN {next[q]} ELSE {}) \cup (IF MeetsLower THEN {block} ELSE {})

\* What Link does, read off the merged block: it begins at Home and ends where
\* the last of the blocks it absorbed ended.
LEMMA LinkEffect ==
    ASSUME IInv, pc = "scan", FitsAfter(q), Link
    PROVE  /\ MeetsUpper => next[q] = block + size[block] /\ next[q] > block /\ next[q] \in FreeBlocks
           /\ MeetsLower => q + size[q] = block /\ q >= 2 /\ q \in FreeBlocks
           /\ ~MeetsUpper /\ next[q] > block => block + size[block] < next[q]
           /\ ~MeetsLower => q + size[q] < block
           /\ Home \in Addr /\ Home >= 2 /\ Home \notin Absorbed /\ Home \in Blocks
           /\ avail' = (avail \cup {block}) \ Absorbed
           /\ Home + size'[Home] = IF MeetsUpper THEN next[q] + size[next[q]] ELSE block + size[block]
           /\ \A a \in Addr : a \notin Absorbed /\ a # Home => size'[a] = size[a]
           /\ size'[Home] \in Nat
           /\ next'[Home] = IF MeetsUpper THEN next[next[q]] ELSE next[q]
           /\ ~MeetsLower => next'[q] = block
           /\ \A a \in Addr : a \notin Absorbed /\ a # Home /\ a # q => next'[a] = next[a]
<1> USE Addresses, Numbers
<1> DEFINE bsize == IF MeetsUpper THEN size[block] + size[next[q]] ELSE size[block]
           bnext == IF MeetsUpper THEN next[next[q]] ELSE next[q]
<1>1. /\ q \in avail /\ q \in Addr /\ next[q] \in avail /\ next[q] \in Addr
      /\ block \in Addr /\ block >= 2 /\ block \in Blocks /\ block \notin avail
      /\ q < block /\ q + size[q] <= block
      /\ next[q] > block \/ next[q] = 1
      /\ next[q] > block => block + size[block] <= next[q] /\ next[q] \in FreeBlocks
      /\ size[1] = 0 /\ size[block] > 0 /\ size[block] \in Nat /\ size[q] \in Nat
      /\ size[next[q]] \in Nat
  BY Place
<1>2. /\ MeetsUpper => next[q] = block + size[block] /\ next[q] > block /\ next[q] \in FreeBlocks
      /\ ~MeetsUpper /\ next[q] > block => block + size[block] < next[q]
  BY <1>1, SMT DEF MeetsUpper
<1>3. /\ MeetsLower => q + size[q] = block /\ q >= 2 /\ q \in FreeBlocks
      /\ ~MeetsLower => q + size[q] < block
  BY <1>1, SMT DEF MeetsLower, FreeBlocks
<1>4. Home \in Addr /\ Home >= 2 /\ Home \notin Absorbed /\ Home \in Blocks
  BY <1>1, <1>2, <1>3, SMT DEF Blocks, Home, Absorbed
<1>5. /\ avail' = (avail \cup {block}) \ Absorbed
      /\ size' = [a \in Addr |->
                   IF a \in Absorbed THEN 0
                   ELSE IF a = Home THEN bsize + (IF MeetsLower THEN size[q] ELSE 0)
                   ELSE size[a]]
      /\ next' = [a \in Addr |->
                   IF a \in Absorbed THEN Null
                   ELSE IF a = Home THEN bnext
                   ELSE IF a = q THEN block
                   ELSE next[a]]
  BY DEF Link, Home, Absorbed
<1>6. size'[Home] = bsize + (IF MeetsLower THEN size[q] ELSE 0) /\ next'[Home] = bnext
  BY <1>4, <1>5
<1>7. /\ Home + size'[Home] = IF MeetsUpper THEN next[q] + size[next[q]] ELSE block + size[block]
      /\ size'[Home] \in Nat
  <2>1. CASE MeetsUpper
    BY <2>1, <1>1, <1>2, <1>3, <1>6, SMT DEF Home
  <2>2. CASE ~MeetsUpper
    BY <2>2, <1>1, <1>2, <1>3, <1>6, SMT DEF Home
  <2> QED BY <2>1, <2>2
<1>8. /\ \A a \in Addr : a \notin Absorbed /\ a # Home => size'[a] = size[a]
      /\ \A a \in Addr : a \notin Absorbed /\ a # Home /\ a # q => next'[a] = next[a]
  BY <1>5
<1>9. ~MeetsLower => next'[q] = block
  <2>1. ~MeetsLower => q \notin Absorbed /\ q # Home
    BY <1>1, <1>2, SMT DEF Home, Absorbed
  <2> QED BY <2>1, <1>1, <1>5
<1> QED BY <1>2, <1>3, <1>4, <1>5, <1>6, <1>7, <1>8, <1>9

\* The tiling after Link, the end of the carved pool staying where it was.
LEMMA LinkTiling ==
    ASSUME IInv, pc = "scan", FitsAfter(q), Link,
           LiveBlocks' = LiveBlocks, InHand' = {}, CarvedEnd' = CarvedEnd
    PROVE  /\ Tiling'
           /\ Blocks' = Blocks \ Absorbed
           /\ size' \in [Addr -> 0..(PoolEnd - PoolStart)]
<1> USE Addresses, Numbers
<1> DEFINE n == next[q]
           end == IF MeetsUpper THEN n + size[n] ELSE block + size[block]
<1>1. /\ q \in avail /\ q \in Addr /\ n \in avail /\ n \in Addr
      /\ block \in Addr /\ block >= 2 /\ block \in Blocks
      /\ block \notin avail /\ block \notin LiveBlocks /\ q < block
      /\ Blocks \subseteq Addr /\ avail \subseteq Addr
      /\ \A a \in Blocks : a >= 2 /\ size[a] > 0 /\ a + size[a] <= CarvedEnd
      /\ \A a, b \in Blocks : a < b => a + size[a] <= b
  BY Place
<1>2. /\ MeetsUpper => n = block + size[block] /\ n > block /\ n \in FreeBlocks
      /\ MeetsLower => q + size[q] = block /\ q >= 2 /\ q \in FreeBlocks
      /\ Home \in Addr /\ Home >= 2 /\ Home \notin Absorbed /\ Home \in Blocks
      /\ avail' = (avail \cup {block}) \ Absorbed
      /\ Home + size'[Home] = end /\ size'[Home] \in Nat
      /\ \A a \in Addr : a \notin Absorbed /\ a # Home => size'[a] = size[a]
  BY LinkEffect
<1>3. FreeBlocks \subseteq Blocks /\ LiveBlocks \cap avail = {} /\ InHand = {block}
  BY SMT DEF Blocks, IInv, Tiling, KindsApart, InHand
<1>4. Blocks' = Blocks \ Absorbed
  BY <1>1, <1>2, <1>3, SMT DEF Blocks, FreeBlocks, Absorbed
<1>5. end \in Nat /\ end <= CarvedEnd /\ end >= block + size[block] /\ Home <= block
  <2>1. CASE MeetsUpper
    BY <2>1, <1>1, <1>2, <1>3, SMT DEF Home
  <2>2. CASE ~MeetsUpper
    BY <2>2, <1>1, SMT DEF Home
  <2> QED BY <2>1, <2>2
<1>6. \A a \in Absorbed : Home <= a /\ a + size[a] <= end /\ a \in Blocks
  BY <1>1, <1>2, <1>3, <1>5, SMT DEF Absorbed, Home
<1>7. \A a \in Blocks : a > Home /\ a \notin Absorbed => a >= end
  <2>1. ASSUME NEW a \in Blocks, a > Home, a \notin Absorbed PROVE a >= end
    <3>1. a >= block + size[block]
      BY <2>1, <1>1, <1>2, <1>3, SMT DEF Home, Absorbed
    <3>2. CASE MeetsUpper
      BY <3>1, <3>2, <2>1, <1>1, <1>2, <1>3, SMT DEF Absorbed
    <3> QED BY <3>1, <3>2
  <2> QED BY <2>1
<1>8. Home + size[Home] <= end
  BY <1>1, <1>2, <1>3, <1>5, SMT DEF Home
<1> HIDE DEF end
<1>9. KindsApart'
  BY <1>1, <1>2, <1>3, SMT DEF KindsApart
<1>10. BlocksApart'
  <2>1. \A a \in Blocks' : a >= 2 /\ size'[a] > 0 /\ a + size'[a] <= CarvedEnd'
    <3>1. size'[Home] > 0 /\ Home + size'[Home] <= CarvedEnd
      BY <1>1, <1>2, <1>5, <1>8, SMT
    <3> QED BY <3>1, <1>1, <1>2, <1>4
  <2>2. ASSUME NEW a \in Blocks', NEW b \in Blocks', a < b PROVE a + size'[a] <= b
    <3>1. CASE a = Home
      BY <3>1, <2>2, <1>2, <1>4, <1>7, SMT
    <3>2. CASE a # Home
      BY <3>2, <2>2, <1>1, <1>2, <1>4
    <3> QED BY <3>1, <3>2
  <2> QED BY <2>1, <2>2, PoolStart' = 2 DEF BlocksApart, PoolStart
<1>11. NothingLost'
  <2>1. ASSUME NEW x \in PoolStart..(CarvedEnd' - 1)
        PROVE  \E a \in Blocks' : a <= x /\ x < a + size'[a]
    <3>1. PICK a \in Blocks : a <= x /\ x < a + size[a]
      BY DEF IInv, Tiling, NothingLost
    <3>2. CASE a \in Absorbed \/ a = Home
      <4>1. Home <= x /\ x < Home + size'[Home]
        BY <3>1, <3>2, <1>1, <1>2, <1>5, <1>6, <1>8, SMT
      <4> QED BY <4>1, <1>2, <1>4
    <3>3. CASE a \notin Absorbed /\ a # Home
      BY <3>1, <3>3, <1>1, <1>2, <1>4
    <3> QED BY <3>2, <3>3
  <2> QED BY <2>1 DEF NothingLost
<1>12. Tiling'
  BY <1>9, <1>10, <1>11 DEF Tiling
<1>13. size' \in [Addr -> 0..(PoolEnd - PoolStart)]
  <2>1. size'[Home] \in 0..(PoolEnd - PoolStart)
    BY <1>2, <1>5, SMT
  <2>2. \A a \in Absorbed : size'[a] = 0
    BY <1>1, SMT DEF Link, Absorbed
  <2>3. \A a \in Addr : size[a] \in 0..(PoolEnd - PoolStart)
    BY DEF IInv, TypeOK
  <2>4. \A a \in Addr : size'[a] \in 0..(PoolEnd - PoolStart)
    <3>1. 0 \in 0..(PoolEnd - PoolStart)
      BY SMT
    <3> QED BY <3>1, <2>1, <2>2, <2>3, <1>2
  <2> QED BY <2>4 DEF Link
<1> QED BY <1>4, <1>12, <1>13

\* The ring after Link: sorted, and no two free blocks adjacent.
LEMMA LinkRing ==
    ASSUME IInv, pc = "scan", FitsAfter(q), Link
    PROVE  /\ \A a \in avail' : NextIsSuccessor(a)'
           /\ 1 \in avail' /\ size'[1] = 0 /\ q \in avail' /\ avail' \subseteq Addr
           /\ Coalesced'
           /\ next' \in [Addr -> Addr \cup {Null}]
<1> USE Addresses, Numbers
<1> DEFINE n == next[q]
<1>1. /\ q \in avail /\ q \in Addr /\ n \in avail /\ n \in Addr
      /\ block \in Addr /\ block >= 2 /\ block \in Blocks /\ block \notin avail
      /\ q < block /\ q + size[q] <= block
      /\ n > block \/ n = 1
      /\ n > block => block + size[block] <= n /\ n \in FreeBlocks
      /\ \A a \in avail : a <= q \/ (n > block /\ a >= n)
      /\ \A a \in avail : NextIsSuccessor(a)
      /\ 1 \in avail /\ size[1] = 0 /\ avail \subseteq Addr
      /\ \A a \in Blocks : a >= 2 /\ size[a] > 0
      /\ \A a, b \in Blocks : a < b => a + size[a] <= b
  BY Place
<1>2. /\ MeetsUpper => n = block + size[block] /\ n > block /\ n \in FreeBlocks
      /\ MeetsLower => q + size[q] = block /\ q >= 2 /\ q \in FreeBlocks
      /\ ~MeetsUpper /\ n > block => block + size[block] < n
      /\ ~MeetsLower => q + size[q] < block
      /\ Home \in Addr /\ Home >= 2 /\ Home \notin Absorbed /\ Home \in Blocks
      /\ avail' = (avail \cup {block}) \ Absorbed
      /\ Home + size'[Home] = IF MeetsUpper THEN n + size[n] ELSE block + size[block]
      /\ \A a \in Addr : a \notin Absorbed /\ a # Home => size'[a] = size[a]
      /\ next'[Home] = IF MeetsUpper THEN next[n] ELSE n
      /\ ~MeetsLower => next'[q] = block
      /\ \A a \in Addr : a \notin Absorbed /\ a # Home /\ a # q => next'[a] = next[a]
  BY LinkEffect
<1> HIDE DEF n
<1>3. /\ \A a : a \in Absorbed <=> (MeetsUpper /\ a = n) \/ (MeetsLower /\ a = block)
      /\ MeetsLower => Home = q
      /\ ~MeetsLower => Home = block
  BY SMT DEF Absorbed, Home, n
<1>4. \A a \in avail : /\ next[a] \in avail
                       /\ next[a] > a \/ next[a] = 1
                       /\ \A b \in avail : b > a => a < next[a] /\ next[a] <= b
  BY <1>1, SMT DEF NextIsSuccessor
<1>5. /\ 1 \in avail' /\ size'[1] = 0 /\ q \in avail' /\ avail' \subseteq Addr
  BY <1>1, <1>2, <1>3, SMT
<1>6. ASSUME NEW a \in avail'
      PROVE  /\ next'[a] \in avail'
             /\ next'[a] > a \/ next'[a] = 1
             /\ \A b \in avail' : b > a => a < next'[a] /\ next'[a] <= b
  <2>1. CASE a = Home /\ MeetsUpper
    <3>1. next[n] \in avail' /\ (next[n] > n \/ next[n] = 1)
      BY <2>1, <1>1, <1>2, <1>3, <1>4, SMT
    <3>2. ASSUME NEW b \in avail', b > a PROVE b > n /\ b \in avail
      BY <3>2, <2>1, <1>1, <1>2, <1>3, SMT
    <3> QED BY <3>1, <3>2, <2>1, <1>1, <1>2, <1>3, <1>4, SMT
  <2>2. CASE a = Home /\ ~MeetsUpper
    <3>1. n \in avail' /\ (n > a \/ n = 1)
      BY <2>2, <1>1, <1>2, <1>3, SMT
    <3>2. ASSUME NEW b \in avail', b > a PROVE a < n /\ n <= b
      BY <3>2, <2>2, <1>1, <1>2, <1>3, SMT
    <3> QED BY <3>1, <3>2, <2>2, <1>2, SMT
  <2>3. CASE a = q /\ ~MeetsLower
    <3>1. block \in avail' /\ next'[a] = block
      BY <2>3, <1>1, <1>2, <1>3, SMT
    <3>2. ASSUME NEW b \in avail', b > a PROVE block <= b
      BY <3>2, <2>3, <1>1, <1>2, SMT
    <3> QED BY <3>1, <3>2, <2>3, <1>1, SMT
  <2>4. CASE a # Home /\ a # q
    <3>1. a \in avail /\ a # block /\ next'[a] = next[a]
      BY <2>4, <1>1, <1>2, <1>3, SMT
    <3>2. next[a] # n \/ ~MeetsUpper
      BY <3>1, <2>4, <1>1, <1>2, <1>4, SMT
    <3>3. next[a] \in avail'
      BY <3>1, <3>2, <1>1, <1>2, <1>3, <1>4, SMT
    <3>4. ASSUME NEW b \in avail', b > a PROVE a < next[a] /\ next[a] <= b
      <4>1. CASE b \in avail
        BY <4>1, <3>1, <3>4, <1>4
      <4>2. CASE b = block
        <5>1. a < q
          BY <4>2, <3>1, <3>4, <2>4, <1>1, SMT
        <5> QED BY <5>1, <4>2, <3>1, <1>1, <1>4, SMT
      <4> QED BY <4>1, <4>2, <1>2
    <3> QED BY <3>1, <3>3, <3>4, <1>4
  <2> QED BY <2>1, <2>2, <2>3, <2>4, <1>3
<1>7. \A a \in avail' : NextIsSuccessor(a)'
  BY <1>6 DEF NextIsSuccessor, Base
<1>8. Coalesced'
  <2>1. ASSUME NEW a \in avail', a # 1 PROVE a + size'[a] \notin avail'
    <3>1. CASE a = Home /\ MeetsUpper
      <4>1. n + size[n] \notin avail /\ n + size[n] # block
        BY <3>1, <1>1, <1>2, SMT DEF IInv, Coalesced
      <4> QED BY <4>1, <3>1, <1>2
    <3>2. CASE a = Home /\ ~MeetsUpper
      <4>1. block + size[block] \notin avail /\ block + size[block] # block
        BY <3>2, <1>1, <1>2, SMT
      <4> QED BY <4>1, <3>2, <1>2
    <3>3. CASE a # Home
      <4>1. a \in avail /\ a \in FreeBlocks /\ size'[a] = size[a] /\ a \in Blocks /\ a # block
        BY <3>3, <2>1, <1>1, <1>2, <1>3, SMT DEF FreeBlocks, Blocks
      <4>2. a + size[a] \notin avail
        BY <4>1 DEF IInv, Coalesced
      <4>3. ~MeetsLower => a + size[a] # block
        <5>1. CASE a = q
          BY <5>1, <1>1, <1>2, SMT
        <5>2. CASE a < q
          <6>1. q \in Blocks
            BY <5>2, <4>1, <1>1, SMT DEF Blocks, FreeBlocks
          <6> QED BY <6>1, <5>2, <4>1, <1>1, SMT
        <5>3. CASE a > q
          BY <5>3, <4>1, <1>1, SMT
        <5> QED BY <5>1, <5>2, <5>3, <4>1, <1>1, SMT
      <4> QED BY <4>1, <4>2, <4>3, <1>2, <1>3
    <3> QED BY <3>1, <3>2, <3>3
  <2> QED BY <2>1 DEF Coalesced, FreeBlocks, Base
<1>9. next' \in [Addr -> Addr \cup {Null}]
  <2>1. \A a \in Addr : next[a] \in Addr \cup {0}
    BY SMT DEF IInv, TypeOK
  <2>2. next[n] \in Addr \cup {0} /\ n = next[q]
    BY <2>1, <1>1 DEF n
  <2> QED BY <2>1, <2>2, <1>1, SMT DEF Link
<1> QED BY <1>5, <1>7, <1>8, <1>9

\* Linking a freed block, with or without its neighbours.
LEMMA InsertIInv ==
    ASSUME RequestsFit, IInv, Insert
    PROVE  IInv'
<1> USE Addresses, Numbers
<1> DEFINE k == PoolQuantas(nquantas)
<1>1. /\ pc = "scan" /\ FitsAfter(q) /\ Link /\ freep' = q /\ ~inner'
      /\ pc' = "idle" \/ pc' = "search"
      /\ block' = 0 /\ q' = 0 /\ live' = live /\ LiveBlocks' = LiveBlocks /\ InHand' = {}
      /\ nbytes' = nbytes /\ nquantas' = nquantas
      /\ pool_free_pos \in 0..PoolSize
  BY SMT DEF Insert, LiveBlocks, InHand, IInv, TypeOK, callVars
<1>2. PoolSize \in Nat /\ PoolSize < Word
  BY MallocAssumption
<1>3. /\ q \in Addr /\ freep # 0 /\ block \in Addr /\ block >= 2
  BY <1>1, Place
<1>4. inner => /\ k \in Nat /\ PoolBytes(nquantas) = 4 * k /\ CarvedEnd = Top + k
               /\ nbytes \in Requests
  <2>1. inner => /\ nbytes \in Requests /\ nquantas = Quantas(nbytes) /\ CarvedEnd = Top + k
    BY DEF IInv, PcInv, CarvedEnd
  <2> QED BY <2>1, PoolBytesFit
<1> HIDE DEF k
<1>5. /\ pool_free_pos' \in 0..PoolSize /\ CarvedEnd' = CarvedEnd
      /\ Top' \in Nat /\ pool_free_pos' = 4 * (Top' - 2)
  <2>1. CASE inner
    <3>1. Top - 2 + k \in Nat /\ Top - 2 + k <= PoolSize \div 4
      <4>1. PoolEnd = 2 + PoolSize \div 4 /\ PoolSize \div 4 \in Nat
        BY <1>2, SMT DEF PoolEnd, PoolStart, Quanta
      <4> QED BY <4>1, <2>1, <1>4, SMT
    <3> DEFINE t == Top - 2 + k
    <3>2. t \in Nat /\ 4 * t <= PoolSize /\ pool_free_pos + 4 * k = 4 * t
      BY <3>1, <2>1, <1>2, <1>4, SMT
    <3>3. pool_free_pos' = 4 * t
      <4>1. 4 * t \in Nat /\ 4 * t < Word
        BY <3>2, <1>2, WordNat, SMT
      <4>2. pool_free_pos' = (pool_free_pos + PoolBytes(nquantas)) % Word
        BY <2>1 DEF Insert
      <4> HIDE DEF t
      <4> QED BY <4>1, <4>2, <3>2, <1>4, <2>1, NoWrap
    <3>4. Top' = 2 + t
      <4> HIDE DEF t
      <4>1. Top' = 2 + pool_free_pos' \div 4
        BY SMT DEF Top, PoolStart, Quanta
      <4> QED BY <4>1, <3>2, <3>3, SMT
    <3>5. CarvedEnd' = Top' + 0
      BY <1>1 DEF CarvedEnd
    <3>6. t = Top - 2 + k
      OBVIOUS
    <3> HIDE DEF t
    <3>7. Top' \in Nat /\ CarvedEnd' = CarvedEnd
      BY <3>2, <3>4, <3>5, <3>6, <2>1, <1>4, SMT
    <3>8. pool_free_pos' \in 0..PoolSize /\ pool_free_pos' = 4 * (Top' - 2)
      BY <3>2, <3>3, <3>4, <1>2, SMT
    <3> QED BY <3>7, <3>8
  <2>2. CASE ~inner
    <3>1. pool_free_pos' = pool_free_pos
      BY <2>2, <1>1 DEF Insert
    <3>2. Top' = Top
      BY <3>1 DEF Top
    <3>3. CarvedEnd' = CarvedEnd
      BY <3>2, <2>2, <1>1 DEF CarvedEnd
    <3> QED BY <3>1, <3>2, <3>3, <1>1
  <2> QED BY <2>1, <2>2
<1>6. Tiling' /\ Blocks' = Blocks \ Absorbed /\ size' \in [Addr -> 0..(PoolEnd - PoolStart)]
  BY <1>1, <1>5, LinkTiling
<1>7. /\ \A a \in avail' : NextIsSuccessor(a)'
      /\ 1 \in avail' /\ size'[1] = 0 /\ q \in avail' /\ avail' \subseteq Addr
      /\ Coalesced'
      /\ next' \in [Addr -> Addr \cup {Null}]
  BY <1>1, LinkRing
<1>8. next'[q] \in avail' /\ next'[q] \in Addr
  BY <1>7, SMT DEF NextIsSuccessor
<1>9. /\ prevp' \in Addr \cup {Null} /\ p' \in Addr \cup {Null}
      /\ pc' = "search" => prevp' = q /\ p' = next'[q] /\ inner
  <2>1. CASE inner
    BY <2>1, <1>3, <1>8, SMT DEF Insert
  <2>2. CASE ~inner
    BY <2>2, <1>1, SMT DEF Insert, callVars, IInv, TypeOK
  <2> QED BY <2>1, <2>2
<1>10. TypeOK'
  <2>1. inner' \in BOOLEAN
    BY DEF Insert
  <2>2. /\ freep' \in Addr \cup {Null} /\ pc' \in {"idle", "search", "scan"}
        /\ nbytes' \in Requests \cup {0} /\ nquantas' \in Nat
        /\ block' \in Addr \cup {Null} /\ q' \in Addr \cup {Null}
        /\ DOMAIN live' \subseteq Pointers
        /\ \A u \in DOMAIN live' : live'[u] \in Requests
    BY <1>1, <1>3, SMT DEF IInv, TypeOK
  <2> QED BY <2>1, <2>2, <1>5, <1>6, <1>7, <1>9 DEF TypeOK
<1>11. PcInv'
  <2>1. freep' # 0
    BY <1>1, <1>3, SMT
  <2>2. pc' = "search" => nbytes' \in Requests /\ nquantas' = Quantas(nbytes')
    BY <1>1, <1>9 DEF IInv, PcInv
  <2>3. pc' # "scan"
    BY <1>1, SMT
  <2>4. pool_free_pos' = Quanta * (Top' - PoolStart)
    BY <1>5, SMT
  <2> QED BY <2>1, <2>2, <2>3, <2>4, <1>1, Null = 0 DEF PcInv
<1>12. InnerInv'
  BY <1>1 DEF InnerInv
<1>13. EnoughRoom'
  <2>1. ASSUME NEW u \in DOMAIN live PROVE live[u] + Quanta <= Quanta * size'[u - 1]
    <3>1. u - 1 \in LiveBlocks /\ u - 1 \in Blocks /\ u - 1 \in Addr
      BY SMT DEF LiveBlocks, Blocks, IInv, TypeOK, Pointers
    <3>2. /\ next[q] \in avail /\ q \in avail /\ block \notin LiveBlocks
          /\ LiveBlocks \cap avail = {}
      BY <1>1, Place DEF IInv, Tiling, KindsApart
    <3>3. u - 1 \notin Absorbed /\ u - 1 # Home
      BY <3>1, <3>2, SMT DEF Absorbed, Home
    <3>4. size'[u - 1] = size[u - 1]
      BY <3>1, <3>3, <1>1, LinkEffect
    <3> QED BY <3>4 DEF IInv, EnoughRoom
  <2> QED BY <2>1, <1>1 DEF EnoughRoom
<1>14. SortedRing'
  BY <1>1, <1>7, SMT DEF SortedRing
<1>15. WalkSound'
  <2>1. ASSUME pc' = "search", NEW b \in avail' PROVE ~ Passed(b)'
    <3>1. /\ next'[q] > q \/ next'[q] = 1
          /\ b > q => q < next'[q] /\ next'[q] <= b
      BY <1>7, SMT DEF NextIsSuccessor
    <3> QED BY <3>1, <2>1, <1>1, <1>3, <1>7, <1>8, <1>9, SMT DEF Passed
  <2> QED BY <2>1, <1>7, <1>9 DEF WalkSound
<1> QED BY <1>6, <1>7, <1>10, <1>11, <1>12, <1>13, <1>14, <1>15 DEF IInv

-----------------------------------------------------------------------------
(* The theorems. *)

\* Every step preserves the invariant.
LEMMA StepIInv ==
    ASSUME RequestsFit, IInv, [Next]_vars
    PROVE  IInv'
<1>1. ASSUME NEW n \in Requests, MallocCall(n) PROVE IInv'
  BY <1>1, MallocCallIInv
<1>2. ASSUME NEW u \in DOMAIN live, FreeCall(u) PROVE IInv'
  BY <1>2, FreeCallIInv
<1>3. CASE TakeExact
  BY <1>3, TakeExactIInv
<1>4. CASE TakeTail
  BY <1>4, TakeTailIInv
<1>5. CASE Advance
  BY <1>5, AdvanceIInv
<1>6. CASE Grow
  BY <1>6, GrowIInv
<1>7. CASE Exhausted
  BY <1>7, ExhaustedIInv
<1>8. CASE ScanStep
  BY <1>8, ScanStepIInv
<1>9. CASE Insert
  BY <1>9, InsertIInv
<1>10. CASE UNCHANGED vars
  <2>1. /\ next' = next /\ size' = size /\ freep' = freep /\ pool_free_pos' = pool_free_pos
        /\ pc' = pc /\ nbytes' = nbytes /\ nquantas' = nquantas /\ prevp' = prevp /\ p' = p
        /\ block' = block /\ q' = q /\ inner' = inner /\ live' = live /\ avail' = avail
    BY <1>10 DEF vars
  <2>2. TypeOK' /\ PcInv' /\ InnerInv'
    BY <2>1 DEF IInv, TypeOK, PcInv, InnerInv, Top
  <2>3. Tiling'
    BY <2>1 DEF IInv, Tiling, KindsApart, BlocksApart, NothingLost, CarvedEnd, Top, Blocks,
       LiveBlocks, FreeBlocks, InHand
  <2>4. EnoughRoom' /\ SortedRing' /\ Coalesced' /\ WalkSound'
    BY <2>1 DEF IInv, EnoughRoom, SortedRing, NextIsSuccessor, Coalesced, FreeBlocks,
       WalkSound, Passed
  <2> QED BY <2>2, <2>3, <2>4 DEF IInv
<1> QED BY <1>1, <1>2, <1>3, <1>4, <1>5, <1>6, <1>7, <1>8, <1>9, <1>10 DEF Next, Internal

\* The inductive invariant holds in every reachable state.
THEOREM Invariance == ASSUME RequestsFit PROVE Spec => []IInv
<1>1. Init => IInv
  BY InitIInv
<1>2. IInv /\ [Next]_vars => IInv'
  BY StepIInv
<1> QED BY <1>1, <1>2, PTL DEF Spec

\* Every variable keeps its type: every address that malloc.c follows or writes
\* is that of base or of a header inside the pool.
THEOREM TypeCorrect == ASSUME RequestsFit PROVE Spec => []TypeOK
<1>1. IInv => TypeOK
  BY DEF IInv
<1> QED BY <1>1, Invariance, PTL

\* Whatever the sequence of malloc and free calls, the live blocks, the free
\* blocks and the one being linked tile what was carved from the pool
\* (malloc.c:244-350, 391-413).
THEOREM TilingHolds == ASSUME RequestsFit PROVE Spec => []Tiling
<1>1. IInv => Tiling
  BY DEF IInv
<1> QED BY <1>1, Invariance, PTL

\* The free list is circular and sorted by address (malloc.c:375-387), and no
\* two of its blocks are adjacent (malloc.c:353-357).
THEOREM RingHolds == ASSUME RequestsFit PROVE Spec => [](SortedRing /\ Coalesced)
<1>1. IInv => SortedRing /\ Coalesced
  BY DEF IInv
<1> QED BY <1>1, Invariance, PTL

\* What free merges stays merged: no block of the free list ends where the next
\* one begins (malloc.c:388-411).
THEOREM CoalescedHolds == ASSUME RequestsFit PROVE Spec => []Coalesced
<1>1. SortedRing /\ Coalesced => Coalesced
  OBVIOUS
<1> QED BY <1>1, RingHolds, PTL

\* A live block houses its request and its header (malloc.c:287-289), for the
\* requests that do not wrap a size_t.
THEOREM EnoughRoomHolds == ASSUME RequestsFit PROVE Spec => []EnoughRoom
<1>1. IInv => EnoughRoom
  BY DEF IInv
<1> QED BY <1>1, Invariance, PTL

\* The block that a successful walk hands out is in the pool and not live.
LEMMA HandedOut ==
    ASSUME RequestsFit, IInv, TakeExact \/ TakeTail
    PROVE  \E r \in Addr : r >= 2 /\ r \notin LiveBlocks /\ ReturnPtr(r) /\ r < PoolEnd
<1> USE Addresses
<1>1. /\ pc = "search" /\ nquantas = Quantas(nbytes) /\ nbytes \in Requests
      /\ p \in Addr /\ size[p] \in Nat /\ size[p] >= nquantas /\ nquantas \in Nat
  <2>1. p \in avail /\ avail \subseteq Addr /\ pc = "search" /\ nquantas \in Nat
    BY SMT DEF TakeExact, TakeTail, IInv, TypeOK, PcInv, WalkSound, SortedRing, NextIsSuccessor
  <2>2. nquantas = Quantas(nbytes) /\ nbytes \in Requests
    BY <2>1 DEF IInv, PcInv
  <2>3. size[p] \in Nat /\ p \in Addr
    BY <2>1, Numbers
  <2> QED BY <2>1, <2>2, <2>3, SMT DEF TakeExact, TakeTail
<1>2. nquantas >= 1
  BY <1>1, QuantasFit
<1>3. size[p] > 0
  BY <1>1, <1>2, SMT
<1>4. p \in FreeBlocks /\ p \notin LiveBlocks /\ p >= 2
  BY <1>1, <1>3, RingAtP
<1>5. CASE TakeExact
  BY <1>1, <1>4, <1>5, SMT DEF TakeExact
<1>6. CASE TakeTail
  <2> DEFINE r == p + (size[p] - nquantas)
  <2>1. r \in Nat /\ p < r /\ r < p + size[p]
    BY <1>1, <1>2, <1>6, SMT DEF TakeTail
  <2>2. /\ p \in Blocks /\ LiveBlocks \subseteq Blocks
        /\ \A a, b \in Blocks : a < b => a + size[a] <= b
        /\ p + size[p] <= CarvedEnd /\ CarvedEnd \in Nat /\ CarvedEnd <= PoolEnd
    BY <1>4, Numbers, SMT DEF Blocks, IInv, Tiling, BlocksApart
  <2> HIDE DEF r
  <2>3. r \notin LiveBlocks
    BY <2>1, <2>2, <1>1, SMT
  <2>4. r \in Addr /\ r >= 2 /\ r < PoolEnd
    BY <2>1, <2>2, <1>1, <1>4, SMT
  <2>5. ReturnPtr(r)
    BY <1>6 DEF TakeTail, r
  <2> QED BY <2>3, <2>4, <2>5
<1> QED BY <1>5, <1>6

-----------------------------------------------------------------------------
(* The pool is the last resort. *)

\* When the walk is back at freep and the block there is too small, it has
\* passed every other block.
LEMMA CameRound ==
    ASSUME IInv, pc = "search", size[p] < nquantas, p = freep
    PROVE  NothingFits
<1> USE Addresses
<1>1. avail \subseteq Addr /\ freep \in Addr
  BY SMT DEF IInv, TypeOK, PcInv
<1>2. \A b \in avail : b = p \/ Passed(b)
  BY <1>1, SMT DEF Passed
<1>3. \A b \in avail : Passed(b) => size[b] < nquantas
  BY DEF IInv, WalkSound
<1> QED BY <1>2, <1>3 DEF NothingFits

\* malloc.c:331-349: the pool is carved, and a request refused, only when no
\* free block fits; and carving makes the request succeed.
THEOREM LastResortHolds == ASSUME RequestsFit PROVE Spec => LastResort
<1> USE Addresses
<1>1. ASSUME IInv, Next PROVE PoolStep
  <2>1. ASSUME NEW n \in Requests, MallocCall(n) PROVE PoolStep
    BY <2>1, SMT DEF MallocCall, freeVars, PoolStep, Carves, Refuses, Carved
  <2>2. ASSUME NEW u \in DOMAIN live, FreeCall(u) PROVE PoolStep
    BY <2>2, <1>1, SMT DEF FreeCall, IInv, PcInv, PoolStep, Carves, Refuses, Carved
  <2>3. CASE Advance
    BY <2>3, SMT DEF Advance, freeVars, PoolStep, Carves, Refuses, Carved
  <2>4. CASE ScanStep
    BY <2>4, SMT DEF ScanStep, PoolStep, Carves, Refuses, Carved
  <2>5. CASE Grow
    BY <2>5, <1>1, CameRound, SMT DEF Grow, PoolStep, Carves, Refuses, Carved
  <2>6. CASE Exhausted
    <3>1. NothingFits
      BY <2>6, <1>1, CameRound DEF Exhausted
    <3>2. pool_free_pos + Quanta * PoolQuantas(nquantas) > PoolSize
      <4>1. nbytes \in Requests /\ nquantas = Quantas(nbytes)
        BY <2>6, <1>1 DEF Exhausted, IInv, PcInv
      <4>2. /\ PoolQuantas(nquantas) \in Nat
            /\ PoolBytes(nquantas) = 4 * PoolQuantas(nquantas)
            /\ 4 * PoolQuantas(nquantas) + PoolSize < Word
        BY <4>1, PoolBytesFit
      <4>3. pool_free_pos \in Nat /\ pool_free_pos <= PoolSize /\ PoolSize \in Nat
        BY <1>1, MallocAssumption, SMT DEF IInv, TypeOK
      <4>4. /\ pool_free_pos + 4 * PoolQuantas(nquantas) \in Nat
            /\ pool_free_pos + 4 * PoolQuantas(nquantas) < Word
        BY <4>2, <4>3, WordNat, SMT
      <4>5. HasRoom(nquantas) <=> pool_free_pos + 4 * PoolQuantas(nquantas) <= PoolSize
        BY <4>2, <4>4, NoWrap DEF HasRoom
      <4> QED BY <4>2, <4>3, <4>5, <2>6, SMT DEF Exhausted
    <3>3. inner' = inner
      BY <2>6 DEF Exhausted, freeVars
    <3> QED BY <3>1, <3>2, <3>3 DEF PoolStep, Carves, Refuses, Carved
  <2>7. CASE TakeExact \/ TakeTail
    <3>1. inner' = inner
      BY <2>7 DEF TakeExact, TakeTail, freeVars
    <3>2. PICK r \in Addr : r \notin LiveBlocks /\ ReturnPtr(r)
      BY <2>7, <1>1, HandedOut
    <3>3. live' # live
      <4>1. r + 1 \in DOMAIN live'
        BY <3>2 DEF ReturnPtr
      <4>2. r + 1 \notin DOMAIN live
        <5>1. (r + 1) - 1 = r
          BY <3>2, SMT
        <5> QED BY <5>1, <3>2 DEF LiveBlocks
      <4> QED BY <4>1, <4>2
    <3> QED BY <3>1, <3>3 DEF PoolStep, Carves, Refuses, Carved
  <2>8. CASE Insert
    <3>1. ~inner' /\ live' = live /\ pc = "scan"
      BY <2>8 DEF Insert
    <3>2. ASSUME inner PROVE \E b \in avail' : ~(size'[b] < nquantas')
      <4>1. /\ nquantas' = nquantas /\ size[block] = PoolQuantas(nquantas)
            /\ nquantas = Quantas(nbytes) /\ nbytes \in Requests
        BY <3>2, <2>8, <1>1 DEF Insert, IInv, PcInv, InnerInv
      <4>2. /\ nquantas \in Nat /\ PoolQuantas(nquantas) \in Nat
            /\ PoolQuantas(nquantas) >= nquantas
        BY <4>1, QuantasFit, PoolBytesFit
      <4>3. /\ FitsAfter(q) /\ Link
        BY <2>8 DEF Insert
      <4>4. /\ MeetsUpper => next[q] = block + size[block] /\ next[q] \in FreeBlocks
            /\ Home \notin Absorbed /\ size'[Home] \in Nat
            /\ avail' = (avail \cup {block}) \ Absorbed
            /\ Home + size'[Home] = IF MeetsUpper THEN next[q] + size[next[q]]
                                    ELSE block + size[block]
        BY <4>3, <3>1, <1>1, LinkEffect
      <4>5. /\ q \in avail /\ q \in Addr /\ block \in Addr /\ q < block
            /\ next[q] \in Addr
        BY <4>3, <3>1, <1>1, Place
      <4>6. size[next[q]] \in Nat /\ size[block] \in Nat
        BY <4>5, <1>1, Numbers
      <4>7. Home \in avail'
        BY <4>4, <4>5 DEF Home
      <4>8. Home \in Nat /\ Home <= block
        BY <4>5, SMT DEF Home
      <4>9. size'[Home] >= size[block]
        BY <4>4, <4>5, <4>6, <4>8, SMT
      <4> QED BY <4>1, <4>2, <4>4, <4>7, <4>9, SMT
    <3> QED BY <3>1, <3>2, SMT DEF NothingFits, PoolStep, Carves, Refuses, Carved
  <2> QED BY <1>1, <2>1, <2>2, <2>3, <2>4, <2>5, <2>6, <2>7, <2>8 DEF Next, Internal
<1>2. IInv /\ [Next]_vars => [PoolStep]_vars
  BY <1>1
<1> QED BY <1>2, Invariance, PTL DEF Spec, LastResort

-----------------------------------------------------------------------------
(* The allocator implements the abstract heap. *)

\* A block handed out is the heap's Allocate: its bytes are in the pool and
\* apart from those of every other live pointer.
LEMMA HandOut ==
    ASSUME IInv, IInv', pc = "search", NEW r \in Addr, r >= 2, r \notin LiveBlocks, ReturnPtr(r),
           CarvedEnd' <= PoolEnd
    PROVE  H!Allocate(nbytes, r + 1)
<1> USE Addresses
<1>1. /\ DOMAIN live' = DOMAIN live \cup {r + 1}
      /\ \A u \in DOMAIN live' : live'[u] = IF u = r + 1 THEN nbytes ELSE live[u]
      /\ LiveBlocks' = LiveBlocks \cup {r}
      /\ live' = [u \in DOMAIN live \cup {r + 1} |-> IF u = r + 1 THEN nbytes ELSE live[u]]
  BY ReturnPtrLive DEF ReturnPtr
<1>2. r \in Nat /\ (r + 1) - 1 = r
  BY SMT
<1>3. r + 1 \notin DOMAIN live
  BY <1>2 DEF LiveBlocks
<1>4. /\ \A u \in DOMAIN live' : live'[u] + 4 <= 4 * size'[u - 1]
      /\ \A u \in DOMAIN live' : u - 1 \in Blocks' /\ u \in Nat /\ live'[u] \in Nat
      /\ \A u \in DOMAIN live' : size'[u - 1] \in Nat
  <2>1. \A u \in DOMAIN live' : live'[u] + 4 <= 4 * size'[u - 1]
    BY DEF IInv, EnoughRoom
  <2>2. \A u \in DOMAIN live' : u \in Pointers /\ live'[u] \in Requests
    BY DEF IInv, TypeOK
  <2>3. \A u \in DOMAIN live' : u - 1 \in Blocks' /\ u \in Nat /\ u - 1 \in Addr
    BY <2>2, SMT DEF Blocks, LiveBlocks, Pointers
  <2>4. \A u \in DOMAIN live' : size'[u - 1] \in Nat
    BY <2>3, SMT DEF IInv, TypeOK
  <2>5. \A u \in DOMAIN live' : live'[u] \in Nat
    BY <2>2, RequestsNat
  <2> QED BY <2>1, <2>3, <2>4, <2>5
<1>5. /\ \A a \in Blocks' : a + size'[a] <= CarvedEnd'
      /\ \A a, b \in Blocks' : a < b => a + size'[a] <= b
  BY DEF IInv, Tiling, BlocksApart
<1>6. PoolStart <= r + 1 /\ 4 * (r + 1) + nbytes <= 4 * PoolEnd
  <2>1. /\ r + 1 \in DOMAIN live' /\ live'[r + 1] = nbytes /\ r \in Blocks'
        /\ size'[r] \in Nat /\ nbytes \in Nat /\ nbytes + 4 <= 4 * size'[r]
    BY <1>1, <1>2, <1>4
  <2>2. r + size'[r] <= CarvedEnd' /\ CarvedEnd' \in Nat
    <3>1. r + size'[r] <= CarvedEnd'
      BY <2>1, <1>5
    <3>2. pc' = "idle" /\ ~inner'
      BY SMT DEF ReturnPtr, IInv, PcInv
    <3>3. CarvedEnd' \in Nat
      <4>1. pool_free_pos' \in Nat
        BY MallocAssumption, SMT DEF IInv, TypeOK
      <4>2. Top' \in Nat
        BY <4>1, TopNat DEF Top
      <4>3. CarvedEnd' = Top' + 0
        BY <3>2 DEF CarvedEnd
      <4>4. \A t \in Nat : t + 0 \in Nat
        BY SMT
      <4> QED BY <4>2, <4>3, <4>4
    <3> QED BY <3>1, <3>3
  <2> QED BY <2>1, <2>2, SMT
<1>7. ASSUME NEW v \in DOMAIN live
      PROVE  4 * (r + 1) + nbytes <= 4 * v \/ 4 * v + live[v] <= 4 * (r + 1)
  <2>1. /\ v \in DOMAIN live' /\ v # r + 1 /\ live'[v] = live[v]
        /\ r + 1 \in DOMAIN live' /\ live'[r + 1] = nbytes
    BY <1>1, <1>3
  <2>2. /\ v - 1 \in Blocks' /\ r \in Blocks' /\ v \in Nat
        /\ size'[v - 1] \in Nat /\ size'[r] \in Nat /\ live[v] \in Nat /\ nbytes \in Nat
        /\ live[v] + 4 <= 4 * size'[v - 1] /\ nbytes + 4 <= 4 * size'[r]
    BY <2>1, <1>2, <1>4
  <2>3. CASE v - 1 < r
    <3>1. (v - 1) + size'[v - 1] <= r
      BY <2>2, <2>3, <1>5
    <3> QED BY <3>1, <2>2, <1>2, SMT
  <2>4. CASE r < v - 1
    <3>1. r + size'[r] <= v - 1
      BY <2>2, <2>4, <1>5
    <3> QED BY <3>1, <2>2, <1>2, SMT
  <2> QED BY <2>1, <2>2, <2>3, <2>4, <1>2, SMT
<1> QED BY <1>1, <1>3, <1>6, <1>7 DEF H!Allocate, H!Apart

\* malloc and free as callers see them (malloc.c:280-414): live pointers own
\* disjoint regions of the pool, of at least the bytes they asked for.
THEOREM ImplementsHeap == ASSUME RequestsFit PROVE Spec => HeapSpec
<1> USE Addresses
<1>1. Init => H!Init
  BY DEF Init, H!Init
<1>2. ASSUME IInv, IInv', Next PROVE H!Next \/ live' = live
  <2>1. ASSUME NEW n \in Requests, MallocCall(n) PROVE live' = live
    BY <2>1 DEF MallocCall
  <2>2. ASSUME NEW u \in DOMAIN live, FreeCall(u) PROVE H!Next
    BY <2>2 DEF FreeCall, H!Next, H!Release
  <2>3. CASE Advance \/ Grow \/ Exhausted \/ ScanStep \/ Insert
    BY <2>3 DEF Advance, Grow, Exhausted, ScanStep, Insert
  <2>4. CASE TakeExact \/ TakeTail
    <3>1. PICK r \in Addr : r >= 2 /\ r \notin LiveBlocks /\ ReturnPtr(r) /\ r < PoolEnd
      BY <2>4, <1>2, HandedOut
    <3>2. pc = "search" /\ CarvedEnd' <= PoolEnd
      BY <2>4, <1>2 DEF TakeExact, TakeTail, IInv, Tiling
    <3>3. H!Allocate(nbytes, r + 1)
      BY <3>1, <3>2, <1>2, HandOut
    <3>4. nbytes \in Requests
      BY <3>2, <1>2 DEF IInv, PcInv
    <3>5. r + 1 \in PoolStart..PoolEnd
      BY <3>1, SMT
    <3> QED BY <3>3, <3>4, <3>5 DEF H!Next
  <2> QED BY <1>2, <2>1, <2>2, <2>3, <2>4 DEF Next, Internal
<1>3. IInv /\ IInv' /\ [Next]_vars => [H!Next]_live
  BY <1>2 DEF vars
<1> QED BY <1>1, <1>3, Invariance, PTL DEF Spec, HeapSpec, H!Spec
=============================================================================
