-------------------------- MODULE IPAllocatorProofs -------------------------
(***************************************************************************)
(* Proofs about IPAllocator, for every set of ranges and every cap.        *)
(***************************************************************************)
EXTENDS IPAllocator, FiniteSetTheorems, TLAPS

\* The inductive invariant: the types, and the count the full check trusts.
Inv == TypeOK /\ CountIsAccurate

\* What the range arithmetic yields: max is a natural number, base an integer.
LEMMA RangeFacts ==
  ASSUME TypeOK
  PROVE  /\ cidr.first \in Nat /\ cidr.size \in Nat
         /\ max \in Nat /\ base \in Int
         /\ Offsets = 0 .. (max - 1)
         /\ Offsets \subseteq Nat
         /\ IsFiniteSet(Offsets) /\ Cardinality(Offsets) = max
<1>1. cidr.first \in Nat /\ cidr.size \in Nat \ {0} /\ cidr.v6 \in BOOLEAN
  BY CIDRsAssumption DEF TypeOK, CIDR
<1>2. max \in Nat /\ base \in Int
  BY <1>1, V6CapAssumption DEF max, base, RangeMax, RangeBase, maximum
<1>3. IsFiniteSet(0 .. (max - 1)) /\ Cardinality(0 .. (max - 1)) = max
  <2>1. 0 \in Int /\ max - 1 \in Int  BY <1>2
  <2>2. /\ IsFiniteSet(0 .. (max - 1))
        /\ Cardinality(0 .. (max - 1)) = IF 0 > max - 1 THEN 0 ELSE (max - 1) - 0 + 1
    BY <2>1, FS_Interval
  <2> QED  BY <1>2, <2>2
<1> QED  BY <1>1, <1>2, <1>3 DEF Offsets

\* A remainder by max is an offset.
LEMMA ModInRange ==
  ASSUME NEW m \in Nat, m > 0, NEW x \in Nat
  PROVE  x % m \in 0 .. (m - 1)
OBVIOUS

LEMMA AllocatedFinite ==
  ASSUME TypeOK
  PROVE  IsFiniteSet(allocated) /\ Cardinality(allocated) \in Nat
<1>1. IsFiniteSet(Offsets) /\ allocated \in SUBSET Offsets
  BY RangeFacts DEF TypeOK
<1>2. IsFiniteSet(allocated)  BY <1>1, FS_Subset
<1> QED  BY <1>2, FS_CardinalityType

LEMMA InitInv == NewRange => Inv
  BY FS_EmptySet DEF NewRange, Inv, TypeOK, CountIsAccurate

LEMMA NextInv == Inv /\ [Next]_vars => Inv'
<1> SUFFICES ASSUME Inv, [Next]_vars PROVE Inv'
  OBVIOUS
<1> USE DEF Inv
<1>0. /\ max \in Nat /\ base \in Int
      /\ Offsets = 0 .. (max - 1)
      /\ IsFiniteSet(allocated)
  BY RangeFacts, AllocatedFinite
<1>a. \A x : /\ Cardinality(allocated \cup {x}) =
                   IF x \in allocated THEN Cardinality(allocated) ELSE Cardinality(allocated) + 1
             /\ Cardinality(allocated \ {x}) =
                   IF x \in allocated THEN Cardinality(allocated) - 1 ELSE Cardinality(allocated)
  BY <1>0, FS_AddElement, FS_RemoveElement
<1>b. \A x \in allocated : count > 0
  BY <1>0, FS_EmptySet DEF TypeOK, CountIsAccurate
<1>c. cidr' = cidr => max' = max /\ Offsets' = Offsets
  BY DEF max, Offsets
<1>1. ASSUME NEW ip \in IPs, Allocate(ip) PROVE Inv'
  <2>1. ip \in Int  BY IPsAssumption
  <2>2. contains(ip) => ip - base \in Offsets
    BY <1>0, <2>1 DEF contains
  <2>3. TypeOK'
    BY <1>1, <1>c, <2>2 DEF Allocate, TypeOK
  <2>4. CountIsAccurate'
    BY <1>1, <1>a DEF Allocate, CountIsAccurate
  <2> QED  BY <2>3, <2>4
<1>2. ASSUME NEW ip \in IPs, Release(ip) PROVE Inv'
  <2>1. TypeOK'
    BY <1>2, <1>b, <1>c DEF Release, TypeOK
  <2>2. CountIsAccurate'
    BY <1>2, <1>a DEF Release, CountIsAccurate
  <2> QED  BY <2>1, <2>2
<1>3. CASE AllocateNextOK
  <2>1. PICK start \in ScanStart, at \in Offsets :
          /\ FirstClear(start, at)
          /\ allocated' = allocated \cup {at}
          /\ count' = count + 1
          /\ nextAlloc' = IF strategy = "roundRobin" THEN (at + 1) % max ELSE nextAlloc
          /\ lastNext' = at
    BY <1>3 DEF AllocateNextOK, AllocateNextWith
  <2>2. cidr' = cidr /\ strategy' = strategy /\ count < max
    BY <1>3 DEF AllocateNextOK, AllocateNextWith
  <2>3. at \notin allocated
    BY <2>1 DEF FirstClear
  <2>4. (at + 1) % max \in Offsets
    <3>1. at + 1 \in Nat /\ max > 0  BY <1>0
    <3> QED  BY <1>0, <3>1, ModInRange
  <2>5. nextAlloc' \in Nat /\ (nextAlloc' = 0 \/ nextAlloc' \in Offsets)
    BY <1>0, <2>1, <2>4 DEF TypeOK
  <2>6. TypeOK'
    BY <1>c, <2>1, <2>2, <2>5 DEF TypeOK
  <2>7. CountIsAccurate'
    BY <1>a, <2>1, <2>3 DEF CountIsAccurate
  <2> QED  BY <2>6, <2>7
<1>4. CASE AllocateNextFull
  BY <1>4, <1>c DEF AllocateNextFull, TypeOK, CountIsAccurate
<1>5. CASE UNCHANGED vars
  BY <1>5, <1>c DEF vars, TypeOK, CountIsAccurate
<1> QED  BY <1>1, <1>2, <1>3, <1>4, <1>5 DEF Next

\* Types, and the count of set bits that AllocateNext trusts, hold in every
\* reachable state of an allocator over any range.
THEOREM CountCorrect == Spec => [](TypeOK /\ CountIsAccurate)
<1>1. Inv => TypeOK /\ CountIsAccurate  BY DEF Inv
<1> QED  BY InitInv, NextInv, <1>1, PTL DEF Spec

-----------------------------------------------------------------------------
(* The allocator implements the address pool. *)

\* The usable addresses are those that pass the checks of contains, and stand for the
\* offsets.
LEMMA UsableFacts ==
  ASSUME TypeOK
  PROVE  /\ Usable \subseteq Int
         /\ \A ip \in Int : ip \in Usable <=> contains(ip)
         /\ \A ip \in Int : ip \in Usable <=> ip - base \in Offsets
         /\ \A o \in Offsets : base + o \in Usable
<1>1. cidr.first \in Nat /\ cidr.size \in Nat \ {0} /\ cidr.v6 \in BOOLEAN
  BY CIDRsAssumption DEF TypeOK, CIDR
<1>2. /\ max \in Nat /\ base = cidr.first + 1
      /\ max = 0 \/ max <= cidr.size - 1
  BY <1>1, V6CapAssumption DEF max, base, RangeMax, RangeBase, maximum
<1>3. \A ip \in Int : ip \in Usable <=> contains(ip)
  BY <1>1, <1>2 DEF Usable, contains
<1>4. \A ip \in Int : ip \in Usable <=> ip - base \in Offsets
  BY <1>1, <1>2 DEF Usable, Offsets
<1>5. Usable \subseteq Int
  BY <1>1, <1>2 DEF Usable
<1>6. \A o \in Offsets : base + o \in Usable
  BY <1>1, <1>2 DEF Usable, Offsets
<1> QED BY <1>3, <1>4, <1>5, <1>6

\* An address is held when its offset is.
LEMMA ShiftedSet ==
  ASSUME NEW b \in Int, NEW A, A \subseteq Nat
  PROVE  \A ip \in Int : ip \in {b + o : o \in A} <=> ip - b \in A
<1>1. ASSUME NEW ip \in Int, ip - b \in A PROVE ip \in {b + o : o \in A}
  <2>1. b + (ip - b) = ip
    OBVIOUS
  <2> QED BY <1>1, <2>1
<1>2. ASSUME NEW o \in A PROVE (b + o) - b = o
  OBVIOUS
<1> QED BY <1>1, <1>2

\* One more offset is one more address, one less one less.
LEMMA ShiftedChange ==
  ASSUME NEW b \in Int, NEW A, A \subseteq Nat, NEW x \in Int
  PROVE  /\ {b + o : o \in A \cup {x}} = {b + o : o \in A} \cup {b + x}
         /\ {b + o : o \in A \ {x}} = {b + o : o \in A} \ {b + x}
<1>1. \A o \in A : b + o = b + x => o = x
  OBVIOUS
<1>2. {b + o : o \in A \cup {x}} = {b + o : o \in A} \cup {b + x}
  OBVIOUS
<1>3. {b + o : o \in A \ {x}} = {b + o : o \in A} \ {b + x}
  BY <1>1
<1> QED BY <1>2, <1>3

\* The scan of AllocateBit visits every offset, wherever it starts.
LEMMA ScanVisitsAll ==
  ASSUME NEW m \in Nat, NEW start \in 0 .. (m - 1), NEW x \in 0 .. (m - 1)
  PROVE  \E i \in 0 .. (m - 1) : (start + i) % m = x
<1>1. CASE start <= x
  <2>1. x - start \in 0 .. (m - 1) /\ (start + (x - start)) = x /\ x % m = x
    BY <1>1
  <2> QED BY <2>1
<1>2. CASE start > x
  <2>1. (x - start) + m \in 0 .. (m - 1) /\ (start + ((x - start) + m)) = x + m
    BY <1>2
  <2>2. (x + m) % m = x
    OBVIOUS
  <2> QED BY <2>1, <2>2
<1> QED BY <1>1, <1>2

\* AllocateNext says ErrFull only when no address is left: by the count, which is
\* accurate, or by a scan of the whole range.
LEMMA FullIsFull ==
  ASSUME Inv, AllocateNextFull
  PROVE  Offsets \subseteq allocated
<1>0. /\ max \in Nat /\ Offsets = 0 .. (max - 1) /\ allocated \subseteq Offsets
      /\ IsFiniteSet(Offsets) /\ Cardinality(Offsets) = max
  BY RangeFacts DEF Inv, TypeOK
<1>1. CASE count >= max
  <2>1. Cardinality(allocated) <= Cardinality(Offsets)
        /\ (Cardinality(allocated) = Cardinality(Offsets) => allocated = Offsets)
    BY <1>0, FS_Subset
  <2>2. Cardinality(allocated) \in Nat /\ Cardinality(allocated) >= max
    BY <1>1, AllocatedFinite DEF Inv, CountIsAccurate
  <2> QED BY <1>0, <2>1, <2>2
<1>2. CASE \E start \in ScanStart : ScanFails(start)
  <2>1. PICK start \in ScanStart : \A i \in Offsets : (start + i) % max \in allocated
    BY <1>2 DEF ScanFails
  <2>2. CASE max = 0
    BY <1>0, <2>2
  <2>3. CASE max # 0
    <3>1. start \in 0 .. (max - 1)
      BY <1>0, <2>1, <2>3 DEF ScanStart, Inv, TypeOK, Strategies
    <3>2. ASSUME NEW x \in Offsets PROVE x \in allocated
      <4>0. x \in 0 .. (max - 1)
        BY <1>0
      <4>1. PICK i \in 0 .. (max - 1) : (start + i) % max = x
        BY <1>0, <3>1, <4>0, ScanVisitsAll, Zenon
      <4> QED BY <1>0, <2>1, <4>1
    <3> QED BY <3>2
  <2> QED BY <2>2, <2>3
<1> QED BY <1>1, <1>2 DEF AllocateNextFull

\* A call of the allocator is a call of the pool with the same answer.
LEMMA StepIsPoolStep ==
  ASSUME Inv, Inv', [Next]_vars
  PROVE  [Pool!Next]_(Pool!vars)
<1>0. /\ TypeOK /\ IPs \subseteq Int /\ max \in Nat /\ base \in Int
      /\ Offsets = 0 .. (max - 1) /\ Offsets \subseteq Nat
  BY IPsAssumption, RangeFacts DEF Inv
<1>1. cidr' = cidr /\ base' = base /\ Usable' = Usable /\ Offsets' = Offsets
  <2>1. cidr' = cidr
    BY DEF Next, Allocate, Release, AllocateNextOK, AllocateNextWith, AllocateNextFull, vars
  <2> QED BY <2>1 DEF base, max, Usable, Offsets
<1>2. allocated \subseteq Offsets /\ allocated' \subseteq Offsets
  BY <1>1 DEF Inv, TypeOK
<1> DEFINE H == {base + o : o \in allocated}
           I == {base + o : o \in allocated'}
<1>3. /\ \A ip \in Int : ip \in Usable <=> contains(ip)
      /\ \A o \in Offsets : base + o \in Usable
      /\ \A ip \in Usable : ip \in Int /\ ip - base \in Offsets
  BY <1>0, UsableFacts
<1>4. \A ip \in Int : (ip \in H <=> ip - base \in allocated) /\ (ip \in I <=> ip - base \in allocated')
  BY <1>0, <1>2, ShiftedSet
<1>5. H \subseteq Int /\ I \subseteq Int
  BY <1>0, <1>2
<1>6. {base' + o : o \in allocated'} = I
  BY <1>1
<1> HIDE DEF H, I
<1> DEFINE PoolStep == \/ \E ip \in Usable \ H : I = H \cup {ip} /\ reply' = Reply(ip, "nil")
                       \/ /\ Usable \subseteq H /\ reply' = Reply(None, "ErrFull") /\ I = H
                       \/ \E ip \in IPs : /\ ip \in Usable \ H /\ I = H \cup {ip}
                                          /\ reply' = Reply(ip, "nil")
                       \/ \E ip \in IPs : /\ ip \notin Usable \ H /\ I = H
                                          /\ reply' = Reply(None, IF ip \in Usable THEN "ErrAllocated"
                                                                                   ELSE "ErrNotInRange")
                       \/ \E ip \in IPs : I = H \ {ip} /\ reply' = Reply(None, "nil")
<1>7. PoolStep => Pool!Next
  BY <1>1, <1>6 DEF Pool!Next, Pool!Take, Pool!RefuseTake, Pool!Reserve, Pool!RefuseReserve,
     Pool!GiveBack, Pool!Reply, Reply, H
<1>8. ASSUME NEW ip \in IPs, Allocate(ip) PROVE PoolStep
  <2>0. ip \in Int /\ ip - base \in Int
    BY <1>0
  <2>1. CASE ~contains(ip)
    <3>1. I = H
      BY <1>8, <2>1, <1>4, <1>5 DEF Allocate
    <3> QED BY <1>8, <2>0, <2>1, <3>1, <1>3 DEF Allocate
  <2>2. CASE contains(ip) /\ ip - base \in allocated
    <3>1. I = H
      BY <1>8, <2>2, <1>4, <1>5 DEF Allocate
    <3> QED BY <1>8, <2>0, <2>2, <3>1, <1>3, <1>4 DEF Allocate
  <2>3. CASE contains(ip) /\ ip - base \notin allocated
    <3>0. allocated' = allocated \cup {ip - base} /\ base + (ip - base) = ip
      BY <1>8, <2>0, <2>3, <1>0 DEF Allocate
    <3>1. I = H \cup {ip}
      BY <2>0, <3>0, <1>0, <1>2, ShiftedChange DEF H, I
    <3> QED BY <1>8, <2>0, <2>3, <3>1, <1>3, <1>4 DEF Allocate
  <2> QED BY <2>1, <2>2, <2>3
<1>9. ASSUME NEW ip \in IPs, Release(ip) PROVE PoolStep
  <2>0. ip \in Int /\ ip - base \in Int
    BY <1>0
  <2>1. ip - base \in allocated => contains(ip)
    <3>1. CASE ip - base \in allocated
      <4>1. base + (ip - base) \in Usable /\ base + (ip - base) = ip
        BY <1>0, <1>2, <1>3, <2>0, <3>1
      <4> QED BY <1>3, <2>0, <4>1
    <3> QED BY <3>1
  <2>2. allocated' = allocated \ {ip - base}
    BY <1>9, <2>1 DEF Release
  <2>3. I = H \ {ip}
    <3>1. base + (ip - base) = ip
      BY <1>0, <2>0
    <3> QED BY <2>0, <2>2, <3>1, <1>0, <1>2, ShiftedChange DEF H, I
  <2> QED BY <1>9, <2>3 DEF Release
<1>10. CASE AllocateNextOK
  <2>1. PICK at \in Offsets : /\ at \notin allocated /\ allocated' = allocated \cup {at}
                              /\ reply' = Reply(base + at, "nil")
    BY <1>10 DEF AllocateNextOK, AllocateNextWith, FirstClear
  <2>2. base + at \in Usable /\ base + at \notin H
    <3>1. at \in Int /\ base + at \in Int /\ (base + at) - base = at
      BY <1>0
    <3> QED BY <2>1, <3>1, <1>3, <1>4
  <2>3. I = H \cup {base + at}
    BY <2>1, <1>0, <1>2, ShiftedChange DEF H, I
  <2>4. \E ip \in Usable \ H : I = H \cup {ip} /\ reply' = Reply(ip, "nil")
    BY <2>1, <2>2, <2>3, Zenon
  <2> QED BY <2>4, <1>7, Zenon
<1>11. CASE AllocateNextFull
  <2>1. Usable \subseteq H
    BY <1>11, <1>3, <1>4, FullIsFull
  <2>2. I = H
    BY <1>11, <1>4, <1>5 DEF AllocateNextFull
  <2>3. reply' = Reply(None, "ErrFull")
    BY <1>11 DEF AllocateNextFull
  <2> QED BY <2>1, <2>2, <2>3, <1>7, Zenon
<1>12. CASE UNCHANGED vars
  BY <1>12, <1>1 DEF vars, Pool!vars
<1> HIDE DEF PoolStep
<1> QED BY <1>7, <1>8, <1>9, <1>10, <1>11, <1>12 DEF Next

\* Every call of Allocate, AllocateNext and Release on any range, with any strategy,
\* answers as the abstract address pool of IPPool may.
THEOREM AllocatorImplementsPool == Spec => ImplementsIPPool
<1>1. NewRange => Pool!Init
  <2> SUFFICES ASSUME NewRange PROVE Pool!Init
    OBVIOUS
  <2>1. Usable \subseteq Int /\ {base + o : o \in allocated} = {}
    BY InitInv, UsableFacts DEF Inv, NewRange
  <2> QED BY <2>1 DEF NewRange, Pool!Init, Pool!Reply, Reply
<1>2. Inv /\ Inv' /\ [Next]_vars => [Pool!Next]_(Pool!vars)
  BY StepIsPoolStep
<1> QED BY <1>1, <1>2, InitInv, NextInv, PTL DEF Spec, ImplementsIPPool, Pool!Spec

-----------------------------------------------------------------------------
(* The round-robin strategy. *)

\* The cursor stands just behind the offset that was handed out last.
CursorAfterLast ==
  strategy = "roundRobin" /\ lastNext \in Offsets => nextAlloc = (lastNext + 1) % max

LEMMA CursorInv == Inv /\ CursorAfterLast /\ [Next]_vars => CursorAfterLast'
<1> SUFFICES ASSUME Inv, CursorAfterLast, [Next]_vars PROVE CursorAfterLast'
  OBVIOUS
<1>1. cidr' = cidr => max' = max /\ Offsets' = Offsets
  BY DEF max, Offsets
<1>2. CASE AllocateNextOK
  BY <1>1, <1>2 DEF AllocateNextOK, AllocateNextWith, CursorAfterLast
<1>3. CASE UNCHANGED <<cidr, strategy, nextAlloc, lastNext>>
  BY <1>1, <1>3 DEF CursorAfterLast
<1> QED  BY <1>2, <1>3 DEF Next, Allocate, Release, AllocateNextFull, vars

\* A scan that starts behind offset x sees x last.
LEMMA SeenLast ==
  ASSUME NEW m \in Nat, NEW x \in 0 .. (m - 1), NEW i \in 0 .. (m - 1),
         (((x + 1) % m) + i) % m = x
  PROVE  i = m - 1
<1>1. CASE x + 1 < m
  <2>1. (x + 1) % m = x + 1
    BY <1>1
  <2>2. CASE x + 1 + i < m
    <3>1. (x + 1 + i) % m = x + 1 + i
      BY <2>2
    <3> QED  BY <2>1, <3>1
  <2>3. CASE x + 1 + i >= m
    <3>1. (x + 1 + i) % m = x + 1 + i - m
      <4>1. (x + 1 + i) - m \in 0 .. (m - 1)
        BY <1>1, <2>3
      <4> QED  BY <4>1
    <3> QED  BY <2>1, <3>1
  <2> QED  BY <2>2, <2>3
<1>2. CASE x + 1 = m
  <2>1. (x + 1) % m = 0
    BY <1>2
  <2>2. i % m = i
    OBVIOUS
  <2> QED  BY <1>2, <2>1, <2>2
<1> QED  BY <1>1, <1>2

\* AllocateNext of a round-robin allocator over any range hands the address it
\* handed out last out again only when it is the only one left.
THEOREM RoundRobinReusesLast == Spec => RoundRobinAvoidsReuse
<1>1. NewRange => CursorAfterLast
  <2> SUFFICES ASSUME NewRange PROVE lastNext \notin Offsets
    BY DEF CursorAfterLast
  <2>1. Offsets \subseteq Int
    BY InitInv, RangeFacts DEF Inv
  <2> QED  BY <2>1, NoneAssumption DEF NewRange
<1> DEFINE Step == (AllocateNextOK /\ strategy = "roundRobin" /\ lastNext \in Offsets)
                     => (lastNext' = lastNext => Offsets \ {lastNext} \subseteq allocated)
<1>2. ASSUME Inv, CursorAfterLast, [Next]_vars PROVE Step
  <2> SUFFICES ASSUME AllocateNextOK, strategy = "roundRobin", lastNext \in Offsets,
                      lastNext' = lastNext, NEW x \in Offsets \ {lastNext}
               PROVE  x \in allocated
    OBVIOUS
  <2>0. max \in Nat /\ Offsets = 0 .. (max - 1)
    BY <1>2, RangeFacts DEF Inv
  <2>1. FirstClear(nextAlloc, lastNext)
    BY DEF AllocateNextOK, AllocateNextWith, ScanStart
  <2>2. PICK i \in Offsets : /\ lastNext = (nextAlloc + i) % max
                             /\ \A j \in 0 .. (i - 1) : (nextAlloc + j) % max \in allocated
    BY <2>1 DEF FirstClear
  <2>3. nextAlloc = (lastNext + 1) % max
    BY <1>2 DEF CursorAfterLast
  <2>4. i = max - 1
    <3>1. (((lastNext + 1) % max) + i) % max = lastNext
      BY <2>2, <2>3
    <3> QED  BY <2>0, <3>1, SeenLast
  <2>5. nextAlloc \in 0 .. (max - 1)
    <3>1. lastNext + 1 \in Nat /\ max > 0
      BY <2>0
    <3> QED  BY <2>0, <2>3, <3>1, ModInRange
  <2>6. PICK j \in 0 .. (max - 1) : (nextAlloc + j) % max = x
    BY <2>0, <2>5, ScanVisitsAll
  <2>7. j # i
    BY <2>2, <2>6
  <2>8. j \in 0 .. (i - 1)
    BY <2>0, <2>4, <2>7
  <2> QED  BY <2>2, <2>6, <2>8
<1>3. Inv /\ CursorAfterLast /\ [Next]_vars => [Step]_vars
  BY <1>2
<1> QED  BY <1>1, <1>3, InitInv, NextInv, CursorInv, PTL DEF Spec, RoundRobinAvoidsReuse
=============================================================================
