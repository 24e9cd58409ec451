---------------------------- MODULE IPAllocator -----------------------------
(***************************************************************************)
(* The IP address manager of one subnet: the bitmap allocator with its     *)
(* three scan strategies (pkg/ovn/ipallocator/allocator/bitmap.go) behind  *)
(* the CIDR range that turns addresses into bit offsets                    *)
(* (pkg/ovn/ipallocator/allocator.go).  Every operation holds the bitmap's *)
(* lock from its first to its last access, so each is one atomic action.   *)
(* An address is an integer, a CIDR its first address and its size.        *)
(***************************************************************************)
EXTENDS Integers, FiniteSets

CONSTANTS CIDRs,    \* the ranges an allocator may be built for
          IPs,      \* the addresses callers pass to Allocate and Release
          V6Cap,    \* 65536 in the code: the largest bitmap kept for IPv6
          None      \* no address

CIDR == [first : Nat, size : Nat \ {0}, v6 : BOOLEAN]

ASSUME CIDRsAssumption == CIDRs \subseteq CIDR
ASSUME IPsAssumption == IPs \subseteq Int
ASSUME V6CapAssumption == V6Cap \in Nat \ {0}
ASSUME NoneAssumption == None \notin Int

VARIABLES cidr,       \* Range.net
          strategy,   \* AllocationBitmap.strategy
          allocated,  \* the offsets whose bit is set
          count,      \* AllocationBitmap.count
          nextAlloc,  \* roundRobinScanStrategy.nextAlloc
          reply,      \* what the last call returned to its caller
          lastNext    \* history: the offset the last AllocateNext handed out

vars == <<cidr, strategy, allocated, count, nextAlloc, reply, lastNext>>

Strategies == {"random", "contiguous", "roundRobin"}

Reply(ip, err) == [ip |-> ip, err |-> err]

-----------------------------------------------------------------------------
\* The range: base and max as NewAllocatorCIDRRange computes them.

maximum(a, b) == IF a > b THEN a ELSE b

RangeMax(c) ==
  LET m == IF ~c.v6 THEN c.size - 1
           ELSE IF c.size > V6Cap THEN V6Cap ELSE c.size
  IN  maximum(0, m - 1)

RangeBase(c) == c.first + 1

max  == RangeMax(cidr)
base == RangeBase(cidr)

Offsets == 0 .. (max - 1)

\* Mutant of contains: the upper bound is off by one.
ContainsBroadcast(ip) ==
  /\ cidr.first <= ip /\ ip < cidr.first + cidr.size
  /\ ip - base >= 0 /\ ip - base <= max

\* net.IPNet.Contains, then the bounds on the offset.
contains(ip) ==
  /\ cidr.first <= ip /\ ip < cidr.first + cidr.size
  /\ ip - base >= 0 /\ ip - base < max

-----------------------------------------------------------------------------
NewRange ==
  /\ cidr \in CIDRs
  /\ strategy \in Strategies
  /\ allocated = {}
  /\ count = 0
  /\ nextAlloc = 0
  /\ reply = Reply(None, "nil")
  /\ lastNext = None

Allocate(ip) ==
  /\ IF ~contains(ip)
     THEN /\ reply' = Reply(None, "ErrNotInRange")
          /\ UNCHANGED <<allocated, count>>
     ELSE IF ip - base \in allocated
     THEN /\ reply' = Reply(None, "ErrAllocated")
          /\ UNCHANGED <<allocated, count>>
     ELSE /\ allocated' = allocated \cup {ip - base}
          /\ count' = count + 1
          /\ reply' = Reply(ip, "nil")
  /\ UNCHANGED <<cidr, strategy, nextAlloc, lastNext>>

\* Where each strategy starts its scan; the random one may start anywhere.
ScanStart ==
  IF strategy = "random" THEN Offsets
  ELSE IF strategy = "contiguous" THEN {0} ELSE {nextAlloc}

\* AllocateBit scans max offsets from start, wrapping, to the first clear bit.
FirstClear(start, at) ==
  \E i \in Offsets :
    /\ at = (start + i) % max
    /\ at \notin allocated
    /\ \A j \in 0 .. (i - 1) : (start + j) % max \in allocated

ScanFails(start) == \A i \in Offsets : (start + i) % max \in allocated

\* AllocateNext when a bit is found; after(at) is the round-robin cursor.
AllocateNextWith(after(_)) ==
  /\ count < max
  /\ \E start \in ScanStart, at \in Offsets :
       /\ FirstClear(start, at)
       /\ allocated' = allocated \cup {at}
       /\ count' = count + 1
       /\ nextAlloc' = IF strategy = "roundRobin" THEN after(at) ELSE nextAlloc
       /\ reply' = Reply(base + at, "nil")
       /\ lastNext' = at
  /\ UNCHANGED <<cidr, strategy>>

\* Mutant of AllocateNextOK: the cursor does not advance.
AllocateNextNoAdvance == AllocateNextWith(LAMBDA at : at)

AllocateNextOK == AllocateNextWith(LAMBDA at : (at + 1) % max)

AllocateNextFull ==
  /\ count >= max \/ \E start \in ScanStart : ScanFails(start)
  /\ reply' = Reply(None, "ErrFull")
  /\ UNCHANGED <<cidr, strategy, allocated, count, nextAlloc, lastNext>>

\* Mutant of Release: the count is not decremented.
ReleaseKeepsCount(ip) ==
  /\ IF contains(ip) THEN allocated' = allocated \ {ip - base}
                     ELSE UNCHANGED allocated
  /\ reply' = Reply(None, "nil")
  /\ UNCHANGED <<cidr, strategy, count, nextAlloc, lastNext>>

Release(ip) ==
  /\ IF contains(ip) /\ ip - base \in allocated
     THEN /\ allocated' = allocated \ {ip - base}
          /\ count' = count - 1
     ELSE UNCHANGED <<allocated, count>>
  /\ reply' = Reply(None, "nil")
  /\ UNCHANGED <<cidr, strategy, nextAlloc, lastNext>>

Next ==
  \/ AllocateNextOK
  \/ AllocateNextFull
  \/ \E ip \in IPs : Allocate(ip) \/ Release(ip)

Spec == NewRange /\ [][Next]_vars

-----------------------------------------------------------------------------
(***************************************************************************)
(* Properties.                                                             *)
(***************************************************************************)

Usable == base .. (base + max - 1)

\* Types: the set bits, the cursor of the round-robin strategy and the offset that
\* AllocateNext returned last are offsets of the range.
TypeOK ==
  /\ cidr \in CIDRs
  /\ strategy \in Strategies
  /\ allocated \subseteq Offsets
  /\ count \in Nat
  /\ nextAlloc \in Nat
  /\ nextAlloc = 0 \/ nextAlloc \in Offsets
  /\ lastNext \in Offsets \cup {None}

\* bitmap.go says of AllocationBitmap: "r.count is always equal to the number
\* of set bits".  AllocateNext trusts it to answer ErrFull without a scan.
CountIsAccurate == count = Cardinality(allocated)

\* Every call answers as an address pool must: see module IPPool.
Pool == INSTANCE IPPool WITH usable <- Usable,
                             held   <- {base + o : o \in allocated},
                             reply  <- reply
ImplementsIPPool == Pool!Spec

\* roundRobinScanStrategy "will try to allocate all other addresses before
\* re-allocating the most recently allocated address": a pod's address is not
\* given to the next pod while any other address of the subnet is free.
RoundRobinAvoidsReuse ==
  [][ (AllocateNextOK /\ strategy = "roundRobin" /\ lastNext \in Offsets)
        => (lastNext' = lastNext => Offsets \ {lastNext} \subseteq allocated)
    ]_vars

=============================================================================
