------------------------- MODULE SafeRanges_proofs -------------------------
(***************************************************************************)
(* For every set of memory maps and any number of inits, the bisection over*)
(* safa_ranges is exact where the ranges do not overlap; and what is read  *)
(* is mapped as long as memory and text are what the search takes them for.*)
(***************************************************************************)
EXTENDS SafeRanges, FiniteSetTheorems, SequenceTheorems, TLAPS

USE MapAssumption

Apart == \A q, r \in Ranges : q = r \/ q.end <= r.base \/ r.end <= q.base

(* No range is empty, and what is left of the searched part or right of it  *)
(* does not hold the address.                                               *)
SearchInv ==
  /\ Sorted(safa_ranges)
  /\ \A k \in DOMAIN safa_ranges : safa_ranges[k].base < safa_ranges[k].end
  /\ pc = "find" => left <= right + 1
  /\ pc = "found" => Holds(safa_ranges[info], addr)
  /\ pc = "find" /\ Apart =>
       \A k \in DOMAIN safa_ranges :
         k - 1 < left \/ k - 1 > right => ~Holds(safa_ranges[k], addr)

IInv == TypeOK /\ SearchInv /\ FindExact

LEMMA InitInv == Init => IInv
  <1> SUFFICES ASSUME Init PROVE IInv
    OBVIOUS
  <1>1. /\ safa_ranges = <<>> /\ safa_ranges \in Seq(RangeInfo) /\ Len(safa_ranges) = 0
        /\ DOMAIN safa_ranges = {}
    BY EmptySeq DEF Init
  <1>2. TypeOK
    BY <1>1 DEF Init, TypeOK
  <1> QED BY <1>1, <1>2 DEF Init, IInv, SearchInv, Sorted, FindExact

LEMMA EnumerateInv == IInv /\ EnumerateRanges => IInv'
  <1> SUFFICES ASSUME IInv, EnumerateRanges PROVE IInv'
    OBVIOUS
  <1> DEFINE n == Len(safa_ranges) + Cardinality(mapped)
  <1>1. n \in Nat
    <2>1. IsFiniteSet(mapped)
      BY DEF IInv, TypeOK
    <2>2. Cardinality(mapped) \in Nat
      BY <2>1, FS_CardinalityType
    <2>3. Len(safa_ranges) \in Nat
      BY DEF IInv, TypeOK
    <2> QED BY <2>2, <2>3
  <1>2. PICK s \in [1..n -> Ranges \cup mapped] : Sorted(s) /\ safa_ranges' = s
    BY DEF EnumerateRanges
  <1>3. \A r \in Ranges \cup mapped : r \in RangeInfo /\ r.base < r.end
    <2>1. ASSUME NEW r \in Ranges PROVE r \in RangeInfo /\ r.base < r.end
      <3>1. PICK k \in DOMAIN safa_ranges : r = safa_ranges[k]
        BY DEF Ranges
      <3>2. safa_ranges[k] \in RangeInfo
        BY DEF IInv, TypeOK
      <3> QED BY <3>1, <3>2 DEF IInv, SearchInv
    <2>2. ASSUME NEW r \in mapped PROVE r \in RangeInfo /\ r.base < r.end
      BY DEF IInv, TypeOK
    <2> QED BY <2>1, <2>2
  <1> HIDE DEF n
  <1>4. safa_ranges' \in Seq(RangeInfo) /\ DOMAIN safa_ranges' = 1..n
    <2>1. s \in [1..n -> RangeInfo]
      BY <1>2, <1>3
    <2> QED BY <1>1, <1>2, <2>1, SeqDef
  <1>5. /\ pc = "idle" /\ pc' = pc /\ inits < MaxInits /\ inits' = inits + 1
        /\ mapped' = mapped /\ search' = search
    BY DEF EnumerateRanges
  <1>6. Len(safa_ranges') \in Nat /\ Len(safa_ranges') >= Len(safa_ranges)
    <2>1. Len(safa_ranges') = n
      BY <1>1, <1>4
    <2>2. IsFiniteSet(mapped)
      BY DEF IInv, TypeOK
    <2>3. Cardinality(mapped) \in Nat /\ Len(safa_ranges) \in Nat
      BY <2>2, FS_CardinalityType DEF IInv, TypeOK
    <2> QED BY <1>1, <2>1, <2>3 DEF n
  <1>7. TypeOK'
    <2>1. inits' \in 0..MaxInits
      BY <1>5 DEF IInv, TypeOK
    <2>2. /\ left' \in 0..Len(safa_ranges') /\ right' \in -1..Len(safa_ranges') - 1
          /\ info' \in 0..Len(safa_ranges')
      <3>1. /\ left \in 0..Len(safa_ranges) /\ right \in -1..Len(safa_ranges) - 1
            /\ info \in 0..Len(safa_ranges) /\ Len(safa_ranges) \in Nat
        BY DEF IInv, TypeOK
      <3> QED BY <1>5, <1>6, <3>1 DEF search
    <2> QED BY <1>4, <1>5, <2>1, <2>2 DEF IInv, TypeOK, search
  <1>8. (SearchInv /\ FindExact)'
    <2>1. Sorted(safa_ranges')
      BY <1>2
    <2>2. \A k \in DOMAIN safa_ranges' : safa_ranges'[k].base < safa_ranges'[k].end
      BY <1>2, <1>3
    <2> QED BY <1>5, <2>1, <2>2 DEF SearchInv, FindExact, Sorted
  <1> QED BY <1>7, <1>8 DEF IInv

(* What the middle tells of the ranges on one side of it. *)
LEMMA SideOfMiddle ==
  ASSUME TypeOK, SearchInv, Apart, NEW j \in DOMAIN safa_ranges, NEW k \in DOMAIN safa_ranges,
         ~Holds(safa_ranges[k], addr)
  PROVE  /\ addr >= safa_ranges[k].base /\ j <= k => ~Holds(safa_ranges[j], addr)
         /\ addr < safa_ranges[k].base /\ j >= k => ~Holds(safa_ranges[j], addr)
  <1> DEFINE q == safa_ranges[j]
             r == safa_ranges[k]
  <1>1. /\ q \in RangeInfo /\ r \in RangeInfo /\ addr \in Nat
        /\ j \in Nat /\ k \in Nat
    BY DEF TypeOK
  <1>2. /\ q.base \in Nat /\ q.end \in Nat /\ r.base \in Nat /\ r.end \in Nat
    BY <1>1 DEF RangeInfo
  <1>3. q.base < q.end /\ r.base < r.end
    BY DEF SearchInv
  <1>4. q = r \/ q.end <= r.base \/ r.end <= q.base
    BY DEF Apart, Ranges
  <1>5. (j < k => q.base <= r.base) /\ (j > k => r.base <= q.base)
    BY <1>1 DEF SearchInv, Sorted
  <1>6. (j = k => q = r) /\ (q = r => ~Holds(q, addr))
    OBVIOUS
  <1>7. ~(addr >= r.base /\ addr < r.end)
    BY DEF Holds
  <1> HIDE DEF q, r
  <1>8. ASSUME addr >= r.base, j <= k PROVE ~Holds(q, addr)
    <2>1. j = k \/ j < k
      BY <1>1, <1>8
    <2>2. CASE j < k
      <3>1. CASE q = r
        BY <1>6, <3>1
      <3>2. CASE q # r
        BY <1>1, <1>2, <1>3, <1>4, <1>5, <1>8, <2>2, <3>2 DEF Holds
      <3> QED BY <3>1, <3>2
    <2> QED BY <1>6, <2>1, <2>2
  <1>9. ASSUME addr < r.base, j >= k PROVE ~Holds(q, addr)
    <2>1. j = k \/ j > k
      BY <1>1, <1>9
    <2>2. CASE j > k
      BY <1>1, <1>2, <1>5, <1>9, <2>2 DEF Holds
    <2> QED BY <1>6, <2>1, <2>2
  <1> QED BY <1>8, <1>9 DEF q, r

LEMMA BisectInv == IInv /\ Bisect => IInv'
  <1> SUFFICES ASSUME IInv, Bisect PROVE IInv'
    OBVIOUS
  <1>1. /\ pc = "find" /\ left <= right /\ mapped' = mapped /\ safa_ranges' = safa_ranges
        /\ inits' = inits /\ addr' = addr
        /\ count' = count /\ pos' = pos
    BY DEF Bisect
  <1>2. /\ left \in Nat /\ right \in Int /\ Len(safa_ranges) \in Nat /\ right <= Len(safa_ranges) - 1
        /\ left \in 0..Len(safa_ranges) /\ right \in -1..Len(safa_ranges) - 1
        /\ DOMAIN safa_ranges = 1..Len(safa_ranges) /\ addr \in Nat
        /\ info \in 0..Len(safa_ranges)
    BY DEF IInv, TypeOK
  <1>3. mid \in Nat /\ mid >= left /\ mid <= right /\ mid + 1 \in DOMAIN safa_ranges
    BY <1>1, <1>2 DEF mid
  <1>4. Middle \in RangeInfo /\ Middle.base \in Nat
    <2>1. Middle \in RangeInfo
      BY <1>3 DEF Middle, IInv, TypeOK
    <2> QED BY <2>1 DEF RangeInfo
  <1>5. CASE Inside(addr, Middle) /\ info' = mid + 1 /\ pc' = "found" /\ UNCHANGED <<left, right>>
    <2>1. TypeOK'
      BY <1>1, <1>2, <1>3, <1>5 DEF IInv, TypeOK
    <2>2. FindExact'
      BY <1>1, <1>3, <1>5 DEF FindExact, Inside, Middle
    <2>3. Holds(safa_ranges'[info'], addr')
      BY <1>1, <1>5 DEF Inside, Middle
    <2> QED BY <1>1, <1>5, <2>1, <2>2, <2>3 DEF IInv, SearchInv
  <1>6. CASE /\ ~Inside(addr, Middle) /\ addr < Middle.base
             /\ right' = mid - 1 /\ UNCHANGED <<left, info, pc>>
    <2>1. TypeOK'
      BY <1>1, <1>2, <1>3, <1>6 DEF IInv, TypeOK
    <2>2. Apart => \A j \in DOMAIN safa_ranges : j >= mid + 1 => ~Holds(safa_ranges[j], addr)
      BY <1>3, <1>6, SideOfMiddle DEF IInv, Inside, Middle
    <2>3. \A j \in DOMAIN safa_ranges : j - 1 > mid - 1 => j >= mid + 1
      BY <1>2, <1>3
    <2>4. left' <= right' + 1
      BY <1>2, <1>3, <1>6
    <2>5. ASSUME Apart, NEW k \in DOMAIN safa_ranges, k - 1 < left \/ k - 1 > mid - 1
          PROVE  ~Holds(safa_ranges[k], addr)
      BY <1>1, <2>2, <2>3, <2>5 DEF IInv, SearchInv
    <2>6. Apart' <=> Apart
      BY <1>1 DEF Apart, Ranges
    <2>7. SearchInv'
      BY <1>1, <1>6, <2>4, <2>5, <2>6 DEF IInv, SearchInv, Sorted
    <2> QED BY <1>1, <1>6, <2>1, <2>7 DEF IInv, FindExact, Ranges
  <1>7. CASE /\ ~Inside(addr, Middle) /\ addr >= Middle.base
             /\ left' = AfterMiddle /\ UNCHANGED <<right, info, pc>>
    <2>1. TypeOK'
      BY <1>1, <1>2, <1>3, <1>7 DEF IInv, TypeOK, AfterMiddle
    <2>2. Apart => \A j \in DOMAIN safa_ranges : j <= mid + 1 => ~Holds(safa_ranges[j], addr)
      BY <1>3, <1>7, SideOfMiddle DEF IInv, Inside, Middle
    <2>3. \A j \in DOMAIN safa_ranges : j - 1 < mid + 1 => j <= mid + 1
      BY <1>2, <1>3
    <2>4. SearchInv'
      BY <1>1, <1>2, <1>3, <1>7, <2>2, <2>3 DEF IInv, SearchInv, Apart, Ranges, AfterMiddle
    <2> QED BY <1>1, <1>7, <2>1, <2>4 DEF IInv, FindExact, Ranges
  <1> QED BY <1>5, <1>6, <1>7 DEF Bisect

LEMMA OtherInv == IInv /\ (Remap \/ Find \/ FindEnd \/ Read \/ Done) => IInv'
  <1> SUFFICES ASSUME IInv, Remap \/ Find \/ FindEnd \/ Read \/ Done PROVE IInv'
    OBVIOUS
  <1>1. CASE Remap
    BY <1>1 DEF Remap, search, IInv, TypeOK, SearchInv, FindExact, Apart, Ranges
  <1>2. CASE Find
    <2>1. /\ addr' \in Nat /\ left' = 0 /\ right' = Len(safa_ranges) - 1 /\ info' = 0
          /\ count' \in Nat /\ pos' = 0
          /\ pc' = IF safa_ranges = <<>> THEN "missed" ELSE "find"
          /\ mapped' = mapped /\ safa_ranges' = safa_ranges /\ inits' = inits
      BY <1>2 DEF Find, LastIndex, Addresses
    <2>2. Len(safa_ranges) \in Nat /\ DOMAIN safa_ranges = 1..Len(safa_ranges)
      BY DEF IInv, TypeOK
    <2>3. TypeOK'
      BY <2>1, <2>2 DEF IInv, TypeOK
    <2>4. SearchInv'
      BY <2>1, <2>2 DEF IInv, SearchInv
    <2>5. FindExact'
      BY <2>1, <2>2 DEF FindExact, Ranges
    <2> QED BY <2>3, <2>4, <2>5 DEF IInv
  <1>3. CASE FindEnd
    <2>1. /\ pc = "find" /\ left > right /\ pc' = "missed" /\ mapped' = mapped
          /\ safa_ranges' = safa_ranges /\ inits' = inits /\ addr' = addr
          /\ left' = left /\ right' = right /\ info' = info /\ count' = count /\ pos' = pos
      BY <1>3 DEF FindEnd, search
    <2>2. \A k \in DOMAIN safa_ranges : k - 1 < left \/ k - 1 > right
      BY <2>1 DEF IInv, TypeOK
    <2>3. Apart => \A k \in DOMAIN safa_ranges : ~Holds(safa_ranges[k], addr)
      BY <2>1, <2>2 DEF IInv, SearchInv
    <2>4. FindExact'
      BY <2>1, <2>3 DEF FindExact, Apart, Ranges
    <2>5. TypeOK' /\ SearchInv'
      BY <2>1 DEF IInv, TypeOK, SearchInv
    <2> QED BY <2>4, <2>5 DEF IInv
  <1>4. CASE Done
    <2>1. /\ pc' = "idle" /\ addr' = 0 /\ left' = 0 /\ right' = -1 /\ info' = 0
          /\ count' = 0 /\ pos' = 0
          /\ mapped' = mapped /\ safa_ranges' = safa_ranges /\ inits' = inits
      BY <1>4 DEF Done
    <2>2. TypeOK'
      BY <2>1 DEF IInv, TypeOK
    <2> QED BY <2>1, <2>2 DEF IInv, SearchInv, FindExact
  <1>5. CASE Read
    <2>1. /\ pc = "found" /\ pos' = pos + 1 /\ pos < count
          /\ UNCHANGED <<mapped, safa_ranges, inits, pc, addr, left, right, info, count>>
      BY <1>5 DEF Read, Goes
    <2>2. pos' \in 0..count'
      BY <2>1 DEF IInv, TypeOK
    <2>3. TypeOK'
      BY <2>1, <2>2 DEF IInv, TypeOK
    <2> QED BY <2>1, <2>3 DEF IInv, SearchInv, FindExact, Ranges, Apart
  <1> QED BY <1>1, <1>2, <1>3, <1>4, <1>5

LEMMA InvInductive == Spec => []IInv
  <1>1. IInv /\ [Next]_vars => IInv'
    <2> SUFFICES ASSUME IInv, [Next]_vars PROVE IInv'
      OBVIOUS
    <2>1. CASE UNCHANGED vars
      BY <2>1 DEF vars, search, IInv, TypeOK, SearchInv, FindExact, Apart, Ranges
    <2> QED BY <2>1, EnumerateInv, BisectInv, OtherInv DEF Next
  <1> QED BY <1>1, InitInv, PTL DEF Spec

(* The bisection never leaves safa_ranges. *)
THEOREM RangesTypeCorrect == Spec => []TypeOK
  <1>1. IInv => TypeOK
    BY DEF IInv
  <1> QED BY <1>1, InvInductive, PTL

(* Where no two different ranges overlap, an address is found exactly if a  *)
(* range that some init saw holds it.                                       *)
THEOREM FindIsExact == Spec => []FindExact
  <1>1. IInv => FindExact
    BY DEF IInv
  <1> QED BY <1>1, InvInductive, PTL

(* While nothing that an init saw is gone, each byte of a text that ends in *)
(* the range it was found in is mapped when it is read.                     *)
THEOREM ReadsAreMapped == Spec => []ReadsMapped
  <1>1. IInv => ReadsMapped
    <2> SUFFICES ASSUME IInv, pc = "found", Goes, NothingGone,
                        addr + count <= safa_ranges[info].end
                 PROVE  Mapped(addr + pos)
      BY DEF ReadsMapped
    <2> DEFINE r == safa_ranges[info]
    <2>1. info \in DOMAIN safa_ranges /\ r \in RangeInfo /\ r \in Ranges
      BY DEF IInv, TypeOK, Ranges
    <2>2. addr >= r.base
      BY DEF IInv, SearchInv, Holds
    <2>3. /\ addr \in Nat /\ count \in Nat /\ pos \in 0..count /\ pos < count
          /\ r.base \in Nat /\ r.end \in Nat
      BY <2>1 DEF IInv, TypeOK, Goes, RangeInfo
    <2>4. addr + pos \in r.base..r.end - 1
      <3>1. addr + count <= r.end
        OBVIOUS
      <3> HIDE DEF r
      <3> QED BY <2>2, <2>3, <3>1
    <2> QED BY <2>1, <2>4 DEF NothingGone
  <1> QED BY <1>1, InvInductive, PTL
=============================================================================
