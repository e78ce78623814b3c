----------------------------- MODULE SafeRanges -----------------------------
(***************************************************************************)
(* What read_string and hexdump trust in STABLE mode: the readable and     *)
(* writable ranges of the process as the inits so far saw them, kept in    *)
(* safa_ranges in the order of their bases, the bisection                  *)
(* find_range_by_address that looks an address up in them, and the read    *)
(* that follows, byte by byte.  The process maps and unmaps memory         *)
(* meanwhile.                                                              *)
(*                                                                         *)
(* init does not run during a search or a read: so it is when a thread     *)
(* traces itself.  With another thread traced, a late callout may search   *)
(* safa_ranges while init appends and sorts, which is undefined behaviour  *)
(* of std::vector and not modelled.                                        *)
(***************************************************************************)
EXTENDS Integers, Sequences, FiniteSets

CONSTANTS
  Top,        \* addresses are 0 .. Top - 1
  Maps,       \* memory maps: sets of disjoint ranges
  Counts,     \* how many bytes there are to read: up to a string's end, or
              \* to the reader's limit if that is nearer
  MaxInits    \* bound: calls of init

Addresses == 0..Top - 1
RangeInfo == [base : Nat, end : Nat]

Holds(r, a) == a >= r.base /\ a < r.end

ASSUME MapAssumption ==
  /\ Top \in Nat /\ MaxInits \in Nat /\ Counts \subseteq Nat
  /\ Maps \subseteq SUBSET RangeInfo
  /\ \A map \in Maps :
       IsFiniteSet(map) /\ \A r \in map : r.base < r.end /\ r.end <= Top
  /\ \A map \in Maps : \A q, r \in map : q # r => q.end <= r.base \/ r.end <= q.base

VARIABLES
  mapped,        \* external: the process's memory
  safa_ranges,
  inits,         \* inits so far
  pc,            \* "idle", "find", "found", "missed"
  addr,
  left, right,
  info,          \* the index of the range that was found
  count, pos     \* bytes to read, and bytes read

search == <<addr, left, right, info, count, pos>>
vars == <<mapped, safa_ranges, inits, pc, search>>

TypeOK ==
  /\ mapped \in Maps
  /\ safa_ranges \in Seq(RangeInfo)
  /\ inits \in 0..MaxInits
  /\ pc \in {"idle", "find", "found", "missed"}
  /\ addr \in Nat
  /\ left \in 0..Len(safa_ranges) /\ right \in -1..Len(safa_ranges) - 1
  /\ info \in 0..Len(safa_ranges)
  /\ pc = "found" => info \in DOMAIN safa_ranges
  /\ count \in Nat /\ pos \in 0..count

Init ==
  /\ mapped \in Maps
  /\ safa_ranges = <<>>
  /\ inits = 0
  /\ pc = "idle"
  /\ addr = 0 /\ left = 0 /\ right = -1 /\ info = 0 /\ count = 0 /\ pos = 0

(* Mutant: only what was there before is in order. *)
OldSorted(s) == \A j, k \in DOMAIN safa_ranges : j < k => s[j].base <= s[k].base

Sorted(s) == \A j, k \in DOMAIN s : j < k => s[j].base <= s[k].base

Times(s, r) == Cardinality({k \in DOMAIN s : s[k] = r})

Ranges == {safa_ranges[k] : k \in DOMAIN safa_ranges}

(* The ranges of before and the ones the process has now, one for one.      *)
Appended(s) ==
  \A r \in Ranges \cup mapped :
    Times(s, r) = Times(safa_ranges, r) + (IF r \in mapped THEN 1 ELSE 0)

(* init: on_range_found appends, then all are sorted by base; ranges with   *)
(* the same base come out in any order.  None is ever taken out.            *)
EnumerateRanges ==
  /\ pc = "idle" /\ inits < MaxInits
  /\ inits' = inits + 1
  /\ \E s \in [1..Len(safa_ranges) + Cardinality(mapped) -> Ranges \cup mapped] :
       Sorted(s) /\ Appended(s) /\ safa_ranges' = s
  /\ UNCHANGED <<mapped, pc, search>>

(* External: the process maps, unmaps or protects memory. *)
Remap ==
  /\ mapped' \in Maps
  /\ UNCHANGED <<safa_ranges, inits, pc, search>>

(* Mutant: one behind the last. *)
Size == Len(safa_ranges)

LastIndex == Len(safa_ranges) - 1

(* find_range_by_address, from read_string or hexdump. *)
Find ==
  /\ pc = "idle"
  /\ addr' \in Addresses
  /\ left' = 0 /\ right' = LastIndex
  /\ info' = 0
  /\ count' \in Counts /\ pos' = 0
  /\ pc' = IF safa_ranges = <<>> THEN "missed" ELSE "find"
  /\ UNCHANGED <<mapped, safa_ranges, inits>>

mid == left + (right - left) \div 2
Middle == safa_ranges[mid + 1]

(* Mutant: the end counts as inside. *)
Within(a, r) == a >= r.base /\ a <= r.end

Inside(a, r) == Holds(r, a)

(* Mutant: the middle stays in. *)
FromMiddle == mid

AfterMiddle == mid + 1

Bisect ==
  /\ pc = "find" /\ left <= right
  /\ \/ Inside(addr, Middle) /\ info' = mid + 1 /\ pc' = "found" /\ UNCHANGED <<left, right>>
     \/ /\ ~Inside(addr, Middle) /\ addr < Middle.base
        /\ right' = mid - 1 /\ UNCHANGED <<left, info, pc>>
     \/ /\ ~Inside(addr, Middle) /\ addr >= Middle.base
        /\ left' = AfterMiddle /\ UNCHANGED <<right, info, pc>>
  /\ UNCHANGED <<mapped, safa_ranges, inits, addr, count, pos>>

FindEnd ==
  /\ pc = "find" /\ left > right
  /\ pc' = "missed"
  /\ UNCHANGED <<mapped, safa_ranges, inits, search>>

(* Mutant: the byte is looked at before the limit. *)
GoesPast == pos <= count

(* There is another byte to read. *)
Goes == pos < count

(* read_string and hexdump: on found they read from addr on; that anything  *)
(* was found is all they ask of the search, not where the range ends.       *)
Read ==
  /\ pc = "found" /\ Goes
  /\ pos' = pos + 1
  /\ UNCHANGED <<mapped, safa_ranges, inits, pc, addr, left, right, info, count>>

(* The text is complete, or the record full; on missed nothing was read. *)
Done ==
  /\ pc \in {"found", "missed"}
  /\ pc' = "idle"
  /\ addr' = 0 /\ left' = 0 /\ right' = -1 /\ info' = 0 /\ count' = 0 /\ pos' = 0
  /\ UNCHANGED <<mapped, safa_ranges, inits>>

Next == EnumerateRanges \/ Remap \/ Find \/ Bisect \/ FindEnd \/ Read \/ Done

Spec == Init /\ [][Next]_vars

(* The search runs on by itself, whatever the process does. *)
FairSpec == Spec /\ WF_vars(Bisect) /\ WF_vars(FindEnd)

-----------------------------------------------------------------------------
(* Whatever inits saw, as long as no two of the ranges overlap unless they  *)
(* are the same: an address is found exactly if one of them holds it.       *)
FindExact ==
  (\A q, r \in Ranges : q = r \/ q.end <= r.base \/ r.end <= q.base) =>
    /\ pc = "found" => info \in DOMAIN safa_ranges /\ Holds(safa_ranges[info], addr)
    /\ pc = "missed" => \A r \in Ranges : ~Holds(r, addr)

Mapped(a) == \E r \in mapped : Holds(r, a)

(* Every address that some init saw is still mapped. *)
NothingGone == \A r \in Ranges : \A a \in r.base..r.end - 1 : Mapped(a)

(* While nothing of what any init saw is gone, each byte that is read is    *)
(* mapped, if the text ends where the range that was found ends or before,  *)
(* whatever is mapped anew meanwhile and however the ranges of several inits*)
(* overlap.  Both conditions are needed: the code checks neither.           *)
ReadsMapped ==
  pc = "found" /\ Goes /\ NothingGone /\ addr + count <= safa_ranges[info].end =>
    Mapped(addr + pos)

(* Every search ends, also over ranges that overlap. *)
Terminates == pc = "find" ~> pc \in {"found", "missed"}
=============================================================================
