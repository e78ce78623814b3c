----------------------------- MODULE ParsedLine -----------------------------
(***************************************************************************)
(* One line of a trace as the offline parser leaves it: what the parser    *)
(* can make of a line, how the taint engine moves taint over it forward    *)
(* and backward, and the data flow that this amounts to.                   *)
(***************************************************************************)
EXTENDS Integers, Sequences, SequencesExt

CONSTANTS
  Regs,                \* RegId
  normalize,           \* [Regs -> Regs]: d0 and s0 are q0
  REG_XZR, REG_NZCV,
  Addrs,               \* memory addresses
  None                 \* no address

Locs == Regs \cup Addrs
Computed == {"DATA_MOVE", "ARITHMETIC", "LOGIC", "SHIFT_EXT", "BITFIELD", "COND_SELECT"}
Categories == Computed \cup
  {"IMM_LOAD", "PARTIAL_MODIFY", "LOAD", "STORE", "COMPARE", "BRANCH", "OTHER"}

(* The locations that taint_reg and untaint_reg touch: never the zero register. *)
Normal(rs) == {normalize[r] : r \in rs \ {REG_XZR}}
RegsOf(s) == Normal(Range(s))
AddrsOf(as) == as \ {None}

IsPairLoad(l) == l.category = "LOAD" /\ l.mem_read2 # None /\ Len(l.dst) >= 2
IsPairStore(l) == l.category = "STORE" /\ l.mem_write2 # None /\ Len(l.src) >= 2

ASSUME LocAssumption ==
  /\ normalize \in [Regs -> Regs]
  /\ REG_XZR \in Regs /\ REG_NZCV \in Regs /\ REG_XZR # REG_NZCV
  /\ normalize[REG_NZCV] = REG_NZCV
  /\ Regs \cap Addrs = {}
  /\ None \notin Locs

LineType ==
  [category : Categories, dst : Seq(Regs), src : Seq(Regs), sets_flags : BOOLEAN,
   mem_read : Addrs \cup {None}, mem_read2 : Addrs \cup {None},
   mem_write : Addrs \cup {None}, mem_write2 : Addrs \cup {None}]

(* What TraceParser makes of a line: only loads, stores, prefetches (of     *)
(* category BRANCH) and unknown instructions have memory operands, only     *)
(* computations and comparisons set flags, and the halves of a pair are     *)
(* distinct.                                                                *)
WellFormed(l) ==
  /\ l.sets_flags => l.category \in Computed \cup {"COMPARE"}
  /\ l.category = "COMPARE" => l.sets_flags
  /\ l.category \notin {"LOAD", "BRANCH", "OTHER"} => l.mem_read = None
  /\ l.category \notin {"STORE", "OTHER"} => l.mem_write = None
  /\ l.category # "LOAD" => l.mem_read2 = None
  /\ l.mem_write2 # None =>
       /\ l.category = "STORE" /\ Len(l.src) >= 2
       /\ l.mem_write \notin {None, l.mem_write2}
  /\ l.category \in {"STORE", "COMPARE", "BRANCH"} => l.dst = <<>>
  /\ IsPairLoad(l) =>
       /\ Len(l.dst) = 2
       /\ Normal({l.dst[1]}) \cap Normal({l.dst[2]}) = {}

-----------------------------------------------------------------------------
(* One line.  T is the set of tainted locations. *)
SrcsOf(l) == RegsOf(l.src) \cup AddrsOf({l.mem_read, l.mem_read2})
DstsOf(l) == RegsOf(l.dst) \cup AddrsOf({l.mem_write, l.mem_write2})
FlagsOf(l) == IF l.sets_flags THEN {REG_NZCV} ELSE {}

any_src_tainted(l, T) == SrcsOf(l) \cap T # {}
any_dst_tainted(l, T) == DstsOf(l) \cap T # {}

(* Taints or untaints locations. *)
SetTo(T, locs, on) == IF on THEN T \cup locs ELSE T \ locs

(* The data register of a store of one register. *)
FirstSrc(l) == IF l.src = <<>> THEN {} ELSE Normal({l.src[1]})

propagate_forward(l, T) ==
  CASE l.category = "IMM_LOAD" -> T \ RegsOf(l.dst)
    [] l.category \in {"PARTIAL_MODIFY", "BRANCH"} -> T
    [] l.category \in Computed ->
         SetTo(T, RegsOf(l.dst) \cup FlagsOf(l), any_src_tainted(l, T))
    [] l.category = "LOAD" ->
         IF IsPairLoad(l)
         THEN SetTo(SetTo(T, Normal({l.dst[1]}), l.mem_read \in T),
                    Normal({l.dst[2]}), l.mem_read2 \in T)
         ELSE SetTo(T, RegsOf(l.dst), l.mem_read \in T)
    [] l.category = "STORE" ->
         IF IsPairStore(l)
         THEN SetTo(SetTo(T, AddrsOf({l.mem_write}), Normal({l.src[1]}) \cap T # {}),
                    {l.mem_write2}, Normal({l.src[2]}) \cap T # {})
         ELSE SetTo(T, AddrsOf({l.mem_write}), FirstSrc(l) \cap T # {})
    [] l.category = "COMPARE" -> SetTo(T, {REG_NZCV}, any_src_tainted(l, T))
    [] l.category = "OTHER" ->
         SetTo(T, RegsOf(l.dst) \cup AddrsOf({l.mem_write}), any_src_tainted(l, T))

(* Mutant: the place the taint came to keeps it. *)
BackKeeping(T, to, from) == IF to \cap T # {} THEN T \cup from ELSE T

(* Moves the taint of to, where there is any, to from. *)
Back(T, to, from) == IF to \cap T # {} THEN (T \ to) \cup from ELSE T

propagate_backward(l, T) ==
  CASE l.category = "IMM_LOAD" -> T \ RegsOf(l.dst)
    [] l.category \in {"PARTIAL_MODIFY", "BRANCH"} -> T
    [] l.category \in Computed -> Back(T, RegsOf(l.dst) \cup FlagsOf(l), RegsOf(l.src))
    [] l.category = "LOAD" ->
         IF IsPairLoad(l)
         THEN Back(Back(T, Normal({l.dst[1]}), AddrsOf({l.mem_read})),
                   Normal({l.dst[2]}), {l.mem_read2})
         ELSE Back(T, RegsOf(l.dst), AddrsOf({l.mem_read}))
    [] l.category = "STORE" ->
         IF IsPairStore(l)
         THEN Back(Back(T, {l.mem_write}, Normal({l.src[1]})),
                   {l.mem_write2}, Normal({l.src[2]}))
         ELSE Back(T, AddrsOf({l.mem_write}), FirstSrc(l))
    [] l.category = "COMPARE" -> Back(T, {REG_NZCV}, RegsOf(l.src))
    [] l.category = "OTHER" ->
         IF any_dst_tainted(l, T)
         THEN (T \ RegsOf(l.dst)) \cup RegsOf(l.src) \cup AddrsOf({l.mem_read})
         ELSE T

(* What makes a line of a forward scan a result: a tainted source, or a     *)
(* tainted address that it overwrites.                                      *)
InvolvedForward(l, T) ==
  any_src_tainted(l, T) \/ AddrsOf({l.mem_write, l.mem_write2}) \cap T # {}

InvolvedBackward(l, T) == any_dst_tainted(l, T) \/ FlagsOf(l) \cap T # {}

-----------------------------------------------------------------------------
(* Where the value that line l leaves in y comes from: whole registers and  *)
(* single addresses, values only, not the flags a selection depends on.     *)
Writes(l) ==
  IF l.category \in {"PARTIAL_MODIFY", "BRANCH"} THEN {} ELSE DstsOf(l) \cup FlagsOf(l)

WrittenFrom(l, y) ==
  CASE l.category = "IMM_LOAD" -> {}
    [] IsPairLoad(l) ->
         AddrsOf({IF y \in Normal({l.dst[1]}) THEN l.mem_read ELSE l.mem_read2})
    [] l.category = "LOAD" /\ ~IsPairLoad(l) -> AddrsOf({l.mem_read})
    [] IsPairStore(l) -> Normal({IF y = l.mem_write THEN l.src[1] ELSE l.src[2]})
    [] l.category = "STORE" /\ ~IsPairStore(l) -> FirstSrc(l)
    [] OTHER -> SrcsOf(l)

From(l) == [y \in Locs |-> IF y \in Writes(l) THEN WrittenFrom(l, y) ELSE {y}]

(* The same flow read from its end to its origin.  Memory that an           *)
(* instruction of no known category writes remains tainted.                 *)
Into(l) ==
  [x \in Locs |->
     {y \in Locs : x \in From(l)[y]} \cup
     (IF l.category = "OTHER" THEN {x} \cap {l.mem_write} ELSE {})]
=============================================================================
