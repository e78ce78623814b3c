---------------------------- MODULE TraceParser ----------------------------
(***************************************************************************)
(* How an instruction becomes a line of the taint engine: the tracer       *)
(* prints mnemonic, operands and memory address, the offline parser reads  *)
(* them back, one instruction at a time.                                   *)
(*                                                                         *)
(* A register's text is a pair such as <<"w", 0>>, an address a pair       *)
(* <<"mem", n>>, an operand its kind and the registers named in it.        *)
(***************************************************************************)
EXTENDS ParsedLine

CONSTANTS
  Texts,        \* names of registers as the tracer prints them
  Insns,        \* executed instructions
  REG_INVALID

Kinds == {"reg", "mem", "lane", "imm", "mod", "word"}
Accesses == {"none", "r", "w", "rw"}
MAX_DST == 4   \* the sizes of dst_regs, src_regs and operands
MAX_SRC == 8
MAX_OPS == 8

-----------------------------------------------------------------------------
(* classify_mnemonic; fcvt and frint stand for every mnemonic that begins   *)
(* with them, aut for every one that begins with aut.                       *)
DataMove == {"mov", "mvn", "neg", "negs", "ngc", "ngcs", "cls", "clz", "scvtf", "ucvtf",
  "fmov", "fcvt", "frint", "rbit", "rev", "rev16", "rev32", "rev64"}
ImmLoad == {"movz", "movn", "adr", "adrp"}
Arithmetic == {"mul", "madd", "msub", "mneg", "add", "adds", "adc", "adcs", "sub", "subs",
  "sbc", "sbcs", "sdiv", "smull", "smulh", "smaddl", "smsubl", "udiv", "umull", "umulh",
  "umaddl", "umsubl", "fadd", "fsub", "fmul", "fdiv", "fneg", "fabs", "fsqrt", "fmadd",
  "fmsub", "fnmadd", "fnmsub", "fmin", "fmax", "fnmul"}
Logic == {"and", "ands", "orr", "orn", "eor", "eon", "bic", "bics"}
ShiftExt == {"asr", "lsl", "lsr", "ror", "sxtb", "sxth", "sxtw", "uxtb", "uxth"}
Bitfield == {"sbfm", "sbfx", "ubfm", "ubfx", "bfm", "bfi", "bfxil", "extr"}
CondSelect == {"csel", "csinc", "csinv", "csneg", "cset", "csetm", "cinc", "cinv", "cneg",
  "fcsel"}
PairLoads == {"ldp", "ldpsw"}          \* two destinations
OtherPairs == {"ldnp", "ldxp", "ldaxp"}
ExclusiveLoads == {"ldxr", "ldaxr", "ldxrb", "ldaxrb", "ldxrh", "ldaxrh"}
Load == {"ldr", "ldrb", "ldrh", "ldrsw", "ldrsb", "ldrsh", "ldur", "ldurb", "ldurh",
  "ldursw", "ldursb", "ldursh", "ldar", "ldarb", "ldarh", "ldtr", "ldtrb", "ldtrh",
  "ldtrsw", "ldtrsb", "ldtrsh"} \cup PairLoads \cup OtherPairs \cup ExclusiveLoads
ExclusiveStores == {"stxr", "stlxr", "stxrb", "stlxrb", "stxrh", "stlxrh", "stxp", "stlxp"}
Store == {"str", "strb", "strh", "stur", "sturb", "sturh", "stp", "stlr", "stlrb", "stlrh"}
  \cup ExclusiveStores
Compare == {"cmp", "cmn", "ccmp", "ccmn", "tst", "fcmp", "fccmp", "fcmpe", "fccmpe"}
Branch == {"b", "bl", "br", "blr", "bti", "b.cond", "cbz", "cbnz", "tbz", "tbnz", "ret",
  "retaa", "retab", "nop", "svc", "dmb", "dsb", "dc", "isb", "ic", "aut", "paciasp",
  "pacibsp", "pacia", "pacib", "pacda", "pacdb", "prfm", "prfum"}
(* Some of the mnemonics that classify_mnemonic does not know. *)
OtherStores == {"sttr", "stnp", "st1"}
OtherLoads == {"ldapr", "ldadd", "ld1"}
Unknown == {"ubfiz", "cnt", "mrs", "msr", "fmla", "umov", "swp", "blraa", "xpaci"}
  \cup OtherStores \cup OtherLoads

Mnemonics == DataMove \cup ImmLoad \cup {"movk"} \cup Arithmetic \cup Logic \cup ShiftExt
  \cup Bitfield \cup CondSelect \cup Load \cup Store \cup Compare \cup Branch \cup Unknown

classify_mnemonic(m) ==
  CASE m \in DataMove -> "DATA_MOVE"
    [] m \in ImmLoad -> "IMM_LOAD"
    [] m = "movk" -> "PARTIAL_MODIFY"
    [] m \in Arithmetic -> "ARITHMETIC"
    [] m \in Logic -> "LOGIC"
    [] m \in ShiftExt -> "SHIFT_EXT"
    [] m \in Bitfield -> "BITFIELD"
    [] m \in CondSelect -> "COND_SELECT"
    [] m \in Load -> "LOAD"
    [] m \in Store -> "STORE"
    [] m \in Compare -> "COMPARE"
    [] m \in Branch -> "BRANCH"
    [] m \in Unknown -> "OTHER"

sets_flags(m) ==
  m \in Compare \cup {"adds", "subs", "ands", "bics", "adcs", "sbcs", "negs", "ngcs"}

BeginsWithL(m) == m \in Load \cup OtherLoads \cup {"lsl", "lsr"}

(* w is x; h, b and v are q; d and s have numbers of their own.  wsp is no   *)
(* register.                                                                 *)
parse_reg_name(t) ==
  CASE t[1] = "w" -> <<"x", t[2]>>
    [] t[1] \in {"h", "b", "v"} -> <<"q", t[2]>>
    [] t[1] = "wzr" -> REG_XZR
    [] t[1] = "wsp" -> REG_INVALID
    [] OTHER -> t

-----------------------------------------------------------------------------
(* An operand of kind "word" is a condition, a label, a list, "mod" a shift. *)
(* A vector lane, v0.d[1], looks like memory without registers.              *)
Operand ==
  {o \in [kind : Kinds, regs : Seq(Texts)] : o.kind \in {"reg", "lane"} => Len(o.regs) = 1}

(* An executed instruction: its text, the access to its memory operand as    *)
(* the disassembler reports it and the address; and, for reference, what the *)
(* architecture says of it: the operands it writes and reads data of, in     *)
(* order, and the bytes between two memory elements.                         *)
Insn == [mnem : Mnemonics, ops : Seq(Operand), access : Accesses, addr : Addrs,
         flow : {"compute", "load", "store", "none"},
         defs : Seq(1..MAX_OPS), uses : Seq(1..MAX_OPS), flags : BOOLEAN, size : Nat]

Offset(a, n) == <<a[1], a[2] + n>>

(* The disassembler reports no access (for a literal it never does) or one  *)
(* that the mnemonic has; both registers of an stp are registers, those of   *)
(* an ldp are different ones.                                                *)
ASSUME InsnAssumption ==
  /\ \A t \in Texts : /\ parse_reg_name(t) \in Regs \cup {REG_INVALID}
                      /\ parse_reg_name(t) = REG_INVALID => t[1] = "wsp"
  /\ REG_INVALID \notin Regs
  /\ Addrs \subseteq {"mem"} \X Nat
  /\ Insns \subseteq Insn
  /\ \A x \in Insns :
       /\ {Offset(x.addr, 4), Offset(x.addr, 8)} \subseteq Addrs
       /\ x.access # "none" =>
            classify_mnemonic(x.mnem) \in {"LOAD", "STORE", "BRANCH", "OTHER"}
       /\ classify_mnemonic(x.mnem) = "LOAD" => x.access \in {"none", "r", "rw"}
       /\ classify_mnemonic(x.mnem) = "STORE" => x.access \in {"none", "w", "rw"}
       /\ classify_mnemonic(x.mnem) = "BRANCH" => x.access \in {"none", "r"}
       /\ x.mnem = "stp" =>
            /\ Len(x.ops) >= 2
            /\ \A n \in 1..2 :
                 x.ops[n].kind = "reg" /\ parse_reg_name(x.ops[n].regs[1]) # REG_INVALID
       /\ x.mnem \in PairLoads =>
            /\ Len(x.ops) >= 2
            /\ \A n \in 1..2 : x.ops[n].kind = "reg"
            /\ \A r \in {parse_reg_name(x.ops[1].regs[1])} \ {REG_INVALID},
                  q \in {parse_reg_name(x.ops[2].regs[1])} \ {REG_INVALID} :
                 Normal({r}) \cap Normal({q}) = {}

-----------------------------------------------------------------------------
VARIABLES
  insn,
  info,    \* which of mem_r= and mem_w= is printed
  line,    \* out of parse_line
  k,       \* the operand that parse_operands comes to
  pc

vars == <<insn, info, line, k, pc>>

TypeOK ==
  /\ insn \in Insn
  /\ info \subseteq {"r", "w"}
  /\ line \in LineType /\ Len(line.dst) <= MAX_DST /\ Len(line.src) <= MAX_SRC
  /\ k \in 1..MAX_OPS + 1
  /\ pc \in {"print", "classify", "operands", "addresses", "pair", "done"}

Blank == [category |-> "OTHER", dst |-> <<>>, src |-> <<>>, sets_flags |-> FALSE,
  mem_read |-> None, mem_read2 |-> None, mem_write |-> None, mem_write2 |-> None]

Init == insn \in Insns /\ info = {} /\ line = Blank /\ k = 1 /\ pc = "print"

Goto(l) == pc' = l /\ UNCHANGED insn

(* Mutant: an access that reads and writes is printed as a write. *)
PrintWrite ==
  CASE insn.access \in {"w", "rw"} -> {"w"}
    [] insn.access = "r" -> {"r"}
    [] insn.access = "none" -> {}

(* An access that reads and writes is printed as one of both. *)
Printed ==
  CASE insn.access = "rw" -> IF BeginsWithL(insn.mnem) THEN {"r"} ELSE {"w"}
    [] insn.access \in {"r", "w"} -> {insn.access}
    [] insn.access = "none" -> {}

PrintLine ==
  /\ pc = "print"
  /\ info' = Printed
  /\ UNCHANGED <<line, k>>
  /\ Goto("classify")

Classify ==
  /\ pc = "classify"
  /\ line' = [line EXCEPT !.category = classify_mnemonic(insn.mnem),
                          !.sets_flags = sets_flags(insn.mnem)]
  /\ UNCHANGED <<info, k>>
  /\ Goto("operands")

AddDst(l, t) ==
  IF parse_reg_name(t) # REG_INVALID /\ Len(l.dst) < MAX_DST
  THEN [l EXCEPT !.dst = Append(@, parse_reg_name(t))] ELSE l

(* Mutant: a token that names no register is added as well. *)
AddAnySrc(l, t) ==
  IF Len(l.src) < MAX_SRC THEN [l EXCEPT !.src = Append(@, parse_reg_name(t))] ELSE l

AddSrc(l, t) ==
  IF parse_reg_name(t) # REG_INVALID /\ Len(l.src) < MAX_SRC
  THEN [l EXCEPT !.src = Append(@, parse_reg_name(t))] ELSE l

(* Behind "[" there is the base; the index is behind "," and again behind   *)
(* the space.                                                               *)
AddBracket(l, ts) ==
  CASE Len(ts) = 0 -> l
    [] Len(ts) = 1 -> AddSrc(l, ts[1])
    [] Len(ts) > 1 -> AddSrc(AddSrc(AddSrc(l, ts[1]), ts[2]), ts[2])

(* Mutant: the second register of a pair is a source. *)
OnlyFirst(l, n) == n = 1 /\ l.category \notin {"STORE", "COMPARE", "BRANCH"}

IsTarget(l, n) ==
  /\ l.category \notin {"STORE", "COMPARE", "BRANCH"}
  /\ n = 1 \/ (n = 2 /\ insn.mnem \in PairLoads)

ReadOperand(l, o, n) ==
  CASE o.kind = "reg" /\ IsTarget(l, n) -> AddDst(l, o.regs[1])
    [] o.kind = "reg" /\ ~IsTarget(l, n) -> AddSrc(l, o.regs[1])
    [] o.kind = "mem" /\ l.category \notin {"COMPARE", "BRANCH"} -> AddBracket(l, o.regs)
    [] OTHER -> l

OperandLeft == k <= Len(insn.ops) /\ k <= MAX_OPS

ParseOperand ==
  /\ pc = "operands" /\ OperandLeft
  /\ line' = ReadOperand(line, insn.ops[k], k)
  /\ k' = k + 1
  /\ UNCHANGED <<info, insn, pc>>

OperandsEnd ==
  /\ pc = "operands" /\ ~OperandLeft
  /\ UNCHANGED <<info, line, k>>
  /\ Goto("addresses")

Addresses ==
  /\ pc = "addresses"
  /\ line' = [line EXCEPT !.mem_read = IF "r" \in info THEN insn.addr ELSE None,
                          !.mem_write = IF "w" \in info THEN insn.addr ELSE None]
  /\ UNCHANGED <<info, k>>
  /\ Goto("pair")

(* The second address goes by the first letter of the operands. *)
reg_size ==
  IF /\ insn.ops # <<>> /\ insn.ops[1].kind = "reg"
     /\ insn.ops[1].regs[1][1] \in {"w", "wzr", "wsp"}
  THEN 4 ELSE 8

(* Mutant: a pair whose address was not printed gets a second one. *)
StoresTwoAnyway == insn.mnem = "stp"

StoresTwo == insn.mnem = "stp" /\ line.mem_write # None
LoadsTwo == insn.mnem \in PairLoads \cup OtherPairs /\ line.mem_read # None

Pair ==
  /\ pc = "pair"
  /\ line' = [line EXCEPT
       !.mem_write2 = IF StoresTwo THEN Offset(insn.addr, reg_size) ELSE None,
       !.mem_read2 = IF LoadsTwo THEN Offset(insn.addr, reg_size) ELSE None]
  /\ UNCHANGED <<info, k>>
  /\ Goto("done")

Next == PrintLine \/ Classify \/ ParseOperand \/ OperandsEnd \/ Addresses \/ Pair

Spec == Init /\ [][Next]_vars

-----------------------------------------------------------------------------
(* Whatever the instruction, the line is one that the engine can take: what *)
(* TaintEngine assumes of its lines is what the parser makes.               *)
ParsedWellFormed == pc = "done" => WellFormed(line)

(* Where the parser and the engine do not follow the instruction.  Four more *)
(* that keep part of what they write are not told apart by mnemonic, and    *)
(* FlowAssumption excludes them: fcvtn2 and fcvtxn2, for which fcvt does not *)
(* stand, and orr and bic of a vector and an immediate.                      *)
ReadsFlags == CondSelect \cup
  {"adc", "adcs", "sbc", "sbcs", "ngc", "ngcs", "ccmp", "ccmn", "fccmp", "fccmpe"}
KeepsPart == {"bfi", "bfxil", "bfm", "fmla", "xpaci"}
HasOtherEffects == {"bl", "blr", "blraa", "svc", "dc", "swp"} \cup OtherStores \cup OtherLoads
Pairs == PairLoads \cup OtherPairs \cup {"stp"}
Followed == Mnemonics \
  (ReadsFlags \cup KeepsPart \cup HasOtherEffects \cup ExclusiveStores \cup OtherPairs)

(* A lane is no register to the parser, nor is wsp. *)
NamesRegisters(x) ==
  \A n \in 1..Len(x.ops) :
    /\ x.ops[n].kind # "lane"
    /\ x.ops[n].kind = "reg" => x.ops[n].regs[1][1] # "wsp"

Gap(x) ==
  \/ x.mnem \notin Followed
  \/ ~NamesRegisters(x)
  \/ x.mnem \in Pairs /\ x.size # reg_size
  \/ x.flow \in {"load", "store"} /\ x.access = "none"           \* no address is printed

(* What the architecture says of the mnemonics that are followed: which set *)
(* the flags, and which of the registers named as operands each class       *)
(* writes and reads.                                                        *)
FlagSetters == {"adds", "subs", "ands", "bics", "adcs", "sbcs", "negs", "ngcs", "cmp", "cmn",
  "ccmp", "ccmn", "tst", "fcmp", "fccmp", "fcmpe", "fccmpe"}

RegOps(x) == {n \in 1..MAX_OPS : n <= Len(x.ops) /\ x.ops[n].kind \in {"reg", "lane"}}

ReadOps(x) ==
  CASE x.mnem \in ImmLoad -> {}
    [] x.mnem = "movk" -> RegOps(x) \cap {1}
    [] x.mnem \in Compare -> RegOps(x)
    [] OTHER -> RegOps(x) \ {1}

ASSUME FlowAssumption ==
  \A x \in Insns : x.mnem \in Followed =>
    /\ x.flags = (x.mnem \in FlagSetters)
    /\ x.mnem \in Branch => x.flow = "none"
    /\ x.mnem \in Load =>
         /\ x.flow = "load"
         /\ x.defs = IF x.mnem \in PairLoads THEN <<1, 2>> ELSE <<1>>
         /\ Range(x.defs) \subseteq RegOps(x)
    /\ x.mnem \in Store =>
         /\ x.flow = "store"
         /\ x.uses = IF x.mnem = "stp" THEN <<1, 2>> ELSE <<1>>
         /\ Range(x.uses) \subseteq RegOps(x)
    /\ x.mnem \notin Branch \cup Load \cup Store =>
         /\ x.flow = "compute" /\ x.access = "none"
         /\ Range(x.defs) = IF x.mnem \in Compare THEN {} ELSE RegOps(x) \cap {1}
         /\ Range(x.uses) = ReadOps(x)
         /\ \A n \in 1..Len(x.ops) : x.ops[n].kind # "mem"

(* The data flow of the instruction: whole registers, single addresses,     *)
(* data only.                                                               *)
ArchReg(t) == IF t[1] = "wsp" THEN <<"sp", 0>> ELSE parse_reg_name(t)
RegAt(x, n) == Normal({ArchReg(x.ops[n].regs[1])})
RegsAt(x, ns) == UNION {RegAt(x, n) : n \in ns}
Element(x, n) == Offset(x.addr, (n - 1) * x.size)

ArchWrites(x) ==
  CASE x.flow \in {"compute", "load"} ->
         RegsAt(x, Range(x.defs)) \cup (IF x.flags THEN {REG_NZCV} ELSE {})
    [] x.flow = "store" -> {Element(x, n) : n \in DOMAIN x.uses}
    [] x.flow = "none" -> {}

ArchSources(x, y) ==
  CASE x.flow = "compute" ->
         RegsAt(x, Range(x.uses)) \cup (IF x.mnem \in ReadsFlags THEN {REG_NZCV} ELSE {})
    [] x.flow = "load" ->
         {Element(x, n) : n \in {d \in DOMAIN x.defs : y \in RegAt(x, x.defs[d])}}
    [] x.flow = "store" ->
         UNION {RegAt(x, x.uses[n]) : n \in {u \in DOMAIN x.uses : y = Element(x, u)}}

ArchFrom(x) ==
  [y \in Locs |-> IF y \in ArchWrites(x) THEN ArchSources(x, y) ELSE {y}]

(* Outside the gaps, the parsed line moves taint exactly as the executed    *)
(* instruction moves data: every register in its role, both halves of every *)
(* pair at their addresses, flags where they are set.                       *)
FlowExact == pc = "done" /\ ~Gap(insn) => From(line) = ArchFrom(insn)
=============================================================================
