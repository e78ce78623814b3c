-------------------------- MODULE TraceParser_proofs --------------------------
(***************************************************************************)
(* For every instruction, whatever its mnemonic, operands and registers,   *)
(* the parser makes a line that the taint engine can take.  With           *)
(* TaintEngine_proofs, where this is an assumption, the engine's theorems  *)
(* hold for every line the parser makes.                                   *)
(*                                                                         *)
(* For every instruction outside the gaps, the flow of that line is the    *)
(* instruction's; with ParsedLine_proofs, the engine moves taint over it   *)
(* exactly as the instruction moves data.                                  *)
(***************************************************************************)
EXTENDS TraceParser, ParsedLine_proofs

(* No mnemonic is in two of these sets. *)
Calculations == DataMove \cup Arithmetic \cup Logic \cup ShiftExt \cup Bitfield \cup CondSelect

LEMMA NamesApart ==
  ASSUME NEW m
  PROVE  /\ m \in ImmLoad => m # "movk"
         /\ m \in ImmLoad \cup {"movk"} =>
              m \notin Calculations \cup Load \cup Store \cup Compare \cup Branch \cup Unknown
         /\ m \in Load => m \notin Calculations \cup Store \cup Compare \cup Branch \cup Unknown
         /\ m \in Store => m \notin Calculations \cup Compare \cup Branch \cup Unknown
         /\ m \in Compare => m \notin Calculations \cup Branch \cup Unknown
         /\ m \in Branch => m \notin Calculations \cup Unknown
         /\ m \in Unknown => m \notin Calculations
  <1> USE DEF Calculations, DataMove, ImmLoad, Arithmetic, Logic, ShiftExt, Bitfield,
    CondSelect, Load, PairLoads, OtherPairs, ExclusiveLoads, Store, ExclusiveStores, Compare,
    Branch, Unknown, OtherLoads, OtherStores
  <1>1. m \in ImmLoad => m # "movk"
    OBVIOUS
  <1>2. m \in ImmLoad \cup {"movk"} =>
          m \notin Calculations \cup Load \cup Store \cup Compare \cup Branch \cup Unknown
    OBVIOUS
  <1>3. m \in Load => m \notin Calculations \cup Store \cup Compare \cup Branch \cup Unknown
    OBVIOUS
  <1>4. m \in Store => m \notin Calculations \cup Compare \cup Branch \cup Unknown
    OBVIOUS
  <1>5. m \in Compare => m \notin Calculations \cup Branch \cup Unknown
    OBVIOUS
  <1>6. m \in Branch => m \notin Calculations \cup Unknown
    OBVIOUS
  <1>7. m \in Unknown => m \notin Calculations
    OBVIOUS
  <1> HIDE DEF Calculations, ImmLoad, Load, Store, Compare, Branch, Unknown
  <1> QED BY <1>1, <1>2, <1>3, <1>4, <1>5, <1>6, <1>7

(* The category tells which of these sets a mnemonic is in. *)
LEMMA Categorised ==
  ASSUME NEW m \in Mnemonics
  PROVE  LET c == classify_mnemonic(m) IN
         /\ c \in Categories
         /\ m \in Calculations <=> c \in Computed
         /\ m \in ImmLoad <=> c = "IMM_LOAD"
         /\ m = "movk" <=> c = "PARTIAL_MODIFY"
         /\ m \in Load <=> c = "LOAD"
         /\ m \in Store <=> c = "STORE"
         /\ m \in Compare <=> c = "COMPARE"
         /\ m \in Branch <=> c = "BRANCH"
         /\ m \in Unknown <=> c = "OTHER"
  <1> DEFINE c == classify_mnemonic(m)
  <1>1. m \in Load => c = "LOAD"
    BY NamesApart DEF classify_mnemonic, Calculations
  <1>2. m \in Store => c = "STORE"
    BY NamesApart DEF classify_mnemonic, Calculations
  <1>3. m \in Compare => c = "COMPARE"
    BY NamesApart DEF classify_mnemonic, Calculations
  <1>4. m \in Branch => c = "BRANCH"
    BY NamesApart DEF classify_mnemonic, Calculations
  <1>5. m \in Unknown => c = "OTHER"
    BY NamesApart DEF classify_mnemonic, Calculations
  <1>6. m \in ImmLoad => c = "IMM_LOAD"
    BY NamesApart DEF classify_mnemonic, Calculations
  <1>7. m = "movk" => c = "PARTIAL_MODIFY"
    BY NamesApart DEF classify_mnemonic, Calculations
  <1>8. m \in Calculations => c \in Computed
    BY NamesApart DEF classify_mnemonic, Calculations, Computed
  <1>9. \/ m \in Calculations \/ m \in ImmLoad \/ m = "movk" \/ m \in Load \/ m \in Store
        \/ m \in Compare \/ m \in Branch \/ m \in Unknown
    BY DEF Mnemonics, Calculations
  <1> HIDE DEF c
  <1> QED BY <1>1, <1>2, <1>3, <1>4, <1>5, <1>6, <1>7, <1>8, <1>9 DEF Computed, Categories, c

LEMMA LoadsBeginWithL ==
  ASSUME NEW m
  PROVE  /\ m \in Load => BeginsWithL(m)
         /\ m \in Store => ~BeginsWithL(m)
  <1>1. m \in Store => m \notin Load \cup OtherLoads \cup {"lsl", "lsr"}
    BY DEF Load, PairLoads, OtherPairs, ExclusiveLoads, Store, ExclusiveStores, OtherLoads
  <1> QED BY <1>1 DEF BeginsWithL

(* Each of these mnemonics is in one set only. *)
LEMMA PairsCategorised ==
  /\ classify_mnemonic("stp") = "STORE"
  /\ \A m \in PairLoads \cup OtherPairs : classify_mnemonic(m) = "LOAD"
  BY SMTT(60) DEF classify_mnemonic, DataMove, ImmLoad, Arithmetic, Logic, ShiftExt, Bitfield,
    CondSelect, Load, PairLoads, OtherPairs, ExclusiveLoads, Store, ExclusiveStores, Compare,
    Branch, Unknown, OtherLoads, OtherStores

LEMMA FlagSettersCategorised ==
  /\ \A m \in Compare : classify_mnemonic(m) = "COMPARE"
  /\ \A m \in {"negs", "ngcs"} : classify_mnemonic(m) = "DATA_MOVE"
  /\ \A m \in {"adds", "subs", "adcs", "sbcs"} : classify_mnemonic(m) = "ARITHMETIC"
  /\ \A m \in {"ands", "bics"} : classify_mnemonic(m) = "LOGIC"
  <1> USE DEF classify_mnemonic, DataMove, ImmLoad, Arithmetic, Logic, ShiftExt, Bitfield,
    CondSelect, Load, PairLoads, OtherPairs, ExclusiveLoads, Store, ExclusiveStores, Compare,
    Branch, Unknown, OtherLoads, OtherStores
  <1>1. ASSUME NEW m \in Compare PROVE classify_mnemonic(m) = "COMPARE"
    BY SMTT(60)
  <1>2. ASSUME NEW m \in {"negs", "ngcs"} PROVE classify_mnemonic(m) = "DATA_MOVE"
    BY SMTT(60)
  <1>3. ASSUME NEW m \in {"adds", "subs", "adcs", "sbcs"}
        PROVE  classify_mnemonic(m) = "ARITHMETIC"
    BY SMTT(60)
  <1>4. ASSUME NEW m \in {"ands", "bics"} PROVE classify_mnemonic(m) = "LOGIC"
    BY SMTT(60)
  <1> HIDE DEF classify_mnemonic, Compare
  <1> QED BY <1>1, <1>2, <1>3, <1>4

LEMMA FlagsCategorised ==
  ASSUME NEW m \in Mnemonics
  PROVE  /\ sets_flags(m) \in BOOLEAN
         /\ sets_flags(m) => classify_mnemonic(m) \in Computed \cup {"COMPARE"}
         /\ classify_mnemonic(m) = "COMPARE" => sets_flags(m)
  BY Categorised, FlagSettersCategorised DEF sets_flags, Computed
-----------------------------------------------------------------------------
(* What reading an operand does to a line. *)

Unfilled(l) ==
  /\ l \in LineType /\ Len(l.dst) <= MAX_DST /\ Len(l.src) <= MAX_SRC
Same(l, q) ==
  /\ q.category = l.category /\ q.sets_flags = l.sets_flags
  /\ q.mem_read = l.mem_read /\ q.mem_read2 = l.mem_read2
  /\ q.mem_write = l.mem_write /\ q.mem_write2 = l.mem_write2

LEMMA AddDstAdds ==
  ASSUME NEW l, Unfilled(l), NEW t \in Texts
  PROVE  LET q == AddDst(l, t) IN
         /\ Unfilled(q) /\ Same(l, q) /\ q.src = l.src
         /\ q.dst = l.dst \/ q.dst = Append(l.dst, parse_reg_name(t))
  <1>1. parse_reg_name(t) \in Regs \cup {REG_INVALID}
    BY InsnAssumption
  <1>2. CASE parse_reg_name(t) # REG_INVALID /\ Len(l.dst) < MAX_DST
    <2>1. AddDst(l, t) = [l EXCEPT !.dst = Append(@, parse_reg_name(t))]
      BY <1>2 DEF AddDst
    <2>2. /\ Append(l.dst, parse_reg_name(t)) \in Seq(Regs)
          /\ Len(Append(l.dst, parse_reg_name(t))) = Len(l.dst) + 1
      BY <1>1, <1>2 DEF Unfilled, LineType
    <2>3. Len(l.dst) + 1 <= MAX_DST
      BY <1>2 DEF Unfilled, LineType, MAX_DST
    <2> HIDE DEF AddDst
    <2> QED BY <2>1, <2>2, <2>3 DEF Unfilled, LineType, Same
  <1>3. CASE ~(parse_reg_name(t) # REG_INVALID /\ Len(l.dst) < MAX_DST)
    BY <1>3 DEF AddDst, Same
  <1> QED BY <1>2, <1>3

LEMMA AddSrcAdds ==
  ASSUME NEW l, Unfilled(l), NEW t \in Texts
  PROVE  LET q == AddSrc(l, t) IN
         /\ Unfilled(q) /\ Same(l, q) /\ q.dst = l.dst
         /\ Len(q.src) >= Len(l.src)
         /\ parse_reg_name(t) # REG_INVALID /\ Len(l.src) < MAX_SRC =>
              Len(q.src) = Len(l.src) + 1
  <1>1. parse_reg_name(t) \in Regs \cup {REG_INVALID}
    BY InsnAssumption
  <1>2. CASE parse_reg_name(t) # REG_INVALID /\ Len(l.src) < MAX_SRC
    <2>1. AddSrc(l, t) = [l EXCEPT !.src = Append(@, parse_reg_name(t))]
      BY <1>2 DEF AddSrc
    <2>2. /\ Append(l.src, parse_reg_name(t)) \in Seq(Regs)
          /\ Len(Append(l.src, parse_reg_name(t))) = Len(l.src) + 1
      BY <1>1, <1>2 DEF Unfilled, LineType
    <2>3. Len(l.src) \in Nat /\ Len(l.src) + 1 <= MAX_SRC
      BY <1>2 DEF Unfilled, LineType, MAX_SRC
    <2>4. Unfilled(AddSrc(l, t)) /\ Same(l, AddSrc(l, t)) /\ AddSrc(l, t).dst = l.dst
      BY <2>1, <2>2, <2>3 DEF Unfilled, LineType, Same
    <2>5. Len(AddSrc(l, t).src) = Len(l.src) + 1
      BY <2>1, <2>2 DEF Unfilled, LineType
    <2> QED BY <2>3, <2>4, <2>5
  <1>3. CASE ~(parse_reg_name(t) # REG_INVALID /\ Len(l.src) < MAX_SRC)
    <2>1. AddSrc(l, t) = l
      BY <1>3 DEF AddSrc
    <2>2. Len(l.src) \in Nat
      BY DEF Unfilled, LineType
    <2> QED BY <1>3, <2>1, <2>2 DEF Same
  <1> QED BY <1>2, <1>3

LEMMA AddBracketAdds ==
  ASSUME NEW l, Unfilled(l), NEW ts \in Seq(Texts)
  PROVE  LET q == AddBracket(l, ts) IN
         /\ Unfilled(q) /\ Same(l, q) /\ q.dst = l.dst
         /\ Len(q.src) >= Len(l.src)
  <1>0. Len(l.src) \in Nat /\ Len(ts) \in Nat
    BY DEF Unfilled, LineType
  <1>1. CASE Len(ts) = 0
    <2>1. AddBracket(l, ts) = l
      BY <1>0, <1>1 DEF AddBracket
    <2> QED BY <1>0, <2>1 DEF Same
  <1>2. CASE Len(ts) = 1
    <2>1. AddBracket(l, ts) = AddSrc(l, ts[1]) /\ ts[1] \in Texts
      BY <1>0, <1>2 DEF AddBracket
    <2> QED BY <2>1, AddSrcAdds
  <1>3. CASE Len(ts) > 1
    <2> DEFINE a == AddSrc(l, ts[1])
               b == AddSrc(a, ts[2])
               c == AddSrc(b, ts[2])
    <2>1. AddBracket(l, ts) = c /\ ts[1] \in Texts /\ ts[2] \in Texts
      BY <1>0, <1>3 DEF AddBracket
    <2>2. Unfilled(a) /\ Same(l, a) /\ a.dst = l.dst /\ Len(a.src) >= Len(l.src)
      BY <2>1, AddSrcAdds
    <2> HIDE DEF a
    <2>3. Unfilled(b) /\ Same(a, b) /\ b.dst = a.dst /\ Len(b.src) >= Len(a.src)
      BY <2>1, <2>2, AddSrcAdds
    <2> HIDE DEF b
    <2>4. Unfilled(c) /\ Same(b, c) /\ c.dst = b.dst /\ Len(c.src) >= Len(b.src)
      BY <2>1, <2>3, AddSrcAdds
    <2>5. Len(a.src) \in Nat /\ Len(b.src) \in Nat /\ Len(c.src) \in Nat
      BY <2>2, <2>3, <2>4 DEF Unfilled, LineType
    <2> HIDE DEF c
    <2>6. Same(l, c) /\ c.dst = l.dst /\ Len(c.src) >= Len(l.src)
      BY <1>0, <2>2, <2>3, <2>4, <2>5 DEF Same
    <2> QED BY <2>1, <2>4, <2>6
  <1>4. \A n \in Nat : n = 0 \/ n = 1 \/ n > 1
    OBVIOUS
  <1> QED BY <1>0, <1>1, <1>2, <1>3, <1>4

LEMMA ReadOperandReads ==
  ASSUME NEW l, Unfilled(l), NEW o \in Operand, NEW n \in Nat \ {0}
  PROVE  LET q == ReadOperand(l, o, n) IN
         /\ Unfilled(q) /\ Same(l, q)
         /\ Len(q.src) >= Len(l.src)
         /\ \/ q.dst = l.dst
            \/ /\ o.kind = "reg" /\ IsTarget(l, n)
               /\ q.dst = Append(l.dst, parse_reg_name(o.regs[1]))
         /\ /\ o.kind = "reg" /\ parse_reg_name(o.regs[1]) # REG_INVALID
            /\ l.category = "STORE" /\ Len(l.src) < MAX_SRC
            => Len(q.src) = Len(l.src) + 1
  <1>0. /\ Len(l.src) \in Nat /\ o.kind \in Kinds /\ o.regs \in Seq(Texts)
        /\ o.kind = "reg" => o.regs[1] \in Texts
    BY DEF Unfilled, LineType, Operand
  <1>1. CASE o.kind = "reg" /\ IsTarget(l, n)
    <2>1. ReadOperand(l, o, n) = AddDst(l, o.regs[1])
      BY <1>1 DEF ReadOperand
    <2>2. l.category # "STORE"
      BY <1>1 DEF IsTarget
    <2> QED BY <1>0, <1>1, <2>1, <2>2, AddDstAdds
  <1>2. CASE o.kind = "reg" /\ ~IsTarget(l, n)
    <2>1. ReadOperand(l, o, n) = AddSrc(l, o.regs[1])
      BY <1>2 DEF ReadOperand
    <2> QED BY <1>0, <1>2, <2>1, AddSrcAdds
  <1>3. CASE o.kind = "mem" /\ l.category \notin {"COMPARE", "BRANCH"}
    <2>1. ReadOperand(l, o, n) = AddBracket(l, o.regs)
      BY <1>3 DEF ReadOperand
    <2> QED BY <1>0, <1>3, <2>1, AddBracketAdds
  <1>4. CASE o.kind # "reg" /\ (o.kind # "mem" \/ l.category \in {"COMPARE", "BRANCH"})
    <2>1. ReadOperand(l, o, n) = l
      BY <1>4 DEF ReadOperand
    <2> QED BY <1>0, <1>4, <2>1 DEF Same
  <1> QED BY <1>1, <1>2, <1>3, <1>4

-----------------------------------------------------------------------------
(* What holds between the steps: which operands the registers read so far   *)
(* come from, for the mnemonics that work on pairs, and which addresses can *)
(* be there.                                                                *)
First == parse_reg_name(insn.ops[1].regs[1])
Second == parse_reg_name(insn.ops[2].regs[1])

DstInv ==
  /\ line.category \in {"STORE", "COMPARE", "BRANCH"} => line.dst = <<>>
  /\ Len(line.dst) < k
  /\ insn.mnem \notin PairLoads => Len(line.dst) <= 1
  /\ insn.mnem \in PairLoads =>
       /\ Len(line.dst) <= 2
       /\ k = 2 /\ Len(line.dst) = 1 => line.dst[1] = First
       /\ Len(line.dst) = 2 => line.dst[1] = First /\ line.dst[2] = Second

SrcInv ==
  insn.mnem = "stp" => (k = 2 => Len(line.src) >= 1) /\ (k > 2 => Len(line.src) >= 2)

CategoryInv ==
  IF pc \in {"print", "classify"} THEN line = Blank /\ k = 1
  ELSE /\ line.category = classify_mnemonic(insn.mnem)
       /\ line.sets_flags = sets_flags(insn.mnem)

InfoInv ==
  IF pc = "print" THEN info = {}
  ELSE /\ "r" \in info => classify_mnemonic(insn.mnem) \in {"LOAD", "BRANCH", "OTHER"}
       /\ "w" \in info => classify_mnemonic(insn.mnem) \in {"STORE", "OTHER"}

AddressInv ==
  /\ pc \in {"pair", "done"} =>
       /\ line.mem_read = IF "r" \in info THEN insn.addr ELSE None
       /\ line.mem_write = IF "w" \in info THEN insn.addr ELSE None
  /\ pc \notin {"pair", "done"} => line.mem_read = None /\ line.mem_write = None
  /\ pc # "done" => line.mem_read2 = None /\ line.mem_write2 = None
  /\ line.mem_read2 # None =>
       insn.mnem \in PairLoads \cup OtherPairs /\ line.mem_read # None
  /\ line.mem_write2 # None =>
       /\ insn.mnem = "stp" /\ line.mem_write # None
       /\ line.mem_write2 \in {Offset(insn.addr, 4), Offset(insn.addr, 8)}

EndInv == pc \in {"addresses", "pair", "done"} => k > Len(insn.ops) \/ k > MAX_OPS

IInv ==
  /\ insn \in Insns /\ TypeOK
  /\ DstInv /\ SrcInv /\ CategoryInv /\ InfoInv /\ AddressInv /\ EndInv

LEMMA InitInv == Init => IInv
  <1> SUFFICES ASSUME Init PROVE IInv
    OBVIOUS
  <1>1. <<>> \in Seq(Regs) /\ Len(<<>>) = 0
    OBVIOUS
  <1>2. Blank \in LineType
    BY <1>1 DEF Blank, LineType, Categories
  <1>3. insn \in Insn /\ insn \in Insns
    BY InsnAssumption DEF Init
  <1>4. TypeOK
    BY <1>1, <1>2, <1>3 DEF Init, TypeOK, Blank, MAX_DST, MAX_SRC, MAX_OPS
  <1> QED
    BY <1>1, <1>3, <1>4
    DEF Init, IInv, DstInv, SrcInv, CategoryInv, InfoInv, AddressInv, EndInv, Blank

LEMMA PrintInv == IInv /\ PrintLine => IInv'
  <1> SUFFICES ASSUME IInv, PrintLine PROVE IInv'
    OBVIOUS
  <1>0. /\ pc = "print" /\ pc' = "classify" /\ insn' = insn /\ line' = line /\ k' = k
        /\ info' = Printed
    BY DEF PrintLine, Goto
  <1>1. insn \in Insns /\ insn \in Insn /\ insn.mnem \in Mnemonics /\ insn.access \in Accesses
    BY DEF IInv, TypeOK, Insn
  <1> DEFINE c == classify_mnemonic(insn.mnem)
  <1>2. /\ insn.access # "none" => c \in {"LOAD", "STORE", "BRANCH", "OTHER"}
        /\ c = "LOAD" => insn.access \in {"none", "r", "rw"}
        /\ c = "STORE" => insn.access \in {"none", "w", "rw"}
        /\ c = "BRANCH" => insn.access \in {"none", "r"}
    BY <1>1, InsnAssumption
  <1>3. /\ c = "LOAD" => BeginsWithL(insn.mnem)
        /\ c = "STORE" => ~BeginsWithL(insn.mnem)
    BY <1>1, Categorised, LoadsBeginWithL
  <1>4. /\ insn.access = "r" => Printed = {"r"}
        /\ insn.access = "w" => Printed = {"w"}
        /\ insn.access = "none" => Printed = {}
        /\ insn.access = "rw" /\ BeginsWithL(insn.mnem) => Printed = {"r"}
        /\ insn.access = "rw" /\ ~BeginsWithL(insn.mnem) => Printed = {"w"}
    BY DEF Printed
  <1> HIDE DEF c
  <1>5. /\ Printed \subseteq {"r", "w"}
        /\ "r" \in Printed => c \in {"LOAD", "BRANCH", "OTHER"}
        /\ "w" \in Printed => c \in {"STORE", "OTHER"}
    BY <1>1, <1>2, <1>3, <1>4 DEF Accesses
  <1> USE DEF c
  <1>6. TypeOK'
    BY <1>0, <1>5 DEF IInv, TypeOK
  <1>7. InfoInv'
    BY <1>0, <1>5 DEF InfoInv
  <1>8. (DstInv /\ SrcInv /\ CategoryInv /\ AddressInv /\ EndInv)'
    BY <1>0 DEF IInv, DstInv, SrcInv, CategoryInv, AddressInv, EndInv, First, Second
  <1> QED BY <1>0, <1>1, <1>6, <1>7, <1>8 DEF IInv

LEMMA ClassifyInv == IInv /\ Classify => IInv'
  <1> SUFFICES ASSUME IInv, Classify PROVE IInv'
    OBVIOUS
  <1>0. /\ pc = "classify" /\ pc' = "operands" /\ insn' = insn /\ info' = info /\ k' = k
        /\ line' = [line EXCEPT !.category = classify_mnemonic(insn.mnem),
                                !.sets_flags = sets_flags(insn.mnem)]
    BY DEF Classify, Goto
  <1>1. insn \in Insns /\ insn.mnem \in Mnemonics /\ line = Blank /\ k = 1
    BY <1>0 DEF IInv, TypeOK, Insn, CategoryInv
  <1>2. classify_mnemonic(insn.mnem) \in Categories /\ sets_flags(insn.mnem) \in BOOLEAN
    BY <1>1, Categorised, FlagsCategorised
  <1>3. /\ line'.dst = <<>> /\ line'.src = <<>>
        /\ line'.category = classify_mnemonic(insn.mnem)
        /\ line'.sets_flags = sets_flags(insn.mnem)
        /\ line'.mem_read = None /\ line'.mem_read2 = None
        /\ line'.mem_write = None /\ line'.mem_write2 = None
    BY <1>0, <1>1 DEF Blank
  <1>4. line' \in LineType
    BY <1>0, <1>2 DEF IInv, TypeOK, LineType
  <1>5. TypeOK'
    BY <1>0, <1>3, <1>4 DEF IInv, TypeOK, MAX_DST, MAX_SRC
  <1>6. (DstInv /\ SrcInv /\ CategoryInv /\ InfoInv /\ AddressInv /\ EndInv)'
    BY <1>0, <1>1, <1>3 DEF IInv, DstInv, SrcInv, CategoryInv, InfoInv, AddressInv, EndInv
  <1> QED BY <1>0, <1>1, <1>5, <1>6 DEF IInv

LEMMA OperandsEndInv == IInv /\ OperandsEnd => IInv'
  <1> SUFFICES ASSUME IInv, OperandsEnd PROVE IInv'
    OBVIOUS
  <1>0. /\ pc = "operands" /\ pc' = "addresses" /\ insn' = insn /\ info' = info
        /\ k' = k /\ line' = line /\ ~OperandLeft
    BY DEF OperandsEnd, Goto
  <1>1. insn.ops \in Seq(Operand) /\ k \in 1..MAX_OPS + 1
    BY DEF IInv, TypeOK, Insn
  <1>2. EndInv'
    BY <1>0, <1>1 DEF OperandLeft, EndInv, MAX_OPS
  <1>3. TypeOK'
    BY <1>0 DEF IInv, TypeOK
  <1>4. (DstInv /\ SrcInv /\ CategoryInv /\ InfoInv /\ AddressInv)'
    BY <1>0 DEF IInv, DstInv, SrcInv, CategoryInv, InfoInv, AddressInv, First, Second
  <1> QED BY <1>0, <1>2, <1>3, <1>4 DEF IInv

LEMMA AddressesInv == IInv /\ Addresses => IInv'
  <1> SUFFICES ASSUME IInv, Addresses PROVE IInv'
    OBVIOUS
  <1> DEFINE r == IF "r" \in info THEN insn.addr ELSE None
             w == IF "w" \in info THEN insn.addr ELSE None
  <1>0. /\ pc = "addresses" /\ pc' = "pair" /\ insn' = insn /\ info' = info /\ k' = k
        /\ line' = [line EXCEPT !.mem_read = r, !.mem_write = w]
    BY DEF Addresses, Goto
  <1>1. r \in Addrs \cup {None} /\ w \in Addrs \cup {None}
    BY DEF IInv, TypeOK, Insn
  <1>2. line.mem_read2 = None /\ line.mem_write2 = None /\ line \in LineType
    BY <1>0 DEF IInv, AddressInv, TypeOK
  <1> HIDE DEF r, w
  <1>3. /\ line' \in LineType
        /\ line'.category = line.category /\ line'.sets_flags = line.sets_flags
        /\ line'.dst = line.dst /\ line'.src = line.src
        /\ line'.mem_read = r /\ line'.mem_write = w
        /\ line'.mem_read2 = None /\ line'.mem_write2 = None
    BY <1>0, <1>1, <1>2 DEF LineType
  <1>4. TypeOK'
    BY <1>0, <1>3 DEF IInv, TypeOK
  <1>5. AddressInv'
    BY <1>0, <1>3 DEF AddressInv, r, w
  <1>6. (DstInv /\ SrcInv /\ CategoryInv /\ InfoInv /\ EndInv)'
    BY <1>0, <1>3 DEF IInv, DstInv, SrcInv, CategoryInv, InfoInv, EndInv, First, Second
  <1> QED BY <1>0, <1>4, <1>5, <1>6 DEF IInv

LEMMA PairInv == IInv /\ Pair => IInv'
  <1> SUFFICES ASSUME IInv, Pair PROVE IInv'
    OBVIOUS
  <1> DEFINE o == Offset(insn.addr, reg_size)
             w == IF StoresTwo THEN o ELSE None
             r == IF LoadsTwo THEN o ELSE None
  <1>0. /\ pc = "pair" /\ pc' = "done" /\ insn' = insn /\ info' = info /\ k' = k
        /\ line' = [line EXCEPT !.mem_write2 = w, !.mem_read2 = r]
    BY DEF Pair, Goto
  <1>1. o \in {Offset(insn.addr, 4), Offset(insn.addr, 8)}
    BY DEF reg_size
  <1>2. {Offset(insn.addr, 4), Offset(insn.addr, 8)} \subseteq Addrs
    BY InsnAssumption DEF IInv
  <1> HIDE DEF o
  <1>3. r \in Addrs \cup {None} /\ w \in Addrs \cup {None}
    BY <1>1, <1>2
  <1>4. /\ r # None => insn.mnem \in PairLoads \cup OtherPairs /\ line.mem_read # None
        /\ w # None => /\ insn.mnem = "stp" /\ line.mem_write # None
                       /\ w \in {Offset(insn.addr, 4), Offset(insn.addr, 8)}
    BY <1>1 DEF StoresTwo, LoadsTwo
  <1>5. line \in LineType
    BY DEF IInv, TypeOK
  <1> HIDE DEF r, w
  <1>6. /\ line' \in LineType
        /\ line'.category = line.category /\ line'.sets_flags = line.sets_flags
        /\ line'.dst = line.dst /\ line'.src = line.src
        /\ line'.mem_read = line.mem_read /\ line'.mem_write = line.mem_write
        /\ line'.mem_read2 = r /\ line'.mem_write2 = w
    BY <1>0, <1>3, <1>5 DEF LineType
  <1>7. TypeOK'
    BY <1>0, <1>6 DEF IInv, TypeOK
  <1>8. AddressInv'
    BY <1>0, <1>4, <1>6 DEF IInv, AddressInv
  <1>9. (DstInv /\ SrcInv /\ CategoryInv /\ InfoInv /\ EndInv)'
    BY <1>0, <1>6 DEF IInv, DstInv, SrcInv, CategoryInv, InfoInv, EndInv, First, Second
  <1> QED BY <1>0, <1>7, <1>8, <1>9 DEF IInv

LEMMA ParseOperandInv == IInv /\ ParseOperand => IInv'
  <1> SUFFICES ASSUME IInv, ParseOperand PROVE IInv'
    OBVIOUS
  <1> DEFINE o == insn.ops[k]
             q == ReadOperand(line, o, k)
  <1>0. /\ pc = "operands" /\ pc' = "operands" /\ insn' = insn /\ info' = info
        /\ k' = k + 1 /\ k <= Len(insn.ops) /\ k <= MAX_OPS /\ line' = q
    BY DEF ParseOperand, OperandLeft
  <1>1. /\ insn \in Insns /\ insn.ops \in Seq(Operand) /\ k \in Nat \ {0}
        /\ Unfilled(line) /\ o \in Operand
    BY <1>0 DEF IInv, TypeOK, Insn, Unfilled
  <1>2. /\ Unfilled(q) /\ Same(line, q)
        /\ Len(q.src) >= Len(line.src)
        /\ \/ q.dst = line.dst
           \/ /\ o.kind = "reg" /\ IsTarget(line, k)
              /\ q.dst = Append(line.dst, parse_reg_name(o.regs[1]))
        /\ /\ o.kind = "reg" /\ parse_reg_name(o.regs[1]) # REG_INVALID
           /\ line.category = "STORE" /\ Len(line.src) < MAX_SRC
           => Len(q.src) = Len(line.src) + 1
    BY <1>1, ReadOperandReads
  <1> HIDE DEF q
  <1>3. /\ line.dst \in Seq(Regs) /\ Len(line.dst) \in Nat
        /\ Len(line.src) \in Nat /\ Len(q.src) \in Nat
    BY <1>1, <1>2 DEF Unfilled, LineType
  <1>4. TypeOK'
    BY <1>0, <1>1, <1>2 DEF IInv, TypeOK, Unfilled, MAX_OPS
  <1>5. DstInv'
    <2>1. CASE q.dst = line.dst
      BY <1>0, <1>1, <1>2, <1>3, <2>1 DEF IInv, DstInv, Same, First, Second
    <2>2. CASE /\ IsTarget(line, k)
               /\ q.dst = Append(line.dst, parse_reg_name(o.regs[1]))
      <3> DEFINE r == parse_reg_name(o.regs[1])
      <3>1. /\ line.category \notin {"STORE", "COMPARE", "BRANCH"}
            /\ k = 1 \/ (k = 2 /\ insn.mnem \in PairLoads)
        BY <2>2 DEF IsTarget
      <3>2. /\ k = 1 => r = First
            /\ k = 2 => r = Second
        BY DEF First, Second
      <3> HIDE DEF r
      <3>3. /\ Len(q.dst) = Len(line.dst) + 1
            /\ q.dst[Len(line.dst) + 1] = r
            /\ \A j \in 1..Len(line.dst) : q.dst[j] = line.dst[j]
        BY <1>3, <2>2 DEF r
      <3>4. CASE k = 1
        <4>1. Len(line.dst) = 0
          BY <1>3, <3>4 DEF IInv, DstInv
        <4>2. Len(q.dst) = 1 /\ q.dst[1] = First
          BY <3>2, <3>3, <3>4, <4>1
        <4> QED BY <1>0, <1>2, <3>1, <3>4, <4>2 DEF DstInv, Same, First
      <3>5. CASE k = 2 /\ insn.mnem \in PairLoads
        <4>0. Len(line.dst) < 2
          BY <3>5 DEF IInv, DstInv
        <4>1. Len(line.dst) \in {0, 1}
          <5>1. \A n \in Nat : n < 2 => n \in {0, 1}
            OBVIOUS
          <5> QED BY <1>3, <4>0, <5>1
        <4>2. CASE Len(line.dst) = 0
          <5>1. Len(q.dst) = 1
            BY <3>3, <4>2
          <5> QED BY <1>0, <1>2, <3>1, <3>5, <5>1 DEF DstInv, Same
        <4>3. CASE Len(line.dst) = 1
          <5>1. line.dst[1] = First
            BY <3>5, <4>3 DEF IInv, DstInv
          <5>2. Len(q.dst) = 2 /\ q.dst[1] = First /\ q.dst[2] = Second
            BY <3>2, <3>3, <3>5, <4>3, <5>1
          <5> QED BY <1>0, <1>2, <3>1, <3>5, <5>2 DEF DstInv, Same, First, Second
        <4> QED BY <4>1, <4>2, <4>3
      <3> QED BY <3>1, <3>4, <3>5
    <2> QED BY <1>2, <2>1, <2>2
  <1>6. SrcInv'
    <2> SUFFICES ASSUME insn.mnem = "stp"
                 PROVE  (k = 1 => Len(q.src) >= 1) /\ (k > 1 => Len(q.src) >= 2)
      BY <1>0, <1>1 DEF SrcInv
    <2>1. line.category = "STORE"
      BY <1>0, PairsCategorised DEF IInv, CategoryInv
    <2>2. /\ insn.ops[1].kind = "reg" /\ parse_reg_name(insn.ops[1].regs[1]) # REG_INVALID
          /\ insn.ops[2].kind = "reg" /\ parse_reg_name(insn.ops[2].regs[1]) # REG_INVALID
      BY <1>1, InsnAssumption
    <2>3. k \in {1, 2} => o.kind = "reg" /\ parse_reg_name(o.regs[1]) # REG_INVALID
      BY <2>2
    <2>4. k = 2 => Len(line.src) >= 1
      BY DEF IInv, SrcInv
    <2>5. k > 2 => Len(line.src) >= 2
      BY DEF IInv, SrcInv
    <2>6. k \in {1, 2} => Len(q.src) = Len(line.src) + 1 \/ Len(line.src) >= MAX_SRC
      BY <1>2, <1>3, <2>1, <2>3 DEF MAX_SRC
    <2> HIDE DEF o
    <2> QED BY <1>1, <1>2, <1>3, <2>4, <2>5, <2>6 DEF MAX_SRC
  <1>7. (CategoryInv /\ InfoInv /\ AddressInv /\ EndInv)'
    BY <1>0, <1>2 DEF IInv, CategoryInv, InfoInv, AddressInv, EndInv, Same
  <1> QED BY <1>0, <1>1, <1>4, <1>5, <1>6, <1>7 DEF IInv

LEMMA InvInductive == Spec => []IInv
  <1>1. IInv /\ [Next]_vars => IInv'
    <2> SUFFICES ASSUME IInv, [Next]_vars PROVE IInv'
      OBVIOUS
    <2>1. CASE UNCHANGED vars
      BY <2>1 DEF vars, IInv, TypeOK, DstInv, SrcInv, CategoryInv, InfoInv, AddressInv,
                  EndInv, First, Second
    <2> QED
      BY <2>1, PrintInv, ClassifyInv, ParseOperandInv, OperandsEndInv, AddressesInv, PairInv
      DEF Next
  <1> QED BY <1>1, InitInv, PTL DEF Spec

(* Every line the parser makes keeps its types: no register list overflows, *)
(* no token that is no register gets in, no operand beyond the array.       *)
THEOREM ParserTypeCorrect == Spec => []TypeOK
  <1>1. IInv => TypeOK
    BY DEF IInv
  <1> QED BY <1>1, InvInductive, PTL

(* Every line the parser makes is one that the engine can take: what        *)
(* TaintEngine assumes of its lines, LineAssumption, holds of these.        *)
THEOREM ParserMakesLines ==
  Spec => [](ParsedWellFormed /\ (pc = "done" => line \in LineType))
  <1>1. ASSUME IInv, pc = "done"
        PROVE  WellFormed(line) /\ line \in LineType
    <2> DEFINE c == classify_mnemonic(insn.mnem)
    <2>1. /\ insn \in Insns /\ insn.mnem \in Mnemonics /\ line \in LineType
          /\ line.category = c /\ line.sets_flags = sets_flags(insn.mnem)
          /\ insn.addr \in Addrs /\ Len(insn.ops) \in Nat /\ k \in Nat
      BY <1>1 DEF IInv, TypeOK, Insn, CategoryInv
    <2>2. /\ c \in Categories
          /\ line.sets_flags => c \in Computed \cup {"COMPARE"}
          /\ c = "COMPARE" => line.sets_flags
      BY <2>1, Categorised, FlagsCategorised
    <2>3. /\ line.mem_read # None => c \in {"LOAD", "BRANCH", "OTHER"}
          /\ line.mem_write # None => c \in {"STORE", "OTHER"}
      BY <1>1 DEF IInv, AddressInv, InfoInv
    <2>4. line.mem_read2 # None => c = "LOAD" /\ insn.mnem \in PairLoads \cup OtherPairs
      BY <1>1, PairsCategorised DEF IInv, AddressInv
    <2>5. insn.mnem = "stp" => Len(line.src) >= 2
      <3>1. insn.mnem = "stp" => Len(insn.ops) >= 2
        BY <2>1, InsnAssumption
      <3>2. insn.mnem = "stp" => k > 2
        BY <1>1, <2>1, <3>1 DEF IInv, EndInv, MAX_OPS
      <3> QED BY <1>1, <3>2 DEF IInv, SrcInv
    <2>6. line.mem_write2 # None =>
            /\ c = "STORE" /\ insn.mnem = "stp"
            /\ line.mem_write = insn.addr
            /\ line.mem_write \notin {None, line.mem_write2}
      <3> SUFFICES ASSUME line.mem_write2 # None
                   PROVE  /\ c = "STORE" /\ insn.mnem = "stp"
                          /\ line.mem_write = insn.addr
                          /\ line.mem_write \notin {None, line.mem_write2}
        OBVIOUS
      <3>1. /\ insn.mnem = "stp" /\ line.mem_write # None
            /\ line.mem_write2 \in {Offset(insn.addr, 4), Offset(insn.addr, 8)}
            /\ line.mem_write = insn.addr
        BY <1>1 DEF IInv, AddressInv
      <3>2. insn.addr \in {"mem"} \X Nat
        BY <2>1, InsnAssumption
      <3>3. insn.addr # Offset(insn.addr, 4) /\ insn.addr # Offset(insn.addr, 8)
        BY <3>2 DEF Offset
      <3> QED BY <3>1, <3>3, PairsCategorised
    <2>7. IsPairLoad(line) =>
            /\ Len(line.dst) = 2
            /\ Normal({line.dst[1]}) \cap Normal({line.dst[2]}) = {}
      <3> SUFFICES ASSUME IsPairLoad(line)
                   PROVE  /\ Len(line.dst) = 2
                          /\ Normal({line.dst[1]}) \cap Normal({line.dst[2]}) = {}
        OBVIOUS
      <3>1. line.dst \in Seq(Regs) /\ Len(line.dst) \in Nat /\ Len(line.dst) >= 2
        BY <2>1 DEF IsPairLoad, LineType
      <3>2. insn.mnem \in PairLoads
        BY <1>1, <3>1 DEF IInv, DstInv
      <3>3. Len(line.dst) = 2 /\ line.dst[1] = First /\ line.dst[2] = Second
        <4>1. Len(line.dst) <= 2
          BY <1>1, <3>2 DEF IInv, DstInv
        <4>2. \A n \in Nat : n <= 2 /\ n >= 2 => n = 2
          OBVIOUS
        <4>3. Len(line.dst) = 2
          BY <3>1, <4>1, <4>2
        <4> QED BY <1>1, <3>2, <4>3 DEF IInv, DstInv
      <3>4. First \in Regs /\ Second \in Regs
        BY <3>1, <3>3
      <3>5. \A r \in {First} \ {REG_INVALID}, q \in {Second} \ {REG_INVALID} :
              Normal({r}) \cap Normal({q}) = {}
        BY <2>1, <3>2, InsnAssumption DEF First, Second
      <3>6. REG_INVALID \notin Regs
        BY InsnAssumption
      <3> QED BY <3>3, <3>4, <3>5, <3>6
    <2>8. c \in {"STORE", "COMPARE", "BRANCH"} => line.dst = <<>>
      BY <1>1, <2>1 DEF IInv, DstInv
    <2> HIDE DEF c
    <2> QED BY <2>1, <2>2, <2>3, <2>4, <2>5, <2>6, <2>7, <2>8 DEF WellFormed
  <1>2. IInv => ParsedWellFormed /\ (pc = "done" => line \in LineType)
    BY <1>1 DEF ParsedWellFormed
  <1> QED BY <1>2, InvInductive, PTL
-----------------------------------------------------------------------------
(* That the line moves taint as the instruction moves data: what reading an *)
(* operand adds, exactly.                                                   *)

(* The sources read before stay where they are. *)
Extends(l, q) ==
  Len(q.src) >= Len(l.src) /\ \A j \in 1..Len(l.src) : q.src[j] = l.src[j]

LEMMA ExtendsTransitive ==
  ASSUME NEW l, Unfilled(l), NEW q, Unfilled(q), NEW p, Unfilled(p),
         Extends(l, q), Extends(q, p)
  PROVE  Extends(l, p)
  <1>1. Len(l.src) \in Nat /\ Len(q.src) \in Nat /\ Len(p.src) \in Nat
    BY DEF Unfilled, LineType
  <1>2. Len(q.src) >= Len(l.src) /\ Len(p.src) >= Len(q.src)
    BY DEF Extends
  <1>3. Len(p.src) >= Len(l.src)
    BY <1>1, <1>2
  <1>4. ASSUME NEW j \in 1..Len(l.src) PROVE p.src[j] = l.src[j]
    <2>1. j \in 1..Len(q.src)
      BY <1>1, <1>2
    <2>2. p.src[j] = q.src[j]
      BY <2>1 DEF Extends
    <2>3. q.src[j] = l.src[j]
      BY DEF Extends
    <2> QED BY <2>2, <2>3
  <1> QED BY <1>3, <1>4 DEF Extends

LEMMA AddDstExact ==
  ASSUME NEW l, Unfilled(l), NEW t \in Texts,
         parse_reg_name(t) # REG_INVALID, Len(l.dst) < MAX_DST
  PROVE  AddDst(l, t).dst = Append(l.dst, parse_reg_name(t))
  <1>1. AddDst(l, t) = [l EXCEPT !.dst = Append(@, parse_reg_name(t))]
    BY DEF AddDst
  <1> QED BY <1>1 DEF Unfilled, LineType

LEMMA AddSrcExact ==
  ASSUME NEW l, Unfilled(l), NEW t \in Texts
  PROVE  LET q == AddSrc(l, t) IN
         /\ Extends(l, q)
         /\ parse_reg_name(t) # REG_INVALID /\ Len(l.src) < MAX_SRC =>
              q.src = Append(l.src, parse_reg_name(t))
  <1>0. l.src \in Seq(Regs) /\ Len(l.src) \in Nat
    BY DEF Unfilled, LineType
  <1>1. CASE parse_reg_name(t) # REG_INVALID /\ Len(l.src) < MAX_SRC
    <2>1. AddSrc(l, t) = [l EXCEPT !.src = Append(@, parse_reg_name(t))]
      BY <1>1 DEF AddSrc
    <2>2. AddSrc(l, t).src = Append(l.src, parse_reg_name(t))
      BY <2>1 DEF Unfilled, LineType
    <2> QED BY <1>0, <2>2 DEF Extends
  <1>2. CASE ~(parse_reg_name(t) # REG_INVALID /\ Len(l.src) < MAX_SRC)
    <2>1. AddSrc(l, t) = l
      BY <1>2 DEF AddSrc
    <2> QED BY <1>0, <1>2, <2>1 DEF Extends
  <1> QED BY <1>1, <1>2

LEMMA AddBracketExtends ==
  ASSUME NEW l, Unfilled(l), NEW ts \in Seq(Texts)
  PROVE  Extends(l, AddBracket(l, ts))
  <1>0. l.src \in Seq(Regs) /\ Len(l.src) \in Nat /\ Len(ts) \in Nat
    BY DEF Unfilled, LineType
  <1>1. CASE Len(ts) = 0
    <2>1. AddBracket(l, ts) = l
      BY <1>0, <1>1 DEF AddBracket
    <2> QED BY <1>0, <2>1 DEF Extends
  <1>2. CASE Len(ts) = 1
    <2>1. AddBracket(l, ts) = AddSrc(l, ts[1]) /\ ts[1] \in Texts
      BY <1>0, <1>2 DEF AddBracket
    <2> QED BY <2>1, AddSrcExact
  <1>3. CASE Len(ts) > 1
    <2> DEFINE a == AddSrc(l, ts[1])
               b == AddSrc(a, ts[2])
               c == AddSrc(b, ts[2])
    <2>1. AddBracket(l, ts) = c /\ ts[1] \in Texts /\ ts[2] \in Texts
      BY <1>0, <1>3 DEF AddBracket
    <2>2. Unfilled(a) /\ Extends(l, a)
      BY <2>1, AddSrcAdds, AddSrcExact
    <2> HIDE DEF a
    <2>3. Unfilled(b) /\ Extends(a, b)
      BY <2>1, <2>2, AddSrcAdds, AddSrcExact
    <2> HIDE DEF b
    <2>4. Unfilled(c) /\ Extends(b, c)
      BY <2>1, <2>3, AddSrcAdds, AddSrcExact
    <2> HIDE DEF c
    <2>5. Extends(l, b)
      BY <2>2, <2>3, ExtendsTransitive
    <2>6. Extends(l, c)
      BY <2>3, <2>4, <2>5, ExtendsTransitive
    <2> QED BY <2>1, <2>6
  <1>4. \A n \in Nat : n = 0 \/ n = 1 \/ n > 1
    OBVIOUS
  <1> QED BY <1>0, <1>1, <1>2, <1>3, <1>4

LEMMA ReadOperandExact ==
  ASSUME NEW l, Unfilled(l), NEW o \in Operand, NEW n \in Nat \ {0}
  PROVE  LET q == ReadOperand(l, o, n)
             r == parse_reg_name(o.regs[1])
         IN
         /\ Extends(l, q)
         /\ o.kind = "reg" /\ IsTarget(l, n) =>
              /\ q.src = l.src
              /\ r # REG_INVALID /\ Len(l.dst) < MAX_DST => q.dst = Append(l.dst, r)
         /\ ~(o.kind = "reg" /\ IsTarget(l, n)) => q.dst = l.dst
         /\ o.kind = "reg" /\ ~IsTarget(l, n) /\ r # REG_INVALID /\ Len(l.src) < MAX_SRC =>
              q.src = Append(l.src, r)
         /\ o.kind \notin {"reg", "mem"} => q = l
  <1>0. /\ l.src \in Seq(Regs) /\ Len(l.src) \in Nat
        /\ o.kind \in Kinds /\ o.regs \in Seq(Texts)
        /\ o.kind = "reg" => o.regs[1] \in Texts
    BY DEF Unfilled, LineType, Operand
  <1>1. CASE o.kind = "reg" /\ IsTarget(l, n)
    <2>1. ReadOperand(l, o, n) = AddDst(l, o.regs[1])
      BY <1>1 DEF ReadOperand
    <2>2. AddDst(l, o.regs[1]).src = l.src
      BY <1>0, <1>1, AddDstAdds
    <2>3. Extends(l, AddDst(l, o.regs[1]))
      BY <1>0, <2>2 DEF Extends
    <2>4. parse_reg_name(o.regs[1]) # REG_INVALID /\ Len(l.dst) < MAX_DST =>
            AddDst(l, o.regs[1]).dst = Append(l.dst, parse_reg_name(o.regs[1]))
      BY <1>0, <1>1, AddDstExact
    <2> HIDE DEF ReadOperand, AddDst, parse_reg_name
    <2> QED BY <1>1, <2>1, <2>2, <2>3, <2>4
  <1>2. CASE o.kind = "reg" /\ ~IsTarget(l, n)
    <2>1. ReadOperand(l, o, n) = AddSrc(l, o.regs[1])
      BY <1>2 DEF ReadOperand
    <2>2. AddSrc(l, o.regs[1]).dst = l.dst
      BY <1>0, <1>2, AddSrcAdds
    <2>3. /\ Extends(l, AddSrc(l, o.regs[1]))
          /\ parse_reg_name(o.regs[1]) # REG_INVALID /\ Len(l.src) < MAX_SRC =>
               AddSrc(l, o.regs[1]).src = Append(l.src, parse_reg_name(o.regs[1]))
      BY <1>0, <1>2, AddSrcExact
    <2> HIDE DEF ReadOperand, AddSrc, parse_reg_name
    <2> QED BY <1>2, <2>1, <2>2, <2>3
  <1>3. CASE o.kind = "mem" /\ l.category \notin {"COMPARE", "BRANCH"}
    <2>1. ReadOperand(l, o, n) = AddBracket(l, o.regs)
      BY <1>3 DEF ReadOperand
    <2>2. AddBracket(l, o.regs).dst = l.dst
      BY <1>0, AddBracketAdds
    <2>3. Extends(l, AddBracket(l, o.regs))
      BY <1>0, AddBracketExtends
    <2> QED BY <1>3, <2>1, <2>2, <2>3
  <1>4. CASE o.kind # "reg" /\ (o.kind # "mem" \/ l.category \in {"COMPARE", "BRANCH"})
    <2>1. ReadOperand(l, o, n) = l
      BY <1>4 DEF ReadOperand
    <2>2. Extends(l, l)
      BY <1>0 DEF Extends
    <2> QED BY <1>4, <2>1, <2>2
  <1> QED BY <1>1, <1>2, <1>3, <1>4

LEMMA RegsOfAppend ==
  ASSUME NEW S, NEW s \in Seq(S), NEW r \in S
  PROVE  RegsOf(Append(s, r)) = RegsOf(s) \cup Normal({r})
  <1>1. DOMAIN Append(s, r) = DOMAIN s \cup {Len(s) + 1}
    OBVIOUS
  <1>2. \A j \in DOMAIN s : Append(s, r)[j] = s[j]
    OBVIOUS
  <1>3. Append(s, r)[Len(s) + 1] = r
    OBVIOUS
  <1>4. Range(Append(s, r)) = Range(s) \cup {r}
    BY <1>1, <1>2, <1>3 DEF Range
  <1> QED BY <1>4 DEF RegsOf, Normal

LEMMA RegsOfTwo ==
  ASSUME NEW S, NEW s \in Seq(S), Len(s) = 2
  PROVE  RegsOf(s) = Normal({s[1]}) \cup Normal({s[2]})
  <1>1. DOMAIN s = {1, 2}
    OBVIOUS
  <1>2. Range(s) = {s[1], s[2]}
    BY <1>1 DEF Range
  <1> QED BY <1>2 DEF RegsOf, Normal

-----------------------------------------------------------------------------
(* What the registers read so far are, for the mnemonics that are followed. *)
DstsRead ==
  /\ /\ classify_mnemonic(insn.mnem) \notin {"STORE", "COMPARE", "BRANCH"}
     /\ insn.mnem \notin PairLoads
     => RegsOf(line.dst) = RegsAt(insn, RegOps(insn) \cap {1} \cap 1..k - 1)
  /\ insn.mnem \in PairLoads => Len(line.dst) = IF k > 2 THEN 2 ELSE k - 1

SrcsRead ==
  classify_mnemonic(insn.mnem) \in Computed \cup {"OTHER", "COMPARE"} =>
    /\ Len(line.src) < k
    /\ RegsOf(line.src) = RegsAt(insn, ReadOps(insn) \cap 1..k - 1)

StoredRead ==
  /\ classify_mnemonic(insn.mnem) = "STORE" =>
       /\ k <= 2 => Len(line.src) = k - 1
       /\ k > 1 => Len(line.src) >= 1 /\ line.src[1] = First
  /\ insn.mnem = "stp" /\ k > 2 => Len(line.src) >= 2 /\ line.src[2] = Second

OperandsRead == DstsRead /\ SrcsRead /\ StoredRead

PrintedInv == pc # "print" => info = Printed
SecondInv ==
  pc = "done" =>
    /\ line.mem_write2 = IF StoresTwo THEN Offset(insn.addr, reg_size) ELSE None
    /\ line.mem_read2 = IF LoadsTwo THEN Offset(insn.addr, reg_size) ELSE None

Plain(x) == x.mnem \in Followed /\ NamesRegisters(x)

FlowInv ==
  /\ PrintedInv /\ SecondInv
  /\ Plain(insn) => OperandsRead

LEMMA RegsAtNone == \A x : RegsAt(x, {}) = {}
  BY DEF RegsAt

LEMMA RegsAtMore ==
  ASSUME NEW x, NEW ns, NEW n
  PROVE  RegsAt(x, ns \cup {n}) = RegsAt(x, ns) \cup RegAt(x, n)
  BY DEF RegsAt

LEMMA NothingRead ==
  k = 1 /\ line.dst = <<>> /\ line.src = <<>> => OperandsRead
  <1> SUFFICES ASSUME k = 1, line.dst = <<>>, line.src = <<>> PROVE OperandsRead
    OBVIOUS
  <1>1. 1..k - 1 = {} /\ ~(k > 1) /\ ~(k > 2) /\ k - 1 = 0 /\ 0 < k
    OBVIOUS
  <1>2. \A ns : ns \cap (1..k - 1) = {}
    BY <1>1
  <1>3. RegsOf(line.dst) = {} /\ RegsOf(line.src) = {} /\ Len(line.dst) = 0 /\ Len(line.src) = 0
    BY EmptyRegs
  <1>4. /\ RegsAt(insn, RegOps(insn) \cap {1} \cap 1..k - 1) = {}
        /\ RegsAt(insn, ReadOps(insn) \cap 1..k - 1) = {}
    BY <1>2, RegsAtNone
  <1>5. DstsRead
    BY <1>1, <1>3, <1>4 DEF DstsRead
  <1>6. SrcsRead
    BY <1>1, <1>3, <1>4 DEF SrcsRead
  <1>7. StoredRead
    BY <1>1, <1>3 DEF StoredRead
  <1> QED BY <1>5, <1>6, <1>7 DEF OperandsRead

(* An operand that is a register is one that the parser and the             *)
(* architecture name alike.                                                 *)
LEMMA NamedRegister ==
  ASSUME NEW x \in Insns, NamesRegisters(x), NEW n \in 1..Len(x.ops), x.ops[n].kind = "reg"
  PROVE  LET r == parse_reg_name(x.ops[n].regs[1]) IN
         r \in Regs /\ r # REG_INVALID /\ RegAt(x, n) = Normal({r})
  <1> DEFINE t == x.ops[n].regs[1]
  <1>1. x.ops \in Seq(Operand)
    BY InsnAssumption DEF Insn
  <1>2. x.ops[n] \in Operand
    BY <1>1
  <1>3. t \in Texts
    BY <1>2 DEF Operand
  <1>4. t[1] # "wsp"
    BY DEF NamesRegisters
  <1>5. ArchReg(t) = parse_reg_name(t)
    BY <1>4 DEF ArchReg
  <1>6. parse_reg_name(t) # REG_INVALID /\ parse_reg_name(t) \in Regs
    BY <1>3, <1>4, InsnAssumption
  <1> HIDE DEF parse_reg_name
  <1> QED BY <1>5, <1>6 DEF RegAt

LEMMA InitFlow == Init => FlowInv
  <1> SUFFICES ASSUME Init PROVE FlowInv
    OBVIOUS
  <1>1. k = 1 /\ line.dst = <<>> /\ line.src = <<>> /\ pc = "print"
    BY DEF Init, Blank
  <1> QED BY <1>1, NothingRead DEF FlowInv, PrintedInv, SecondInv

(* The steps other than ParseOperand read nothing. *)
LEMMA ReadKept ==
  ASSUME OperandsRead, insn' = insn, k' = k, line'.dst = line.dst, line'.src = line.src
  PROVE  OperandsRead'
  <1>1. DstsRead'
    BY DEF OperandsRead, DstsRead
  <1>2. SrcsRead'
    BY DEF OperandsRead, SrcsRead
  <1>3. StoredRead'
    BY DEF OperandsRead, StoredRead, First, Second
  <1> QED BY <1>1, <1>2, <1>3 DEF OperandsRead

LEMMA OthersFlow ==
  ASSUME IInv, FlowInv, PrintLine \/ Classify \/ OperandsEnd \/ Addresses \/ Pair
  PROVE  FlowInv'
  <1>0. line \in LineType
    BY DEF IInv, TypeOK
  <1>1. insn' = insn /\ k' = k /\ line'.dst = line.dst /\ line'.src = line.src
    BY <1>0 DEF PrintLine, Classify, OperandsEnd, Addresses, Pair, Goto, LineType
  <1>2. (Plain(insn) => OperandsRead)'
    <2>1. ASSUME Plain(insn) PROVE OperandsRead'
      BY <1>1, <2>1, ReadKept DEF FlowInv
    <2> QED BY <1>1, <2>1
  <1>3. PrintedInv'
    BY <1>1 DEF FlowInv, PrintedInv, Printed, PrintLine, Classify, OperandsEnd, Addresses,
                Pair, Goto
  <1>4. SecondInv'
    <2>1. CASE Pair
      <3> DEFINE w == IF StoresTwo THEN Offset(insn.addr, reg_size) ELSE None
                 r == IF LoadsTwo THEN Offset(insn.addr, reg_size) ELSE None
      <3>1. line' = [line EXCEPT !.mem_write2 = w, !.mem_read2 = r]
        BY <2>1 DEF Pair
      <3>2. reg_size' = reg_size
        BY <1>1 DEF reg_size
      <3>3. line'.mem_read = line.mem_read /\ line'.mem_write = line.mem_write
        BY <1>0, <3>1 DEF LineType
      <3>4. (StoresTwo' <=> StoresTwo) /\ (LoadsTwo' <=> LoadsTwo)
        BY <1>1, <3>3 DEF StoresTwo, LoadsTwo
      <3> HIDE DEF w, r
      <3>5. line'.mem_write2 = w /\ line'.mem_read2 = r
        BY <1>0, <3>1 DEF LineType
      <3> QED BY <1>1, <3>2, <3>4, <3>5 DEF SecondInv, w, r
    <2>2. CASE PrintLine \/ Classify \/ OperandsEnd \/ Addresses
      BY <2>2 DEF SecondInv, PrintLine, Classify, OperandsEnd, Addresses, Goto
    <2> QED BY <2>1, <2>2
  <1> QED BY <1>2, <1>3, <1>4 DEF FlowInv
LEMMA ParseOperandFlow ==
  ASSUME IInv, FlowInv, ParseOperand
  PROVE  FlowInv'
  <1> DEFINE o == insn.ops[k]
             r == parse_reg_name(o.regs[1])
             q == ReadOperand(line, o, k)
             c == classify_mnemonic(insn.mnem)
  <1>0. /\ pc = "operands" /\ pc' = "operands" /\ insn' = insn /\ info' = info
        /\ k' = k + 1 /\ k <= Len(insn.ops) /\ k <= MAX_OPS /\ line' = q
    BY DEF ParseOperand, OperandLeft
  <1>1. /\ insn \in Insns /\ insn.ops \in Seq(Operand) /\ k \in Nat \ {0}
        /\ Unfilled(line) /\ o \in Operand /\ insn.mnem \in Mnemonics
        /\ line.dst \in Seq(Regs) /\ line.src \in Seq(Regs)
        /\ Len(line.dst) \in Nat /\ Len(line.src) \in Nat
    BY <1>0 DEF IInv, TypeOK, Insn, Unfilled, LineType
  <1>2. /\ Unfilled(q) /\ Same(line, q)
    BY <1>1, ReadOperandReads
  <1>3. /\ Extends(line, q)
        /\ o.kind = "reg" /\ IsTarget(line, k) =>
             /\ q.src = line.src
             /\ r # REG_INVALID /\ Len(line.dst) < MAX_DST => q.dst = Append(line.dst, r)
        /\ ~(o.kind = "reg" /\ IsTarget(line, k)) => q.dst = line.dst
        /\ o.kind = "reg" /\ ~IsTarget(line, k) /\ r # REG_INVALID /\ Len(line.src) < MAX_SRC =>
             q.src = Append(line.src, r)
        /\ o.kind \notin {"reg", "mem"} => q = line
    BY <1>1, ReadOperandExact
  <1> HIDE DEF q
  <1>4. q.src \in Seq(Regs) /\ Len(q.src) \in Nat
    BY <1>2 DEF Unfilled, LineType
  <1>5. line.category = c
    BY <1>0 DEF IInv, CategoryInv
  <1>6. PrintedInv' /\ SecondInv'
    BY <1>0 DEF FlowInv, PrintedInv, SecondInv, Printed
  <1> SUFFICES ASSUME Plain(insn) PROVE OperandsRead'
    BY <1>0, <1>6 DEF FlowInv
  <1>7. OperandsRead
    BY DEF FlowInv
  <1>8. o.kind = "reg" => r \in Regs /\ r # REG_INVALID /\ RegAt(insn, k) = Normal({r})
    <2>1. k \in 1..Len(insn.ops)
      BY <1>0, <1>1
    <2> QED BY <1>1, <2>1, NamedRegister DEF Plain
  <1>9. k \in RegOps(insn) <=> o.kind = "reg"
    BY <1>0, <1>1 DEF Plain, NamesRegisters, RegOps
  <1>10. k' - 1 = k /\ 1..k = (1..k - 1) \cup {k}
    BY <1>0, <1>1
  <1>11. IsTarget(line, k) <=>
           /\ c \notin {"STORE", "COMPARE", "BRANCH"}
           /\ k = 1 \/ (k = 2 /\ insn.mnem \in PairLoads)
    BY <1>5 DEF IsTarget
  <1>12. /\ insn.mnem \in PairLoads => c = "LOAD"
         /\ insn.mnem = "stp" => c = "STORE"
    BY PairsCategorised
  <1>13. /\ insn.mnem \in Load <=> c = "LOAD"
         /\ insn.mnem \in Store <=> c = "STORE"
         /\ insn.mnem \in Compare <=> c = "COMPARE"
         /\ insn.mnem \in Branch <=> c = "BRANCH"
         /\ insn.mnem \in ImmLoad <=> c = "IMM_LOAD"
         /\ insn.mnem = "movk" <=> c = "PARTIAL_MODIFY"
    BY <1>1, Categorised
  <1> HIDE DEF o, r, c
  <1>14. DstsRead'
    <2>1. ASSUME c \notin {"STORE", "COMPARE", "BRANCH"}, insn.mnem \notin PairLoads
          PROVE  RegsOf(q.dst) = RegsAt(insn, RegOps(insn) \cap {1} \cap 1..k)
      <3> DEFINE A == RegOps(insn) \cap {1} \cap 1..k - 1
                 B == RegOps(insn) \cap {1} \cap 1..k
      <3>1. RegsOf(line.dst) = RegsAt(insn, A)
        BY <1>7, <2>1 DEF OperandsRead, DstsRead, c
      <3>2. CASE o.kind = "reg" /\ k = 1
        <4>1. Len(line.dst) < MAX_DST
          BY <1>1, <3>2 DEF IInv, DstInv, MAX_DST
        <4>2. q.dst = Append(line.dst, r)
          BY <1>3, <1>8, <1>11, <2>1, <3>2, <4>1
        <4>3. RegsOf(q.dst) = RegsOf(line.dst) \cup Normal({r})
          BY <1>1, <1>8, <3>2, <4>2, RegsOfAppend
        <4>4. B = A \cup {k}
          BY <1>9, <1>10, <3>2
        <4> HIDE DEF A, B
        <4>5. RegsAt(insn, B) = RegsAt(insn, A) \cup RegAt(insn, k)
          BY <4>4, RegsAtMore
        <4> QED BY <1>8, <3>1, <3>2, <4>3, <4>5 DEF B
      <3>3. CASE ~(o.kind = "reg" /\ k = 1)
        <4>1. q.dst = line.dst
          BY <1>3, <1>11, <2>1, <3>3
        <4>2. B = A
          <5>1. ~(k \in RegOps(insn) /\ k = 1)
            BY <1>9, <3>3
          <5> QED BY <1>10, <5>1
        <4> QED BY <3>1, <4>1, <4>2
      <3> QED BY <3>2, <3>3
    <2>2. ASSUME insn.mnem \in PairLoads
          PROVE  Len(q.dst) = IF k + 1 > 2 THEN 2 ELSE k
      <3>1. Len(line.dst) = IF k > 2 THEN 2 ELSE k - 1
        BY <1>7, <2>2 DEF OperandsRead, DstsRead
      <3>2. k \in {1, 2} => o.kind = "reg"
        BY <1>1, <2>2, InsnAssumption DEF o
      <3>3. CASE k \in {1, 2}
        <4>1. IsTarget(line, k)
          BY <1>11, <1>12, <2>2, <3>3
        <4>2. Len(line.dst) < MAX_DST
          BY <3>1, <3>3 DEF MAX_DST
        <4>3. q.dst = Append(line.dst, r)
          BY <1>3, <1>8, <3>2, <3>3, <4>1, <4>2
        <4>4. Len(q.dst) = Len(line.dst) + 1
          BY <1>1, <4>3
        <4> QED BY <3>1, <3>3, <4>4
      <3>4. CASE k > 2
        <4>1. q.dst = line.dst
          BY <1>3, <1>11, <3>4
        <4>2. Len(line.dst) = 2
          BY <3>1, <3>4
        <4>3. k + 1 > 2
          BY <1>1, <3>4
        <4> QED BY <4>1, <4>2, <4>3
      <3> QED BY <1>1, <3>3, <3>4
    <2> QED BY <1>0, <1>1, <1>10, <2>1, <2>2 DEF DstsRead, c
  <1>15. SrcsRead'
    <2> SUFFICES ASSUME c \in Computed \cup {"OTHER", "COMPARE"}
                 PROVE  /\ Len(q.src) < k + 1
                        /\ RegsOf(q.src) = RegsAt(insn, ReadOps(insn) \cap 1..k)
      BY <1>0, <1>10 DEF SrcsRead, c
    <2> DEFINE A == ReadOps(insn) \cap 1..k - 1
               B == ReadOps(insn) \cap 1..k
    <2>1. Len(line.src) < k /\ RegsOf(line.src) = RegsAt(insn, A)
      BY <1>7 DEF OperandsRead, SrcsRead, c
    <2>2. insn.mnem \notin Branch \cup Load \cup Store \cup ImmLoad \cup {"movk"}
      BY <1>13 DEF Computed
    <2>3. o.kind # "mem"
      <3>1. \A n \in 1..Len(insn.ops) : insn.ops[n].kind # "mem"
        BY <1>1, <2>2, FlowAssumption DEF Plain
      <3> QED BY <1>0, <1>1, <3>1 DEF o
    <2>4. IsTarget(line, k) <=> c # "COMPARE" /\ k = 1
      BY <1>11, <1>12 DEF Computed
    <2>5. k \in ReadOps(insn) <=> o.kind = "reg" /\ ~IsTarget(line, k)
      <3>1. ReadOps(insn) = IF c = "COMPARE" THEN RegOps(insn) ELSE RegOps(insn) \ {1}
        BY <1>13, <2>2 DEF ReadOps
      <3> QED BY <1>9, <2>4, <3>1
    <2>6. CASE o.kind = "reg" /\ ~IsTarget(line, k)
      <3>1. Len(line.src) < MAX_SRC
        BY <1>0, <1>1, <2>1 DEF MAX_SRC, MAX_OPS
      <3>2. q.src = Append(line.src, r)
        BY <1>3, <1>8, <2>6, <3>1
      <3>3. Len(q.src) = Len(line.src) + 1
        BY <1>1, <3>2
      <3>4. RegsOf(q.src) = RegsOf(line.src) \cup Normal({r})
        BY <1>1, <1>8, <2>6, <3>2, RegsOfAppend
      <3>5. B = A \cup {k}
        BY <1>10, <2>5, <2>6
      <3> HIDE DEF A, B
      <3>6. RegsAt(insn, B) = RegsAt(insn, A) \cup RegAt(insn, k)
        BY <3>5, RegsAtMore
      <3>7. Len(q.src) < k + 1
        BY <1>1, <2>1, <3>3
      <3> QED BY <1>8, <2>1, <2>6, <3>4, <3>6, <3>7 DEF B
    <2>7. CASE ~(o.kind = "reg" /\ ~IsTarget(line, k))
      <3>1. o.kind = "reg" => q.src = line.src
        BY <1>3, <2>7
      <3>2. o.kind # "reg" => q.src = line.src
        BY <1>3, <2>3
      <3>3. B = A
        <4>1. k \notin ReadOps(insn)
          BY <2>5, <2>7
        <4> QED BY <1>10, <4>1
      <3>4. Len(line.src) < k + 1
        BY <1>1, <2>1
      <3> HIDE DEF A, B
      <3> QED BY <2>1, <3>1, <3>2, <3>3, <3>4 DEF B
    <2> QED BY <2>6, <2>7
  <1>16. StoredRead'
    <2>1. \A j \in 1..Len(line.src) : q.src[j] = line.src[j]
      BY <1>3 DEF Extends
    <2>2. Len(q.src) >= Len(line.src)
      BY <1>3 DEF Extends
    <2>3. ASSUME c = "STORE"
          PROVE  (k = 1 => Len(q.src) = 1) /\ Len(q.src) >= 1 /\ q.src[1] = First
      <3>1. CASE k = 1
        <4>1. Len(line.src) = 0
          BY <1>7, <2>3, <3>1 DEF OperandsRead, StoredRead, c
        <4>2. 1 \in Range(insn.uses) /\ Range(insn.uses) \subseteq RegOps(insn)
          <5>1. /\ insn.uses = IF insn.mnem = "stp" THEN <<1, 2>> ELSE <<1>>
                /\ Range(insn.uses) \subseteq RegOps(insn)
            BY <1>1, <1>13, <2>3, FlowAssumption DEF Plain
          <5>2. 1 \in DOMAIN insn.uses /\ insn.uses[1] = 1
            BY <5>1
          <5> QED BY <5>1, <5>2 DEF Range
        <4>3. o.kind = "reg"
          BY <1>9, <3>1, <4>2
        <4>4. q.src = Append(line.src, r)
          BY <1>3, <1>8, <1>11, <2>3, <4>1, <4>3 DEF MAX_SRC
        <4>5. Len(q.src) = 1 /\ q.src[1] = r
          BY <1>1, <4>1, <4>4
        <4>6. r = First
          BY <3>1 DEF r, o, First
        <4> QED BY <4>5, <4>6
      <3>2. CASE k > 1
        <4>1. Len(line.src) >= 1 /\ line.src[1] = First
          BY <1>7, <2>3, <3>2 DEF OperandsRead, StoredRead, c
        <4>2. q.src[1] = line.src[1]
          BY <1>1, <2>1, <4>1
        <4>3. Len(q.src) >= 1
          BY <1>1, <1>4, <2>2, <4>1
        <4> QED BY <3>2, <4>1, <4>2, <4>3
      <3> QED BY <1>1, <3>1, <3>2
    <2>4. ASSUME insn.mnem = "stp", k > 1
          PROVE  Len(q.src) >= 2 /\ q.src[2] = Second
      <3>0. c = "STORE"
        BY <1>12, <2>4
      <3>1. CASE k = 2
        <4>1. Len(line.src) = 1
          BY <1>7, <3>0, <3>1 DEF OperandsRead, StoredRead, c
        <4>2. o.kind = "reg"
          BY <1>1, <2>4, <3>1, InsnAssumption DEF o
        <4>3. q.src = Append(line.src, r)
          BY <1>3, <1>8, <1>11, <3>0, <4>1, <4>2 DEF MAX_SRC
        <4>4. Len(q.src) = 2 /\ q.src[2] = r
          BY <1>1, <4>1, <4>3
        <4>5. r = Second
          BY <3>1 DEF r, o, Second
        <4> QED BY <4>4, <4>5
      <3>2. CASE k > 2
        <4>1. Len(line.src) >= 2 /\ line.src[2] = Second
          BY <1>7, <2>4, <3>2 DEF OperandsRead, StoredRead
        <4>2. q.src[2] = line.src[2]
          BY <1>1, <2>1, <4>1
        <4>3. Len(q.src) >= 2
          BY <1>1, <1>4, <2>2, <4>1
        <4> QED BY <4>1, <4>2, <4>3
      <3> QED BY <1>1, <2>4, <3>1, <3>2
    <2>5. First' = First /\ Second' = Second
      BY <1>0 DEF First, Second
    <2>6. c = "STORE" =>
            /\ k + 1 <= 2 => Len(q.src) = k
            /\ Len(q.src) >= 1 /\ q.src[1] = First
      <3>1. k + 1 <= 2 => k = 1
        BY <1>1
      <3> QED BY <2>3, <3>1
    <2>7. insn.mnem = "stp" /\ k + 1 > 2 => Len(q.src) >= 2 /\ q.src[2] = Second
      BY <1>1, <2>4
    <2> QED BY <1>0, <1>10, <2>5, <2>6, <2>7 DEF StoredRead, c
  <1> QED BY <1>14, <1>15, <1>16 DEF OperandsRead

LEMMA FlowHolds == Spec => [](IInv /\ FlowInv)
  <1>1. IInv /\ FlowInv /\ [Next]_vars => FlowInv'
    <2> SUFFICES ASSUME IInv, FlowInv, [Next]_vars PROVE FlowInv'
      OBVIOUS
    <2>1. CASE UNCHANGED vars
      BY <2>1 DEF vars, FlowInv, PrintedInv, SecondInv, Printed, StoresTwo, LoadsTwo, reg_size,
                  OperandsRead, DstsRead, SrcsRead, StoredRead, First, Second
    <2> QED BY <2>1, ParseOperandFlow, OthersFlow DEF Next
  <1> QED BY <1>1, InitFlow, InvInductive, PTL DEF Spec
-----------------------------------------------------------------------------
(* The finished line of an instruction outside the gaps. *)
Done == IInv /\ FlowInv /\ pc = "done" /\ ~Gap(insn)

LEMMA DonePlain ==
  ASSUME Done
  PROVE  /\ insn \in Insns /\ insn.mnem \in Mnemonics /\ insn.mnem \in Followed
         /\ Plain(insn) /\ OperandsRead
         /\ line.category = classify_mnemonic(insn.mnem)
         /\ line.dst \in Seq(Regs) /\ line.src \in Seq(Regs)
         /\ Len(line.dst) \in Nat /\ Len(line.src) \in Nat
         /\ insn.mnem \notin ReadsFlags \cup OtherPairs
         /\ insn.mnem \in Pairs => insn.size = reg_size
         /\ insn.flow \in {"load", "store"} => insn.access # "none"
         /\ FlagsOf(line) = IF insn.flags THEN {REG_NZCV} ELSE {}
  <1>1. /\ insn \in Insns /\ insn.mnem \in Mnemonics /\ line \in LineType
    BY DEF Done, IInv, TypeOK, Insn
  <1>2. /\ insn.mnem \in Followed /\ NamesRegisters(insn)
        /\ insn.mnem \in Pairs => insn.size = reg_size
        /\ insn.flow \in {"load", "store"} => insn.access # "none"
    BY DEF Done, Gap
  <1>3. Plain(insn) /\ OperandsRead
    BY <1>2 DEF Done, FlowInv, Plain
  <1>4. line.category = classify_mnemonic(insn.mnem) /\ line.sets_flags = sets_flags(insn.mnem)
    BY DEF Done, IInv, CategoryInv
  <1>5. insn.mnem \notin ReadsFlags \cup OtherPairs
    BY <1>2 DEF Followed
  <1>6. sets_flags(insn.mnem) <=> insn.mnem \in FlagSetters
    BY DEF sets_flags, FlagSetters, Compare
  <1>7. insn.flags = (insn.mnem \in FlagSetters)
    BY <1>1, <1>2, FlowAssumption
  <1>8. FlagsOf(line) = IF insn.flags THEN {REG_NZCV} ELSE {}
    BY <1>4, <1>6, <1>7 DEF FlagsOf
  <1> QED BY <1>1, <1>2, <1>3, <1>4, <1>5, <1>8 DEF LineType

LEMMA DoneOperands ==
  ASSUME Done
  PROVE  /\ \A ns : RegOps(insn) \cap ns \cap 1..k - 1 = RegOps(insn) \cap ns
         /\ ReadOps(insn) \cap 1..k - 1 = ReadOps(insn)
         /\ 1 \in RegOps(insn) => k > 1
         /\ 2 \in RegOps(insn) => k > 2
  <1>1. insn.ops \in Seq(Operand) /\ Len(insn.ops) \in Nat /\ k \in Nat
    BY DEF Done, IInv, TypeOK, Insn
  <1>2. k > Len(insn.ops) \/ k > MAX_OPS
    BY DEF Done, IInv, EndInv
  <1>3. RegOps(insn) \subseteq 1..k - 1
    BY <1>1, <1>2 DEF RegOps, MAX_OPS
  <1>4. ReadOps(insn) \subseteq RegOps(insn)
    BY DEF ReadOps
  <1>5. 1 \in 1..k - 1 => k > 1
    BY <1>1
  <1>6. 2 \in 1..k - 1 => k > 2
    BY <1>1
  <1> QED BY <1>3, <1>4, <1>5, <1>6

LEMMA Elements ==
  ASSUME NEW x \in Insns
  PROVE  /\ x.addr \in Addrs /\ x.addr # None /\ Element(x, 1) = x.addr
         /\ Element(x, 2) = Offset(x.addr, x.size)
         /\ x.size \in {4, 8} => Element(x, 2) \notin {x.addr, None}
  <1>1. x.addr \in Addrs /\ x.size \in Nat
    BY InsnAssumption DEF Insn
  <1>2. x.addr \in {"mem"} \X Nat
    BY <1>1, InsnAssumption
  <1>3. x.addr # None
    BY <1>1, LocAssumption DEF Locs
  <1>4. (1 - 1) * x.size = 0 /\ (2 - 1) * x.size = x.size
    BY <1>1
  <1>5. Element(x, 1) = Offset(x.addr, 0) /\ Element(x, 2) = Offset(x.addr, x.size)
    BY <1>4 DEF Element
  <1>6. Offset(x.addr, 0) = x.addr
    BY <1>2 DEF Offset
  <1>7. ASSUME x.size \in {4, 8} PROVE Element(x, 2) \notin {x.addr, None}
    <2>1. Offset(x.addr, x.size) \in Addrs
      BY <1>7, InsnAssumption
    <2>2. Offset(x.addr, x.size) # x.addr
      BY <1>2, <1>7 DEF Offset
    <2> QED BY <1>5, <2>1, <2>2, LocAssumption DEF Locs
  <1> QED BY <1>1, <1>3, <1>5, <1>6, <1>7

(* The addresses of the line: those of the elements, where there are any. *)
LEMMA DoneAddresses ==
  ASSUME Done
  PROVE  /\ insn.mnem \in Load =>
              /\ line.mem_read = insn.addr
              /\ line.mem_read2 = IF insn.mnem \in PairLoads THEN Element(insn, 2) ELSE None
              /\ line.mem_write = None /\ line.mem_write2 = None
         /\ insn.mnem \in Store =>
              /\ line.mem_write = insn.addr
              /\ line.mem_write2 = IF insn.mnem = "stp" THEN Element(insn, 2) ELSE None
              /\ line.mem_read = None /\ line.mem_read2 = None
         /\ insn.mnem \notin Branch \cup Load \cup Store =>
              /\ line.mem_read = None /\ line.mem_read2 = None
              /\ line.mem_write = None /\ line.mem_write2 = None
         /\ insn.mnem \in Pairs => Element(insn, 2) \notin {insn.addr, None}
  <1> DEFINE c == classify_mnemonic(insn.mnem)
             o == Offset(insn.addr, reg_size)
  <1>1. /\ insn \in Insns /\ insn.mnem \in Mnemonics /\ insn.mnem \in Followed
        /\ insn.mnem \notin OtherPairs
        /\ insn.mnem \in Pairs => insn.size = reg_size
        /\ insn.flow \in {"load", "store"} => insn.access # "none"
    BY DonePlain
  <1>2. insn.addr # None /\ Element(insn, 2) = Offset(insn.addr, insn.size)
    BY <1>1, Elements
  <1>3. /\ info = Printed
        /\ line.mem_write2 = IF StoresTwo THEN o ELSE None
        /\ line.mem_read2 = IF LoadsTwo THEN o ELSE None
    BY DEF Done, FlowInv, PrintedInv, SecondInv
  <1>4. /\ line.mem_read = IF "r" \in info THEN insn.addr ELSE None
        /\ line.mem_write = IF "w" \in info THEN insn.addr ELSE None
    BY DEF Done, IInv, AddressInv
  <1>5. insn.mnem \in Pairs => o = Element(insn, 2)
    BY <1>1, <1>2
  <1> HIDE DEF o
  <1>6. /\ insn.mnem \in Load <=> c = "LOAD"
        /\ insn.mnem \in Store <=> c = "STORE"
        /\ insn.mnem = "stp" => c = "STORE"
        /\ insn.mnem \in PairLoads => c = "LOAD"
    BY <1>1, Categorised, PairsCategorised
  <1>7. /\ c = "LOAD" => insn.access \in {"none", "r", "rw"}
        /\ c = "STORE" => insn.access \in {"none", "w", "rw"}
    BY <1>1, InsnAssumption
  <1>8. /\ insn.mnem \in Load => BeginsWithL(insn.mnem)
        /\ insn.mnem \in Store => ~BeginsWithL(insn.mnem)
    BY LoadsBeginWithL
  <1>9. /\ insn.access = "r" => Printed = {"r"}
        /\ insn.access = "w" => Printed = {"w"}
        /\ insn.access = "none" => Printed = {}
        /\ insn.access = "rw" /\ BeginsWithL(insn.mnem) => Printed = {"r"}
        /\ insn.access = "rw" /\ ~BeginsWithL(insn.mnem) => Printed = {"w"}
    BY DEF Printed
  <1>10. /\ insn.mnem \in Load => insn.flow = "load"
         /\ insn.mnem \in Store => insn.flow = "store"
         /\ insn.mnem \notin Branch \cup Load \cup Store => insn.access = "none"
    BY <1>1, FlowAssumption
  <1> HIDE DEF c
  <1>11. ASSUME insn.mnem \in Load
         PROVE  /\ line.mem_read = insn.addr
                /\ line.mem_read2 = IF insn.mnem \in PairLoads THEN Element(insn, 2) ELSE None
                /\ line.mem_write = None /\ line.mem_write2 = None
    <2>1. Printed = {"r"}
      BY <1>1, <1>6, <1>7, <1>8, <1>9, <1>10, <1>11
    <2>2. line.mem_read = insn.addr /\ line.mem_write = None
      BY <1>3, <1>4, <2>1
    <2>3. ~StoresTwo /\ (LoadsTwo <=> insn.mnem \in PairLoads)
      BY <1>1, <1>2, <2>2 DEF StoresTwo, LoadsTwo
    <2>4. insn.mnem \in PairLoads => insn.mnem \in Pairs
      BY DEF Pairs
    <2> QED BY <1>3, <1>5, <2>2, <2>3, <2>4
  <1>12. ASSUME insn.mnem \in Store
         PROVE  /\ line.mem_write = insn.addr
                /\ line.mem_write2 = IF insn.mnem = "stp" THEN Element(insn, 2) ELSE None
                /\ line.mem_read = None /\ line.mem_read2 = None
    <2>1. Printed = {"w"}
      BY <1>1, <1>6, <1>7, <1>8, <1>9, <1>10, <1>12
    <2>2. line.mem_write = insn.addr /\ line.mem_read = None
      BY <1>3, <1>4, <2>1
    <2>3. ~LoadsTwo /\ (StoresTwo <=> insn.mnem = "stp")
      BY <1>1, <1>2, <2>2 DEF StoresTwo, LoadsTwo
    <2>4. insn.mnem = "stp" => insn.mnem \in Pairs
      BY DEF Pairs
    <2> QED BY <1>3, <1>5, <2>2, <2>3, <2>4
  <1>13. ASSUME insn.mnem \notin Branch \cup Load \cup Store
         PROVE  /\ line.mem_read = None /\ line.mem_read2 = None
                /\ line.mem_write = None /\ line.mem_write2 = None
    <2>1. Printed = {}
      BY <1>9, <1>10, <1>13
    <2>2. line.mem_read = None /\ line.mem_write = None
      BY <1>3, <1>4, <2>1
    <2>3. ~LoadsTwo /\ ~StoresTwo
      BY <2>2 DEF StoresTwo, LoadsTwo
    <2> QED BY <1>3, <2>2, <2>3
  <1>14. ASSUME insn.mnem \in Pairs PROVE Element(insn, 2) \notin {insn.addr, None}
    <2>1. insn.size \in {4, 8}
      BY <1>1, <1>14 DEF reg_size
    <2> QED BY <1>1, <2>1, Elements
  <1> QED BY <1>11, <1>12, <1>13, <1>14

LEMMA RegsAtOne == \A x, n : RegsAt(x, {n}) = RegAt(x, n)
  BY DEF RegsAt

(* The flows agree where the line writes what the instruction writes, and   *)
(* from there.                                                              *)
LEMMA SameFlow ==
  ASSUME NEW l, NEW x, Writes(l) = ArchWrites(x),
         \A y \in Writes(l) : WrittenFrom(l, y) = ArchSources(x, y)
  PROVE  From(l) = ArchFrom(x)
  BY DEF From, ArchFrom

LEMMA BranchFlow ==
  ASSUME Done, insn.mnem \in Branch
  PROVE  From(line) = ArchFrom(insn)
  <1>1. /\ insn \in Insns /\ insn.mnem \in Mnemonics /\ insn.mnem \in Followed
        /\ line.category = classify_mnemonic(insn.mnem)
    BY DonePlain
  <1>2. line.category = "BRANCH"
    BY <1>1, Categorised
  <1>3. insn.flow = "none"
    BY <1>1, FlowAssumption
  <1>4. Writes(line) = {} /\ ArchWrites(insn) = {}
    BY <1>2, <1>3 DEF Writes, ArchWrites
  <1> QED BY <1>4, SameFlow

(* movk keeps a part of the register it writes. *)
LEMMA PartialFlow ==
  ASSUME Done, insn.mnem = "movk"
  PROVE  From(line) = ArchFrom(insn)
  <1>1. /\ insn \in Insns /\ insn.mnem \in Mnemonics /\ insn.mnem \in Followed
        /\ line.category = classify_mnemonic(insn.mnem)
        /\ insn.mnem \notin ReadsFlags
    BY DonePlain
  <1>2. line.category = "PARTIAL_MODIFY" /\ insn.mnem \notin Load \cup Store \cup Compare \cup Branch
    BY <1>1, Categorised
  <1>3. insn.mnem \notin FlagSetters /\ insn.mnem \notin ImmLoad
    BY NamesApart DEF FlagSetters
  <1>4. /\ insn.flow = "compute" /\ ~insn.flags
        /\ Range(insn.defs) = RegOps(insn) \cap {1}
        /\ Range(insn.uses) = ReadOps(insn)
    BY <1>1, <1>2, <1>3, FlowAssumption
  <1>5. ReadOps(insn) = RegOps(insn) \cap {1}
    BY <1>2, <1>3 DEF ReadOps
  <1> DEFINE W == RegsAt(insn, RegOps(insn) \cap {1})
  <1>6. ArchWrites(insn) = W
    BY <1>4 DEF ArchWrites
  <1>7. \A y : ArchSources(insn, y) = W
    BY <1>1, <1>4, <1>5 DEF ArchSources
  <1>8. \A y \in W : W = {y}
    <2>1. CASE 1 \in RegOps(insn)
      <3>1. W = RegAt(insn, 1)
        <4>1. RegOps(insn) \cap {1} = {1}
          BY <2>1
        <4> QED BY <4>1, RegsAtOne
      <3> QED BY <3>1 DEF RegAt, Normal
    <2>2. CASE 1 \notin RegOps(insn)
      <3>1. RegOps(insn) \cap {1} = {}
        BY <2>2
      <3> QED BY <3>1, RegsAtNone
    <2> QED BY <2>1, <2>2
  <1> HIDE DEF W
  <1>9. \A y : ArchFrom(insn) = [z \in Locs |-> {z}]
    BY <1>6, <1>7, <1>8 DEF ArchFrom
  <1>10. From(line) = [z \in Locs |-> {z}]
    BY <1>2 DEF From, Writes
  <1> QED BY <1>9, <1>10

(* Constants, computations, comparisons and what is not known: no memory. *)
LEMMA ComputeFlow ==
  ASSUME Done, insn.mnem \notin Branch \cup Load \cup Store \cup {"movk"}
  PROVE  From(line) = ArchFrom(insn)
  <1> DEFINE c == classify_mnemonic(insn.mnem)
  <1>1. /\ insn \in Insns /\ insn.mnem \in Mnemonics /\ insn.mnem \in Followed
        /\ OperandsRead /\ line.category = c
        /\ insn.mnem \notin ReadsFlags
        /\ FlagsOf(line) = IF insn.flags THEN {REG_NZCV} ELSE {}
    BY DonePlain
  <1>2. /\ c \in Categories \ {"BRANCH", "LOAD", "STORE", "PARTIAL_MODIFY"}
        /\ insn.mnem \in Compare <=> c = "COMPARE"
        /\ insn.mnem \in ImmLoad <=> c = "IMM_LOAD"
    BY <1>1, Categorised
  <1>3. insn.mnem \notin PairLoads
    BY <1>2, PairsCategorised
  <1>4. /\ insn.flow = "compute"
        /\ Range(insn.defs) = IF insn.mnem \in Compare THEN {} ELSE RegOps(insn) \cap {1}
        /\ Range(insn.uses) = ReadOps(insn)
    BY <1>1, FlowAssumption
  <1>5. /\ line.mem_read = None /\ line.mem_read2 = None
        /\ line.mem_write = None /\ line.mem_write2 = None
    BY DoneAddresses
  <1>6. RegsOf(line.dst) = RegsAt(insn, Range(insn.defs))
    <2>1. CASE c = "COMPARE"
      <3>1. line.dst = <<>>
        BY <1>1, <2>1 DEF Done, IInv, DstInv
      <3>2. Range(insn.defs) = {}
        BY <1>2, <1>4, <2>1
      <3> QED BY <3>1, <3>2, RegsAtNone, EmptyRegs
    <2>2. CASE c # "COMPARE"
      <3>1. RegsOf(line.dst) = RegsAt(insn, RegOps(insn) \cap {1} \cap 1..k - 1)
        BY <1>1, <1>2, <1>3, <2>2 DEF OperandsRead, DstsRead
      <3>2. RegOps(insn) \cap {1} \cap 1..k - 1 = RegOps(insn) \cap {1}
        BY DoneOperands
      <3>3. Range(insn.defs) = RegOps(insn) \cap {1}
        BY <1>2, <1>4, <2>2
      <3> QED BY <3>1, <3>2, <3>3
    <2> QED BY <2>1, <2>2
  <1> HIDE DEF c
  <1>7. Writes(line) = ArchWrites(insn)
    <2>1. Writes(line) = RegsOf(line.dst) \cup FlagsOf(line)
      BY <1>1, <1>2, <1>5 DEF Writes, DstsOf, AddrsOf
    <2>2. ArchWrites(insn) = RegsAt(insn, Range(insn.defs)) \cup FlagsOf(line)
      BY <1>1, <1>4 DEF ArchWrites
    <2> QED BY <1>6, <2>1, <2>2
  <1>8. \A y : ArchSources(insn, y) = RegsAt(insn, ReadOps(insn))
    BY <1>1, <1>4 DEF ArchSources
  <1>9. \A y : WrittenFrom(line, y) = RegsAt(insn, ReadOps(insn))
    <2>1. ~IsPairLoad(line) /\ ~IsPairStore(line)
      BY <1>1, <1>2 DEF IsPairLoad, IsPairStore
    <2>2. CASE c = "IMM_LOAD"
      <3>1. \A y : WrittenFrom(line, y) = {}
        BY <1>1, <2>2, <2>1 DEF WrittenFrom
      <3>2. ReadOps(insn) = {}
        BY <1>2, <2>2 DEF ReadOps
      <3> QED BY <3>1, <3>2, RegsAtNone
    <2>3. CASE c # "IMM_LOAD"
      <3>1. \A y : WrittenFrom(line, y) = SrcsOf(line)
        BY <1>1, <1>2, <2>1, <2>3 DEF WrittenFrom
      <3>2. SrcsOf(line) = RegsOf(line.src)
        BY <1>5 DEF SrcsOf, AddrsOf
      <3>3. c \in Computed \cup {"OTHER", "COMPARE"}
        BY <1>2, <2>3 DEF Categories
      <3>4. RegsOf(line.src) = RegsAt(insn, ReadOps(insn) \cap 1..k - 1)
        BY <1>1, <3>3 DEF OperandsRead, SrcsRead, c
      <3>5. ReadOps(insn) \cap 1..k - 1 = ReadOps(insn)
        BY DoneOperands
      <3> QED BY <3>1, <3>2, <3>4, <3>5
    <2> QED BY <2>2, <2>3
  <1> QED BY <1>7, <1>8, <1>9, SameFlow
(* What both kinds of load, and both kinds of store, have in common. *)
LEMMA LoadOf ==
  ASSUME Done, insn.mnem \in Load
  PROVE  /\ line.category = "LOAD" /\ insn.flow = "load"
         /\ Writes(line) = RegsOf(line.dst)
         /\ ArchWrites(insn) = RegsAt(insn, Range(insn.defs))
  <1>1. /\ insn \in Insns /\ insn.mnem \in Mnemonics /\ insn.mnem \in Followed
        /\ line.category = classify_mnemonic(insn.mnem)
        /\ FlagsOf(line) = IF insn.flags THEN {REG_NZCV} ELSE {}
    BY DonePlain
  <1>2. line.category = "LOAD"
    BY <1>1, Categorised
  <1>3. insn.mnem \notin FlagSetters
    BY DEF Load, PairLoads, OtherPairs, ExclusiveLoads, FlagSetters
  <1>4. insn.flow = "load" /\ ~insn.flags
    BY <1>1, <1>3, FlowAssumption
  <1>5. FlagsOf(line) = {}
    BY <1>1, <1>4
  <1>6. line.mem_write = None /\ line.mem_write2 = None
    BY DoneAddresses
  <1>7. Writes(line) = RegsOf(line.dst)
    BY <1>2, <1>5, <1>6 DEF Writes, DstsOf, AddrsOf
  <1>8. ArchWrites(insn) = RegsAt(insn, Range(insn.defs))
    BY <1>4 DEF ArchWrites
  <1> QED BY <1>2, <1>4, <1>7, <1>8

LEMMA StoreOf ==
  ASSUME Done, insn.mnem \in Store
  PROVE  /\ line.category = "STORE" /\ insn.flow = "store"
         /\ Writes(line) = AddrsOf({line.mem_write, line.mem_write2})
         /\ ArchWrites(insn) = {Element(insn, n) : n \in DOMAIN insn.uses}
         /\ 1 \in RegOps(insn)
         /\ line.src[1] = First /\ Len(line.src) >= 1
         /\ RegAt(insn, 1) = Normal({First})
  <1>1. /\ insn \in Insns /\ insn.mnem \in Mnemonics /\ insn.mnem \in Followed
        /\ OperandsRead /\ Plain(insn)
        /\ line.category = classify_mnemonic(insn.mnem)
        /\ FlagsOf(line) = IF insn.flags THEN {REG_NZCV} ELSE {}
    BY DonePlain
  <1>2. line.category = "STORE" /\ classify_mnemonic(insn.mnem) = "STORE"
    BY <1>1, Categorised
  <1>3. insn.mnem \notin FlagSetters
    BY DEF Store, ExclusiveStores, FlagSetters
  <1>4. /\ insn.flow = "store" /\ ~insn.flags
        /\ insn.uses = IF insn.mnem = "stp" THEN <<1, 2>> ELSE <<1>>
        /\ Range(insn.uses) \subseteq RegOps(insn)
    BY <1>1, <1>3, FlowAssumption
  <1>5. FlagsOf(line) = {}
    BY <1>1, <1>4
  <1>6. line.dst = <<>>
    BY <1>2 DEF Done, IInv, DstInv
  <1>7. Writes(line) = AddrsOf({line.mem_write, line.mem_write2})
    BY <1>2, <1>5, <1>6, EmptyRegs DEF Writes, DstsOf
  <1>8. ArchWrites(insn) = {Element(insn, n) : n \in DOMAIN insn.uses}
    BY <1>4 DEF ArchWrites
  <1>9. 1 \in RegOps(insn)
    <2>1. 1 \in DOMAIN insn.uses /\ insn.uses[1] = 1
      BY <1>4
    <2> QED BY <1>4, <2>1 DEF Range
  <1>10. k > 1
    BY <1>9, DoneOperands
  <1>11. line.src[1] = First /\ Len(line.src) >= 1
    BY <1>1, <1>2, <1>10 DEF OperandsRead, StoredRead
  <1>12. RegAt(insn, 1) = Normal({First})
    <2>1. insn.ops \in Seq(Operand)
      BY <1>1, InsnAssumption DEF Insn
    <2>2. 1 \in 1..Len(insn.ops) /\ insn.ops[1].kind \in {"reg", "lane"}
      BY <1>9, <2>1 DEF RegOps
    <2>3. insn.ops[1].kind = "reg"
      BY <1>1, <2>2 DEF Plain, NamesRegisters
    <2> QED BY <1>1, <2>2, <2>3, NamedRegister DEF Plain, First
  <1> QED BY <1>2, <1>4, <1>7, <1>8, <1>9, <1>11, <1>12

LEMMA SingleLoadFlow ==
  ASSUME Done, insn.mnem \in Load \ PairLoads
  PROVE  From(line) = ArchFrom(insn)
  <1>1. /\ insn \in Insns /\ insn.mnem \in Followed /\ OperandsRead
        /\ line.category = classify_mnemonic(insn.mnem)
    BY DonePlain
  <1>2. /\ line.category = "LOAD" /\ insn.flow = "load"
        /\ Writes(line) = RegsOf(line.dst)
        /\ ArchWrites(insn) = RegsAt(insn, Range(insn.defs))
    BY LoadOf
  <1>3. insn.defs = <<1>> /\ Range(insn.defs) \subseteq RegOps(insn)
    BY <1>1, FlowAssumption
  <1>4. Range(insn.defs) = {1} /\ DOMAIN insn.defs = {1} /\ insn.defs[1] = 1
    BY <1>3 DEF Range
  <1>5. RegsOf(line.dst) = RegAt(insn, 1)
    <2>1. RegsOf(line.dst) = RegsAt(insn, RegOps(insn) \cap {1} \cap 1..k - 1)
      BY <1>1, <1>2 DEF OperandsRead, DstsRead
    <2>2. RegOps(insn) \cap {1} \cap 1..k - 1 = RegOps(insn) \cap {1}
      BY DoneOperands
    <2>3. RegOps(insn) \cap {1} = {1}
      BY <1>3, <1>4
    <2> QED BY <2>1, <2>2, <2>3, RegsAtOne
  <1>6. Writes(line) = RegAt(insn, 1) /\ ArchWrites(insn) = RegAt(insn, 1)
    BY <1>2, <1>4, <1>5, RegsAtOne
  <1>7. line.mem_read = insn.addr /\ line.mem_read2 = None
    BY DoneAddresses
  <1>8. insn.addr # None /\ Element(insn, 1) = insn.addr
    BY <1>1, Elements
  <1>9. ASSUME NEW y \in RegAt(insn, 1)
        PROVE  WrittenFrom(line, y) = ArchSources(insn, y)
    <2>1. ~IsPairLoad(line)
      BY <1>7 DEF IsPairLoad
    <2>2. WrittenFrom(line, y) = AddrsOf({line.mem_read})
      BY <1>2, <2>1 DEF WrittenFrom, IsPairStore
    <2>3. {d \in DOMAIN insn.defs : y \in RegAt(insn, insn.defs[d])} = {1}
      BY <1>4
    <2>4. ArchSources(insn, y) = {Element(insn, 1)}
      BY <1>2, <2>3 DEF ArchSources
    <2> QED BY <1>7, <1>8, <2>2, <2>4 DEF AddrsOf
  <1> QED BY <1>6, <1>9, SameFlow

LEMMA PairLoadFlow ==
  ASSUME Done, insn.mnem \in PairLoads
  PROVE  From(line) = ArchFrom(insn)
  <1>1. /\ insn \in Insns /\ insn.mnem \in Followed /\ OperandsRead /\ Plain(insn)
        /\ line.dst \in Seq(Regs) /\ Len(line.dst) \in Nat
    BY DonePlain
  <1>2. insn.mnem \in Load /\ insn.mnem \in Pairs
    BY DEF Load, Pairs
  <1>3. /\ line.category = "LOAD" /\ insn.flow = "load"
        /\ Writes(line) = RegsOf(line.dst)
        /\ ArchWrites(insn) = RegsAt(insn, Range(insn.defs))
    BY <1>2, LoadOf
  <1>4. insn.defs = <<1, 2>> /\ Range(insn.defs) \subseteq RegOps(insn)
    BY <1>1, <1>2, FlowAssumption
  <1>5. /\ Range(insn.defs) = {1, 2} /\ DOMAIN insn.defs = {1, 2}
        /\ insn.defs[1] = 1 /\ insn.defs[2] = 2
    BY <1>4 DEF Range
  <1>6. k > 2
    BY <1>4, <1>5, DoneOperands
  <1>7. Len(line.dst) = 2
    BY <1>1, <1>6 DEF OperandsRead, DstsRead
  <1>8. line.dst[1] = First /\ line.dst[2] = Second
    BY <1>7 DEF Done, IInv, DstInv
  <1>9. /\ RegAt(insn, 1) = Normal({First}) /\ RegAt(insn, 2) = Normal({Second})
        /\ Normal({First}) \cap Normal({Second}) = {}
    <2>0. \A r \in {First} \ {REG_INVALID}, q \in {Second} \ {REG_INVALID} :
            Normal({r}) \cap Normal({q}) = {}
      BY <1>1, InsnAssumption DEF First, Second
    <2>1. /\ insn.ops \in Seq(Operand) /\ Len(insn.ops) >= 2
          /\ insn.ops[1].kind = "reg" /\ insn.ops[2].kind = "reg"
      BY <1>1, InsnAssumption DEF Insn
    <2>2. 1 \in 1..Len(insn.ops) /\ 2 \in 1..Len(insn.ops)
      BY <2>1
    <2>3. First # REG_INVALID /\ RegAt(insn, 1) = Normal({First})
      BY <1>1, <2>1, <2>2, NamedRegister DEF Plain, First
    <2>4. Second # REG_INVALID /\ RegAt(insn, 2) = Normal({Second})
      BY <1>1, <2>1, <2>2, NamedRegister DEF Plain, Second
    <2> QED BY <2>0, <2>3, <2>4
  <1>10. Writes(line) = RegAt(insn, 1) \cup RegAt(insn, 2)
    BY <1>1, <1>3, <1>7, <1>8, <1>9, RegsOfTwo
  <1>11. ArchWrites(insn) = RegAt(insn, 1) \cup RegAt(insn, 2)
    <2>1. {1, 2} = {1} \cup {2}
      OBVIOUS
    <2>2. RegsAt(insn, {1, 2}) = RegsAt(insn, {1}) \cup RegAt(insn, 2)
      BY <2>1, RegsAtMore
    <2> QED BY <1>3, <1>5, <2>2, RegsAtOne
  <1>12. line.mem_read = insn.addr /\ line.mem_read2 = Element(insn, 2)
    BY <1>2, DoneAddresses
  <1>13. insn.addr # None /\ Element(insn, 1) = insn.addr /\ Element(insn, 2) # None
    BY <1>1, <1>2, Elements, DoneAddresses
  <1>14. IsPairLoad(line)
    BY <1>3, <1>7, <1>12, <1>13 DEF IsPairLoad
  <1>15. ASSUME NEW y \in RegAt(insn, 1) \cup RegAt(insn, 2)
         PROVE  WrittenFrom(line, y) = ArchSources(insn, y)
    <2> DEFINE n == IF y \in RegAt(insn, 1) THEN 1 ELSE 2
    <2>1. WrittenFrom(line, y) =
            AddrsOf({IF y \in Normal({line.dst[1]}) THEN line.mem_read ELSE line.mem_read2})
      BY <1>3, <1>14 DEF WrittenFrom, IsPairStore
    <2>2. WrittenFrom(line, y) = {Element(insn, n)}
      BY <1>8, <1>9, <1>12, <1>13, <2>1 DEF AddrsOf
    <2>3. {d \in DOMAIN insn.defs : y \in RegAt(insn, insn.defs[d])} = {n}
      BY <1>5, <1>9
    <2> HIDE DEF n
    <2>4. ArchSources(insn, y) = {Element(insn, n)}
      BY <1>3, <2>3 DEF ArchSources
    <2> QED BY <2>2, <2>4
  <1> QED BY <1>10, <1>11, <1>15, SameFlow

LEMMA SingleStoreFlow ==
  ASSUME Done, insn.mnem \in Store \ {"stp"}
  PROVE  From(line) = ArchFrom(insn)
  <1>1. insn \in Insns /\ insn.mnem \in Followed
    BY DonePlain
  <1>2. /\ line.category = "STORE" /\ insn.flow = "store"
        /\ Writes(line) = AddrsOf({line.mem_write, line.mem_write2})
        /\ ArchWrites(insn) = {Element(insn, n) : n \in DOMAIN insn.uses}
        /\ line.src[1] = First /\ Len(line.src) >= 1
        /\ RegAt(insn, 1) = Normal({First})
    BY StoreOf
  <1>3. insn.uses = <<1>>
    BY <1>1, FlowAssumption
  <1>4. DOMAIN insn.uses = {1} /\ insn.uses[1] = 1
    BY <1>3
  <1>5. line.mem_write = insn.addr /\ line.mem_write2 = None
    BY DoneAddresses
  <1>6. insn.addr # None /\ Element(insn, 1) = insn.addr
    BY <1>1, Elements
  <1>7. Writes(line) = {insn.addr} /\ ArchWrites(insn) = {insn.addr}
    BY <1>2, <1>4, <1>5, <1>6 DEF AddrsOf
  <1>8. WrittenFrom(line, insn.addr) = ArchSources(insn, insn.addr)
    <2>1. ~IsPairStore(line) /\ ~IsPairLoad(line)
      BY <1>2, <1>5 DEF IsPairStore, IsPairLoad
    <2>2. WrittenFrom(line, insn.addr) = FirstSrc(line)
      BY <1>2, <2>1 DEF WrittenFrom
    <2>3. FirstSrc(line) = Normal({First})
      BY <1>2 DEF FirstSrc
    <2>4. {u \in DOMAIN insn.uses : insn.addr = Element(insn, u)} = {1}
      BY <1>4, <1>6
    <2>5. ArchSources(insn, insn.addr) = RegAt(insn, 1)
      BY <1>2, <1>4, <2>4 DEF ArchSources
    <2> QED BY <1>2, <2>2, <2>3, <2>5
  <1> QED BY <1>7, <1>8, SameFlow

LEMMA PairStoreFlow ==
  ASSUME Done, insn.mnem = "stp"
  PROVE  From(line) = ArchFrom(insn)
  <1>1. /\ insn \in Insns /\ insn.mnem \in Followed /\ OperandsRead /\ Plain(insn)
        /\ Len(line.src) \in Nat
    BY DonePlain
  <1>2. insn.mnem \in Store /\ insn.mnem \in Pairs
    BY DEF Store, Pairs
  <1>3. /\ line.category = "STORE" /\ insn.flow = "store"
        /\ Writes(line) = AddrsOf({line.mem_write, line.mem_write2})
        /\ ArchWrites(insn) = {Element(insn, n) : n \in DOMAIN insn.uses}
        /\ line.src[1] = First
        /\ RegAt(insn, 1) = Normal({First})
    BY <1>2, StoreOf
  <1>4. insn.uses = <<1, 2>> /\ Range(insn.uses) \subseteq RegOps(insn)
    BY <1>1, <1>2, FlowAssumption
  <1>5. /\ DOMAIN insn.uses = {1, 2} /\ insn.uses[1] = 1 /\ insn.uses[2] = 2
        /\ 2 \in Range(insn.uses)
    BY <1>4 DEF Range
  <1>6. k > 2
    BY <1>4, <1>5, DoneOperands
  <1>7. Len(line.src) >= 2 /\ line.src[2] = Second
    BY <1>1, <1>6 DEF OperandsRead, StoredRead
  <1>8. RegAt(insn, 2) = Normal({Second})
    <2>1. insn.ops \in Seq(Operand) /\ Len(insn.ops) >= 2 /\ insn.ops[2].kind = "reg"
      BY <1>1, InsnAssumption DEF Insn
    <2>2. 2 \in 1..Len(insn.ops)
      BY <2>1
    <2> QED BY <1>1, <2>1, <2>2, NamedRegister DEF Plain, Second
  <1>9. line.mem_write = insn.addr /\ line.mem_write2 = Element(insn, 2)
    BY <1>2, DoneAddresses
  <1>10. /\ insn.addr # None /\ Element(insn, 1) = insn.addr
         /\ Element(insn, 2) # None /\ Element(insn, 2) # insn.addr
    BY <1>1, <1>2, Elements, DoneAddresses
  <1>11. /\ Writes(line) = {insn.addr, Element(insn, 2)}
         /\ ArchWrites(insn) = {insn.addr, Element(insn, 2)}
    BY <1>3, <1>5, <1>9, <1>10 DEF AddrsOf
  <1>12. IsPairStore(line) /\ ~IsPairLoad(line)
    BY <1>3, <1>7, <1>9, <1>10 DEF IsPairStore, IsPairLoad
  <1>13. \A y : WrittenFrom(line, y) =
                  Normal({IF y = line.mem_write THEN line.src[1] ELSE line.src[2]})
    BY <1>3, <1>12 DEF WrittenFrom
  <1>14. ASSUME NEW y, NEW n \in {1, 2}, y = Element(insn, n)
         PROVE  ArchSources(insn, y) = RegAt(insn, n)
    <2>1. {u \in DOMAIN insn.uses : y = Element(insn, u)} = {n}
      BY <1>5, <1>10, <1>14
    <2>2. insn.uses[n] = n
      BY <1>5
    <2> QED BY <1>3, <2>1, <2>2 DEF ArchSources
  <1>15. WrittenFrom(line, insn.addr) = ArchSources(insn, insn.addr)
    BY <1>3, <1>9, <1>10, <1>13, <1>14
  <1>16. WrittenFrom(line, Element(insn, 2)) = ArchSources(insn, Element(insn, 2))
    <2>1. WrittenFrom(line, Element(insn, 2)) = Normal({Second})
      BY <1>7, <1>9, <1>10, <1>13
    <2>2. ArchSources(insn, Element(insn, 2)) = RegAt(insn, 2)
      BY <1>14
    <2> QED BY <1>8, <2>1, <2>2
  <1> QED BY <1>11, <1>15, <1>16, SameFlow

(* Outside the gaps the parsed line moves taint exactly as the executed     *)
(* instruction moves data: for every instruction whose operands the         *)
(* architecture uses as FlowAssumption says, every register in its role,    *)
(* each half of a pair at its address, the flags where they are set.        *)
THEOREM ParserFollowsInstructions == Spec => []FlowExact
  <1>1. ASSUME IInv, FlowInv PROVE FlowExact
    <2> SUFFICES ASSUME pc = "done", ~Gap(insn) PROVE From(line) = ArchFrom(insn)
      BY DEF FlowExact
    <2>1. Done
      BY <1>1 DEF Done
    <2> QED
      BY <2>1, BranchFlow, PartialFlow, ComputeFlow, SingleLoadFlow, PairLoadFlow,
         SingleStoreFlow, PairStoreFlow
  <1> QED BY <1>1, FlowHolds, PTL
-----------------------------------------------------------------------------
(* From the executed instruction to the taint: forward, the engine taints   *)
(* what the instruction computes from tainted data; backward, what it       *)
(* computes tainted data from.  Memory that an instruction of no known      *)
(* category writes would stay tainted backward; outside the gaps there is   *)
(* none.                                                                    *)
TaintFollowsInstruction ==
  pc = "done" /\ ~Gap(insn) =>
    \A T \in SUBSET Locs :
      /\ propagate_forward(line, T) = {y \in Locs : ArchFrom(insn)[y] \cap T # {}}
      /\ propagate_backward(line, T) = {x \in Locs : \E y \in T : x \in ArchFrom(insn)[y]}

LEMMA DoneWrites ==
  ASSUME Done, line.category = "OTHER"
  PROVE  line.mem_write = None
  <1>1. insn \in Insns /\ insn.mnem \in Mnemonics /\ line.category = classify_mnemonic(insn.mnem)
    BY DonePlain
  <1>2. insn.mnem \notin Branch \cup Load \cup Store
    BY <1>1, Categorised
  <1> QED BY <1>2, DoneAddresses

(* Parser and engine together: what happens to the taint at a line of the   *)
(* trace is what the instruction behind it did to the data, in either       *)
(* direction and for every set of tainted registers and addresses.          *)
THEOREM TaintFollowsInstructions == Spec => []TaintFollowsInstruction
  <1>1. ASSUME IInv, FlowInv, WellFormed(line), FlowExact, pc = "done", ~Gap(insn),
               NEW T \in SUBSET Locs
        PROVE  /\ propagate_forward(line, T) = {y \in Locs : ArchFrom(insn)[y] \cap T # {}}
               /\ propagate_backward(line, T) =
                    {x \in Locs : \E y \in T : x \in ArchFrom(insn)[y]}
    <2>1. line \in LineType /\ From(line) = ArchFrom(insn)
      BY <1>1 DEF IInv, TypeOK, FlowExact
    <2>2. propagate_forward(line, T) = Image(From(line), T)
      BY <1>1, <2>1, ForwardExact
    <2>3. propagate_backward(line, T) = Image(Into(line), T)
      BY <1>1, <2>1, BackwardExact
    <2>4. line.category = "OTHER" => {l \in Locs : l = line.mem_write} = {}
      BY <1>1, DoneWrites, LocAssumption DEF Done
    <2>5. \A x \in Locs, y \in Locs : y \in Into(line)[x] <=> x \in From(line)[y]
      BY <2>4 DEF Into
    <2>6. \A x \in Locs : Into(line)[x] \cap T # {} <=> \E y \in T : x \in From(line)[y]
      BY <2>5
    <2>7. Image(Into(line), T) = {x \in Locs : \E y \in T : x \in From(line)[y]}
      BY <2>6 DEF Image
    <2> QED BY <2>1, <2>2, <2>3, <2>7 DEF Image
  <1>2. IInv /\ FlowInv /\ ParsedWellFormed /\ FlowExact => TaintFollowsInstruction
    BY <1>1 DEF ParsedWellFormed, TaintFollowsInstruction
  <1> QED BY <1>2, FlowHolds, ParserMakesLines, ParserFollowsInstructions, PTL
=============================================================================
