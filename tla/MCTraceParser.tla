--------------------------- MODULE MCTraceParser ---------------------------
(* Every mnemonic in the operand forms it has, over registers 0 and 1 of    *)
(* each letter, the zero registers and wsp.                                 *)
EXTENDS TraceParser

MCTexts == ({"x", "w", "d", "s", "q", "h", "b", "v"} \X {0, 1}) \cup
  ({"xzr", "wzr", "sp", "wsp", "nzcv"} \X {0})
XZR == <<"xzr", 0>>
NZCV == <<"nzcv", 0>>
MCRegs == ({"x", "d", "s", "q"} \X {0, 1}) \cup {XZR, NZCV, <<"sp", 0>>}
MCnormalize == [r \in MCRegs |-> IF r[1] \in {"d", "s"} THEN <<"q", r[2]>> ELSE r]
MCAddrs == {"mem"} \X {0, 4, 8, 16}

R(letter, n) == [kind |-> "reg", regs |-> <<<<letter, n>>>>]
Mem(ts) == [kind |-> "mem", regs |-> ts]
Other(kind) == [kind |-> kind, regs |-> <<>>]
Xs == {R("x", 0), R("x", 1), R("w", 0), R("xzr", 0)}
Vs == {R(c, 0) : c \in {"d", "s", "q", "h", "b", "v"}} \cup {R("v", 1)}
Base == Mem(<<<<"x", 1>>>>)
Brackets == {Base, Mem(<<<<"sp", 0>>>>), Mem(<<<<"x", 1>>, <<"w", 0>>>>)}

I(m, ops, access, flow, defs, uses) ==
  [mnem |-> m, ops |-> ops, access |-> access, addr |-> <<"mem", 0>>, flow |-> flow,
   defs |-> defs, uses |-> uses, flags |-> m \in FlagSetters, size |-> 8]

Three(ms, rs) == {I(m, <<d, a, b>>, "none", "compute", <<1>>, <<2, 3>>) :
  m \in ms, d \in rs, a \in rs, b \in rs}
Shifted(ms, rs) == {I(m, <<a, a, b, Other("mod")>>, "none", "compute", <<1>>, <<2, 3>>) :
  m \in ms, a \in rs, b \in rs}
Two(ms, rs) == {I(m, <<d, a>>, "none", "compute", <<1>>, <<2>>) : m \in ms, d \in rs, a \in rs}
Const(ms, rs) == {I(m, <<d, Other("imm")>>, "none", "compute", <<1>>, <<>>) : m \in ms, d \in rs}

Computing ==
  Three({"add", "adds", "madd", "and", "bics", "orr", "lsl", "extr"}, Xs) \cup
  Shifted(Arithmetic \cup Logic, Xs) \cup
  Three({"fadd"}, {R("d", 0), R("s", 1), R("v", 0)}) \cup
  Two(DataMove \cup ShiftExt \cup {"ubfx", "sbfm", "cnt"}, Xs) \cup
  Two({"fmov", "scvtf", "fcvt"}, Vs \cup Xs) \cup
  Const(ImmLoad \cup {"mov", "cset"}, Xs) \cup
  {I("movk", <<d, Other("imm"), Other("mod")>>, "none", "compute", <<1>>, <<1>>) : d \in Xs} \cup
  {I(m, <<d, a, Other("imm"), Other("imm")>>, "none", "compute", <<1>>, <<2>>) :
     m \in {"ubfiz", "sbfx"}, d \in Xs, a \in Xs} \cup
  {I(m, <<d, a, Other("imm"), Other("imm")>>, "none", "compute", <<1>>, <<1, 2>>) :
     m \in KeepsPart, d \in Xs, a \in Xs} \cup
  {I(m, <<d, a, b, Other("word")>>, "none", "compute", <<1>>, <<2, 3>>) :
     m \in CondSelect, d \in Xs, a \in Xs, b \in Xs} \cup
  {I(m, <<a, b>>, "none", "compute", <<>>, <<1, 2>>) : m \in Compare, a \in Xs, b \in Xs} \cup
  {I("mrs", <<R("x", 0), R("nzcv", 0)>>, "none", "compute", <<1>>, <<2>>),
   I("msr", <<R("nzcv", 0), R("x", 1)>>, "none", "compute", <<1>>, <<2>>),
   I("umov", <<R("x", 0), [kind |-> "lane", regs |-> <<<<"v", 0>>>>]>>, "none", "compute",
     <<1>>, <<2>>),
   I("mov", <<R("w", 0), R("wsp", 0)>>, "none", "compute", <<1>>, <<2>>)}

Singles == (Load \ (PairLoads \cup OtherPairs)) \cup OtherLoads
Loading ==
  {I(m, <<d, b>>, a, "load", <<1>>, <<>>) :
     m \in Singles, d \in Xs \cup Vs, b \in Brackets, a \in {"r", "rw"}} \cup
  {I("ldr", <<d, Base, Other("imm")>>, "rw", "load", <<1>>, <<>>) : d \in Xs} \cup
  {I("ldr", <<d, Other("imm")>>, "none", "load", <<1>>, <<>>) : d \in Xs \cup Vs}

Storing ==
  {I(m, <<s, b>>, a, "store", <<>>, <<1>>) :
     m \in (Store \ ({"stp"} \cup ExclusiveStores)) \cup OtherStores,
     s \in Xs \cup Vs, b \in Brackets, a \in {"w", "rw"}} \cup
  {I(m, <<R("w", 0), s, Base>>, "w", "store", <<>>, <<2>>) : m \in ExclusiveStores, s \in Xs}

Pairing ==
  {[I(m, <<p[1], p[2], b>>, a, "load", <<1, 2>>, <<>>) EXCEPT !.size = p[3]] :
     m \in PairLoads \cup OtherPairs, a \in {"r", "rw", "none"}, b \in Brackets,
     p \in {<<R("x", 0), R("x", 1), 8>>, <<R("x", 0), R("x", 1), 4>>,
            <<R("w", 0), R("w", 1), 4>>, <<R("x", 1), R("xzr", 0), 8>>,
            <<R("wzr", 0), R("w", 1), 4>>, <<R("d", 0), R("d", 1), 8>>,
            <<R("q", 0), R("q", 1), 16>>, <<R("s", 0), R("s", 1), 4>>}} \cup
  {[I("stp", <<p[1], p[2], b>>, a, "store", <<>>, <<1, 2>>) EXCEPT !.size = p[3]] :
     a \in {"w", "rw", "none"}, b \in Brackets,
     p \in {<<R("x", 0), R("x", 1), 8>>, <<R("x", 1), R("x", 1), 8>>,
            <<R("w", 0), R("wzr", 0), 4>>, <<R("xzr", 0), R("xzr", 0), 8>>,
            <<R("d", 0), R("d", 1), 8>>, <<R("q", 0), R("q", 1), 16>>}}

Moving ==
  {I(m, ops, "none", "none", <<>>, <<>>) :
     m \in Branch \ {"prfm", "prfum"},
     ops \in {<<>>, <<Other("imm")>>, <<R("x", 0)>>, <<R("x", 0), R("x", 1)>>,
              <<R("w", 1), Other("imm"), Other("word")>>}} \cup
  {I(m, <<Other("word"), b>>, "r", "none", <<>>, <<>>) : m \in {"prfm", "prfum"}, b \in Brackets} \cup
  {I("swp", <<R("x", 0), R("x", 1), Base>>, "rw", "none", <<>>, <<>>),
   I("blraa", <<R("x", 0), R("x", 1)>>, "none", "none", <<>>, <<>>),
   I("st1", <<Other("word"), Base, R("x", 0)>>, "w", "store", <<>>, <<>>)}

MCInsns == Computing \cup Loading \cup Storing \cup Pairing \cup Moving
=============================================================================
