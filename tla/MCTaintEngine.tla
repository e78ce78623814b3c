--------------------------- MODULE MCTaintEngine ---------------------------
(* Traces of three lines over two general registers, a SIMD register with   *)
(* its d-alias, and two adjacent memory slots.                              *)
EXTENDS TaintEngine

MCRegs == {"x0", "x1", "d0", "q0", "xzr", "nzcv"}
MCnormalize == [r \in MCRegs |-> IF r = "d0" THEN "q0" ELSE r]
MCAddrs == {"m0", "m8"}

Line(category, dst, src) ==
  [category |-> category, dst |-> dst, src |-> src, sets_flags |-> FALSE,
   mem_read |-> None, mem_read2 |-> None, mem_write |-> None, mem_write2 |-> None]

MCLines == {
  Line("IMM_LOAD", <<"x0">>, <<>>),                                      \* movz x0
  Line("PARTIAL_MODIFY", <<"x1">>, <<>>),                                \* movk x1
  Line("DATA_MOVE", <<"d0">>, <<"x1">>),                                 \* fmov d0, x1
  Line("DATA_MOVE", <<"x1">>, <<"xzr">>),                                \* mov x1, xzr
  [Line("ARITHMETIC", <<"x0">>, <<"x0", "x1">>) EXCEPT !.sets_flags = TRUE],
  Line("COND_SELECT", <<"x1">>, <<"x0", "xzr">>),                        \* csel
  [Line("LOAD", <<"x0">>, <<"x1">>) EXCEPT !.mem_read = "m0"],           \* ldr x0, [x1]
  [Line("LOAD", <<"x0", "x1">>, <<"x0">>) EXCEPT
     !.mem_read = "m0", !.mem_read2 = "m8"],                             \* ldp x0, x1, [x0]
  [Line("LOAD", <<"x0">>, <<"x1", "x0">>) EXCEPT
     !.mem_read = "m0", !.mem_read2 = "m8"],                             \* ldnp x0, x1, [x0]
  [Line("STORE", <<>>, <<"q0", "x1">>) EXCEPT !.mem_write = "m0"],       \* str q0, [x1]
  [Line("STORE", <<>>, <<"xzr", "x0", "x1">>) EXCEPT
     !.mem_write = "m0", !.mem_write2 = "m8"],                           \* stp xzr, x0, [x1]
  [Line("COMPARE", <<>>, <<"x0">>) EXCEPT !.sets_flags = TRUE],          \* cmp x0, #1
  Line("BRANCH", <<>>, <<"x1">>),                                        \* cbz x1
  [Line("BRANCH", <<>>, <<>>) EXCEPT !.mem_read = "m0"],                 \* prfm [x1]
  [Line("OTHER", <<"x0">>, <<"x1", "x0">>) EXCEPT !.mem_write = "m8"]}   \* swp x0, x1, [x0]
=============================================================================
