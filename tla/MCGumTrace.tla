---------------------------- MODULE MCGumTrace -----------------------------
(* Small instances of GumTrace: buffer and flush limits of a few tokens, so *)
(* that every way the buffer is written out happens within a few steps.     *)
EXTENDS GumTrace

Insn(w, c) == [writes |-> w, call |-> c]

MCInsns == {Insn(0, "none"), Insn(2, "none"), Insn(1, "func"), Insn(0, "jni")}
MCFewInsns == {Insn(1, "none"), Insn(1, "func")}
MCModes == {"Stand", "DEBUG"}
MCFlushLimit == [m \in MCModes |-> IF m = "DEBUG" THEN 1 ELSE 3]
=============================================================================
