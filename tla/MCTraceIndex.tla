---------------------------- MODULE MCTraceIndex ----------------------------
(* Files of up to four lines: empty ones, lines that just fit the buffer    *)
(* and lines whose newline is read on its own.                              *)
EXTENDS TraceIndex

MCSizes == {1, 4, 5}   \* CHUNK is 4

MCArgs ==
  {[mode |-> m, line |-> l, offset |-> -1, addr |-> None] : m \in Modes, l \in 0..6} \cup
  {[mode |-> m, line |-> -1, offset |-> p, addr |-> None] : m \in Modes, p \in 0..10} \cup
  {[mode |-> m, line |-> l, offset |-> -1, addr |-> r] : m \in Modes, l \in {-1, 2}, r \in RelAddrs} \cup
  {[mode |-> "FORWARD", line |-> 3, offset |-> 1, addr |-> None]}

(* A line of one byte is empty, only instructions have addresses. *)
RECURSIVE FilesOf(_)
FilesOf(k) ==
  IF k = 0 THEN {<<>>}
  ELSE LET shorter == FilesOf(k - 1)
           end(f) == IF f = <<>> THEN 0 ELSE f[Len(f)].at + f[Len(f)].size
       IN  shorter \cup
           {Append(f, [at |-> end(f), size |-> s, insn |-> i, rel |-> r]) :
              f \in {g \in shorter : Len(g) = k - 1},
              s \in MCSizes, i \in BOOLEAN, r \in RelAddrs}

MCFiles ==
  {f \in FilesOf(MaxLines) :
     \A m \in DOMAIN f : (~f[m].insn => f[m].rel = "r0") /\ (f[m].insn => f[m].size > 1)}

MCSpec == Start(MCFiles, MCArgs) /\ [][Next]_vars /\ WF_vars(Next)
=============================================================================
