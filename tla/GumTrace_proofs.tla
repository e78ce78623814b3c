--------------------------- MODULE GumTrace_proofs ---------------------------
(***************************************************************************)
(* What holds of GumTrace for every buffer size, instruction set, mode     *)
(* table and number of sessions.                                           *)
(*                                                                         *)
(* Local and remote tracing, racing flushers or not: the type invariant,   *)
(* the memory bounds and the ownership of what waits to be printed.        *)
(*                                                                         *)
(* Local and remote, where the operations on the stream do not overlap:    *)
(* until unrun writes, the log holds the records of the session's          *)
(* instructions, once each and in order.                                   *)
(*                                                                         *)
(* For a thread that traces itself, where they do not overlap: the log     *)
(* implements TraceLog and is the execution also after unrun, which saves  *)
(* every line; what comes from the session before stands at its head; and  *)
(* the lines not yet in the file are bounded by the flush limit.           *)
(***************************************************************************)
EXTENDS GumTrace, SequenceTheorems, FiniteSetTheorems, WellFoundedInduction, TLAPS

(* FlattenSeq is recursive: what it does to a longer sequence follows from  *)
(* the sequences that satisfy its recursion, by a least counterexample.     *)
LEMMA Least ==
  ASSUME NEW K \in SUBSET Nat, K # {}
  PROVE  \E x \in K : \A y \in K : x <= y
  <1>1. PICK x \in K : \A y \in K : ~(<<y, x>> \in OpToRel(<, Nat))
    BY NatLessThanWellFounded, WFMin
  <1>2. ASSUME NEW y \in K PROVE x <= y
    <2>1. x \in Nat /\ y \in Nat
      OBVIOUS
    <2>2. <<y, x>> \in Nat \X Nat /\ <<y, x>>[1] = y /\ <<y, x>>[2] = x
      BY <2>1
    <2>3. y < x => <<y, x>> \in OpToRel(<, Nat)
      BY <2>2, Zenon DEF OpToRel
    <2>4. ~(y < x)
      BY <1>1, <2>3
    <2> QED BY <2>1, <2>4
  <1> QED BY <1>2

(* f joins the first m sequences of ss. *)
Joins(f, m, ss) == f = [i \in 1..m |-> IF i = 1 THEN ss[i] ELSE f[i - 1] \o ss[i]]

LEMMA JoinsAll ==
  ASSUME NEW T, NEW ss \in Seq(Seq(T))
  PROVE  \A m \in 0..Len(ss) : \E f : Joins(f, m, ss)
  <1> DEFINE K == {m \in 0..Len(ss) : ~\E f : Joins(f, m, ss)}
  <1> SUFFICES ASSUME K # {} PROVE FALSE
    OBVIOUS
  <1>1. K \in SUBSET Nat
    OBVIOUS
  <1>2. PICK m \in K : \A y \in K : m <= y
    <2> HIDE DEF K
    <2> QED BY <1>1, Least
  <1>3. m # 0
    <2>1. Joins(<<>>, 0, ss)
      <3>1. 1..0 = {}
        OBVIOUS
      <3> QED BY <3>1 DEF Joins
    <2>2. \E f : Joins(f, 0, ss)
      BY <2>1
    <2>3. ~\E f : Joins(f, m, ss)
      BY <1>2
    <2> QED BY <2>2, <2>3, Zenon
  <1>4. m - 1 \in 0..Len(ss) /\ m - 1 \notin K
    <2>1. m \in 0..Len(ss) /\ Len(ss) \in Nat
      BY <1>2
    <2>2. m - 1 \in 0..Len(ss) /\ ~(m <= m - 1)
      BY <1>3, <2>1
    <2> HIDE DEF K
    <2> QED BY <1>2, <2>2
  <1>5. PICK f : Joins(f, m - 1, ss)
    BY <1>4
  <1> DEFINE last == IF m = 1 THEN ss[m] ELSE f[m - 1] \o ss[m]
             g == [i \in 1..m |-> IF i = m THEN last ELSE f[i]]
  <1>6. m \in Nat /\ m >= 1
    BY <1>1, <1>2, <1>3
  <1>7. \A i \in 1..m : g[i] = IF i = 1 THEN ss[i] ELSE g[i - 1] \o ss[i]
    <2> TAKE i \in 1..m
    <2>1. CASE i = m
      <3>1. m # 1 => m - 1 \in 1..m /\ m - 1 # m
        BY <1>6
      <3>2. m # 1 => g[m - 1] = f[m - 1]
        BY <3>1
      <3> QED BY <1>6, <2>1, <3>2
    <2>2. CASE i # m
      <3>1. i \in 1..m - 1 /\ g[i] = f[i]
        BY <1>6, <2>2
      <3>2. f[i] = IF i = 1 THEN ss[i] ELSE f[i - 1] \o ss[i]
        BY <1>5, <3>1, Zenon DEF Joins
      <3>3. i # 1 => i - 1 \in 1..m /\ i - 1 # m
        BY <1>6, <3>1
      <3>4. i # 1 => g[i - 1] = f[i - 1]
        BY <3>3
      <3> HIDE DEF g
      <3> QED BY <3>1, <3>2, <3>4
    <2> QED BY <2>1, <2>2
  <1>8. Joins(g, m, ss)
    <2>1. g = [i \in 1..m |-> g[i]]
      OBVIOUS
    <2> HIDE DEF g
    <2> QED BY <1>7, <2>1, Zenon DEF Joins
  <1> QED BY <1>2, <1>8

SameFront(m, f, g) == \A i \in 1..m : f[i] = g[i]

LEMMA JoinsAgree ==
  ASSUME NEW ss, NEW tt, NEW m \in Nat, NEW k \in Nat, NEW f, NEW g,
         Joins(f, m, ss), Joins(g, k, tt), m <= k, SameFront(m, ss, tt)
  PROVE  SameFront(m, f, g)
  <1> DEFINE K == {i \in 1..m : f[i] # g[i]}
  <1> SUFFICES ASSUME K # {} PROVE FALSE
    BY DEF SameFront
  <1>1. K \in SUBSET Nat
    OBVIOUS
  <1>2. PICK i \in K : \A y \in K : i <= y
    <2> HIDE DEF K
    <2> QED BY <1>1, Least
  <1>3. i \in 1..m /\ i \in 1..k /\ f[i] # g[i]
    BY <1>2
  <1>4. f[i] = IF i = 1 THEN ss[i] ELSE f[i - 1] \o ss[i]
    BY <1>3, Zenon DEF Joins
  <1>5. g[i] = IF i = 1 THEN tt[i] ELSE g[i - 1] \o tt[i]
    BY <1>3, Zenon DEF Joins
  <1>6. i # 1 => f[i - 1] = g[i - 1]
    <2> SUFFICES ASSUME i # 1 PROVE f[i - 1] = g[i - 1]
      OBVIOUS
    <2>1. i - 1 \in 1..m /\ ~(i <= i - 1)
      BY <1>3
    <2>2. i - 1 \notin K
      BY <1>2, <2>1
    <2> QED BY <2>1, <2>2
  <1> QED BY <1>3, <1>4, <1>5, <1>6 DEF SameFront

LEMMA FlattenBy ==
  ASSUME NEW T, NEW ss \in Seq(Seq(T)), NEW f, Joins(f, Len(ss), ss), Len(ss) > 0
  PROVE  FlattenSeq(ss) = f[Len(ss)]
  <1>1. Len(ss) \in Nat \ {0} /\ Len(ss) # 0
    OBVIOUS
  <1> DEFINE c == CHOOSE g : Joins(g, Len(ss), ss)
  <1>2. Joins(c, Len(ss), ss)
    <2> HIDE DEF Joins
    <2> QED OBVIOUS
  <1>3. FlattenSeq(ss) = c[Len(ss)]
    BY <1>1, Zenon DEF FlattenSeq, Joins
  <1> HIDE DEF c
  <1>4. c[Len(ss)] = f[Len(ss)]
    <2>1. SameFront(Len(ss), ss, ss)
      BY DEF SameFront
    <2>2. SameFront(Len(ss), c, f)
      BY <1>1, <1>2, <2>1, JoinsAgree
    <2>3. Len(ss) \in 1..Len(ss)
      BY <1>1
    <2> QED BY <2>2, <2>3, Zenon DEF SameFront
  <1> QED BY <1>3, <1>4

LEMMA FlattenEmpty == \A ss : Len(ss) = 0 => FlattenSeq(ss) = ss
  BY DEF FlattenSeq

LEMMA FlattenType ==
  ASSUME NEW T, NEW ss \in Seq(Seq(T))
  PROVE  FlattenSeq(ss) \in Seq(T)
  <1>0. Len(ss) \in Nat /\ \A i \in 1..Len(ss) : ss[i] \in Seq(T)
    OBVIOUS
  <1>1. CASE Len(ss) = 0
    <2>1. FlattenSeq(ss) = <<>>
      BY <1>1, FlattenEmpty, EmptySeq
    <2> QED BY <2>1
  <1>2. CASE Len(ss) > 0
    <2>1. PICK f : Joins(f, Len(ss), ss)
      BY <1>0, JoinsAll
    <2> DEFINE K == {i \in 1..Len(ss) : f[i] \notin Seq(T)}
    <2>2. K = {}
      <3> SUFFICES ASSUME K # {} PROVE FALSE
        OBVIOUS
      <3>1. K \in SUBSET Nat
        OBVIOUS
      <3>2. PICK i \in K : \A y \in K : i <= y
        <4> HIDE DEF K
        <4> QED BY <3>1, Least
      <3>3. i \in 1..Len(ss) /\ ss[i] \in Seq(T)
        BY <1>0, <3>2
      <3>4. f[i] = IF i = 1 THEN ss[i] ELSE f[i - 1] \o ss[i]
        BY <2>1, <3>3, Zenon DEF Joins
      <3>5. i # 1 => f[i - 1] \in Seq(T)
        <4>1. i # 1 => i - 1 \in 1..Len(ss) /\ ~(i <= i - 1)
          BY <1>0, <3>3
        <4>2. i # 1 => i - 1 \notin K
          BY <3>2, <4>1
        <4> QED BY <4>1, <4>2
      <3>6. f[i] \in Seq(T)
        BY <3>3, <3>4, <3>5, ConcatProperties
      <3> QED BY <3>2, <3>6
    <2>3. Len(ss) \in 1..Len(ss)
      BY <1>0, <1>2
    <2> QED BY <1>2, <2>1, <2>2, <2>3, FlattenBy
  <1> QED BY <1>0, <1>1, <1>2

LEMMA FlattenAppend ==
  ASSUME NEW T, NEW ss \in Seq(Seq(T)), NEW s \in Seq(T)
  PROVE  FlattenSeq(Append(ss, s)) = FlattenSeq(ss) \o s
  <1> DEFINE tt == Append(ss, s)
             n == Len(ss) + 1
  <1>1. /\ tt \in Seq(Seq(T)) /\ Len(tt) = n /\ tt[n] = s
        /\ Len(ss) \in Nat /\ n \in Nat /\ n > 0 /\ n - 1 = Len(ss)
        /\ \A i \in 1..Len(ss) : ss[i] = tt[i]
    OBVIOUS
  <1> HIDE DEF tt
  <1>2. PICK g : Joins(g, n, tt)
    BY <1>1, JoinsAll
  <1>3. FlattenSeq(tt) = g[n]
    BY <1>1, <1>2, FlattenBy
  <1>4. g[n] = IF n = 1 THEN s ELSE g[n - 1] \o s
    <2>1. n \in 1..n
      BY <1>1
    <2>2. g[n] = IF n = 1 THEN tt[n] ELSE g[n - 1] \o tt[n]
      BY <1>2, <2>1, Zenon DEF Joins
    <2> QED BY <1>1, <2>2
  <1>5. CASE Len(ss) = 0
    <2>1. FlattenSeq(ss) = <<>>
      BY <1>5, FlattenEmpty, EmptySeq
    <2>2. <<>> \o s = s
      OBVIOUS
    <2> QED BY <1>1, <1>3, <1>4, <1>5, <2>1, <2>2 DEF tt
  <1>6. CASE Len(ss) > 0
    <2>1. PICK f : Joins(f, Len(ss), ss)
      <3>1. Len(ss) \in 0..Len(ss)
        BY <1>1
      <3> HIDE DEF n
      <3> QED BY <3>1, JoinsAll
    <2>2. FlattenSeq(ss) = f[Len(ss)]
      <3> HIDE DEF n
      <3> QED BY <1>6, <2>1, FlattenBy
    <2>3. \A i \in 1..Len(ss) : f[i] = g[i]
      <3>1. PICK m \in Nat, k \in Nat : m = Len(ss) /\ k = n
        BY <1>1
      <3>2. /\ Joins(f, m, ss) /\ Joins(g, k, tt)
            /\ m <= k /\ SameFront(m, ss, tt)
        BY <1>1, <1>2, <2>1, <3>1 DEF SameFront
      <3>3. SameFront(m, f, g)
        BY <3>2, JoinsAgree, Zenon
      <3> QED BY <3>1, <3>3 DEF SameFront
    <2>4. g[n - 1] = FlattenSeq(ss)
      BY <1>1, <1>6, <2>2, <2>3
    <2> QED BY <1>1, <1>3, <1>4, <1>6, <2>4 DEF tt
  <1> QED BY <1>1, <1>5, <1>6

-----------------------------------------------------------------------------
USE BoundsAssumption, BufferAssumption, RegListAssumption, InsnAssumption,
    ModeAssumption, SwitchAssumption

LEMMA WrittenType ==
  ASSUME NEW s \in Seq(Tokens), NEW t \in Seq(Tokens), NEW u \in Written(s, t)
  PROVE  u \in Seq(Tokens)
  <1>1. s \o t \in Seq(Tokens)
    OBVIOUS
  <1>2. s \o t \o t \in Seq(Tokens)
    BY <1>1
  <1>3. u \in {s, s \o t, s \o t \o t}
    BY Zenon DEF Written
  <1> QED BY <1>1, <1>2, <1>3

LEMMA TokenType ==
  ASSUME NEW k \in {"line", "post", "call", "ret"}, NEW n \in Nat
  PROVE  /\ Token(k, n) \in Tokens
         /\ <<Token(k, n)>> \in Seq(Tokens)
  <1>1. Token(k, n) \in Tokens
    BY DEF Token, Tokens
  <1> QED BY <1>1

LEMMA ReturnInfoType ==
  ASSUME TypeOK
  PROVE  ReturnInfo \in Seq(Tokens)
  <1>1. last_func_context.owner \in Nat /\ last_func_context.info \in Seq(Tokens)
    BY DEF TypeOK
  <1>2. /\ Token("call", last_func_context.owner) \in Tokens
        /\ Token("ret", last_func_context.owner) \in Tokens
    BY <1>1, TokenType
  <1> QED BY <1>1, <1>2 DEF ReturnInfo

(* Every variable keeps its type. *)
LEMMA TypeStep == TypeOK /\ [Next]_vars => TypeOK'
  <1> SUFFICES ASSUME TypeOK, [Next]_vars PROVE TypeOK'
    OBVIOUS
  <1> USE DEF Controllers, TracedStates, FlusherStates, Sessions, traceVars, fileVars
  <1>0. /\ buffer \in Seq(Tokens)
        /\ stream \in Seq(Tokens)
        /\ disk \in Seq(Tokens)
        /\ <<>> \in Seq(Tokens)
    BY EmptySeq DEF TypeOK
  <1>1. ASSUME NEW m \in Modes, NEW opens \in OpenResults, InitCall(m, opens)
        PROVE TypeOK'
    BY <1>1 DEF InitCall, TypeOK
  <1>2. CASE RunCall
    BY <1>2 DEF RunCall, TypeOK
  <1>3. CASE UnrunCall
    BY <1>3 DEF UnrunCall, TypeOK
  <1>4. CASE UnfollowWrite
    <2>1. stream' \in Seq(Tokens)
      BY <1>0, <1>4, WrittenType DEF UnfollowWrite, Write
    <2> QED BY <1>4, <2>1 DEF UnfollowWrite, TypeOK
  <1>5. CASE UnfollowReset
    BY <1>5 DEF UnfollowReset, TypeOK
  <1>6. CASE UnfollowClose
    <2>1. disk' \in Seq(Tokens) /\ stream' \in Seq(Tokens)
      BY <1>0, <1>6 DEF UnfollowClose
    <2> QED BY <1>6, <2>1 DEF UnfollowClose, TypeOK
  <1>7. CASE Detach
    BY <1>7 DEF Detach, TypeOK
  <1>8. ASSUME NEW i \in Insns, CalloutEnter(i)
        PROVE TypeOK'
    <2>1. stream' \in Seq(Tokens) /\ buffer' \in Seq(Tokens)
      <3>1. \A u \in Written(stream, buffer) : u \in Seq(Tokens)
        BY <1>0, WrittenType
      <3>2. \/ stream' \in Written(stream, buffer) /\ buffer' = <<>>
            \/ stream' = stream /\ buffer' = buffer
        BY <1>8 DEF CalloutEnter, Write
      <3> QED BY <1>0, <3>1, <3>2
    <2> QED BY <1>8, <2>1 DEF CalloutEnter, TypeOK
  <1>9. CASE CalloutPost
    <2>1. ASSUME write_reg_list # <<>>
          PROVE  Token("post", Head(write_reg_list)) \in Tokens
      <3>1. Head(write_reg_list) \in Nat
        BY <2>1 DEF TypeOK
      <3> QED BY <3>1, TokenType
    <2>2. buffer' \in Seq(Tokens)
      BY <1>0, <1>9, <2>1 DEF CalloutPost
    <2> QED BY <1>9, <2>2 DEF CalloutPost, TypeOK
  <1>10. CASE CalloutRet
    <2>1. stream' \in Seq(Tokens) /\ buffer' \in Seq(Tokens)
      <3>1. \A s \in Written(stream, buffer) : s \in Seq(Tokens)
        BY <1>0, WrittenType
      <3>2. \A s \in Written(stream, buffer) :
              \A u \in Written(s, ReturnInfo) : u \in Seq(Tokens)
        BY <3>1, WrittenType, ReturnInfoType
      <3>3. \/ /\ \E s \in Written(stream, buffer) : stream' \in Written(s, ReturnInfo)
               /\ buffer' = <<>>
            \/ stream' = stream /\ buffer' = buffer
        BY <1>10 DEF CalloutRet
      <3> QED BY <1>0, <3>2, <3>3
    <2>2. last_func_context' \in
            [call : BOOLEAN, is_jni : BOOLEAN, owner : Nat, info : Seq(Tokens)]
      BY <1>10, ReturnInfoType DEF CalloutRet, CallDone, TypeOK
    <2> QED BY <1>10, <2>1, <2>2 DEF CalloutRet, TypeOK
  <1>11. CASE CalloutLine
    <2> DEFINE n == Len(hist) + 1
    <2>0. n \in Nat
      BY DEF TypeOK
    <2>1. Token("line", n) \in Tokens /\ <<Token("call", n)>> \in Seq(Tokens)
      BY <2>0, TokenType
    <2> HIDE DEF n
    <2>2. buffer' \in Seq(Tokens)
      BY <1>0, <1>11, <2>1 DEF CalloutLine, NoteCall, RegsWritten, BeforeInfo, n
    <2>3. hist' \in Seq([session : 0..MaxSessions, insn : Insns])
      BY <1>11 DEF CalloutLine, NoteCall, RegsWritten, BeforeInfo, TypeOK
    <2>4. write_reg_list' \in Seq(Nat)
      <3>1. cur.writes \in Nat /\ write_reg_list \in Seq(Nat)
        BY DEF TypeOK
      <3>2. [k \in 1..cur.writes |-> n] \in Seq(Nat)
        BY <2>0, <3>1, IsASeq
      <3>3. write_reg_list' = write_reg_list \o [k \in 1..cur.writes |-> n]
        BY <1>11 DEF CalloutLine, NoteCall, RegsWritten, BeforeInfo, n
      <3> QED BY <3>1, <3>2, <3>3, ConcatProperties
    <2>5. last_func_context' \in
            [call : BOOLEAN, is_jni : BOOLEAN, owner : Nat, info : Seq(Tokens)]
      <3>1. cur.call \in {"none", "func", "jni"}
        BY DEF TypeOK
      <3>2. last_func_context' = last_func_context \/
            \E j \in BOOLEAN, info \in {<<>>, <<Token("call", n)>>} :
              last_func_context' = [last_func_context EXCEPT
                !.call = TRUE, !.is_jni = j, !.owner = n, !.info = info]
        <4>1. CASE cur.call = "none"
          BY <1>11, <4>1 DEF CalloutLine, NoteCall, RegsWritten, BeforeInfo
        <4>2. CASE cur.call = "func"
          <5>1. last_func_context' = [last_func_context EXCEPT !.call = TRUE,
                  !.is_jni = last_func_context.is_jni, !.owner = n,
                  !.info = <<Token("call", n)>>]
            BY <1>11, <4>2 DEF CalloutLine, NoteCall, RegsWritten, BeforeInfo, TypeOK, n
          <5> QED BY <5>1 DEF TypeOK
        <4>3. CASE cur.call = "jni"
          BY <1>11, <4>3 DEF CalloutLine, NoteCall, RegsWritten, BeforeInfo, n
        <4> QED BY <3>1, <4>1, <4>2, <4>3
      <3>3. <<>> \in Seq(Tokens) /\ last_func_context \in
              [call : BOOLEAN, is_jni : BOOLEAN, owner : Nat, info : Seq(Tokens)]
        BY <1>0 DEF TypeOK
      <3>4. \A j \in BOOLEAN, info \in Seq(Tokens) :
              [last_func_context EXCEPT !.call = TRUE, !.is_jni = j, !.owner = n,
                                        !.info = info] \in
              [call : BOOLEAN, is_jni : BOOLEAN, owner : Nat, info : Seq(Tokens)]
        BY <2>0, <3>3
      <3>5. ASSUME NEW j \in BOOLEAN, NEW info \in {<<>>, <<Token("call", n)>>}
            PROVE  [last_func_context EXCEPT !.call = TRUE, !.is_jni = j, !.owner = n,
                                             !.info = info] \in
              [call : BOOLEAN, is_jni : BOOLEAN, owner : Nat, info : Seq(Tokens)]
        <4>1. info \in Seq(Tokens)
          BY <2>1, <3>3
        <4> QED BY <3>4, <4>1
      <3> QED BY <3>2, <3>3, <3>5
    <2> QED BY <1>11, <2>2, <2>3, <2>4, <2>5 DEF CalloutLine, NoteCall, RegsWritten, BeforeInfo, TypeOK
  <1>12. CASE CalloutFlush
    <2>1. disk' \in Seq(Tokens) /\ stream' \in Seq(Tokens)
      <3>1. \A s \in Written(stream, buffer) : disk \o s \in Seq(Tokens)
        BY <1>0, WrittenType
      <3>2. \/ /\ \E s \in Written(stream, buffer) : disk' = disk \o s
               /\ stream' = <<>>
            \/ stream' = stream /\ disk' = disk
        BY <1>12 DEF CalloutFlush, WriteAndFlush
      <3> QED BY <1>0, <3>1, <3>2
    <2>2. buffer' \in {<<>>, buffer} /\ trace_flush' \in {0, trace_flush + 1}
      BY <1>12 DEF CalloutFlush
    <2>3. UNCHANGED <<session, mode, cpc, stalker, fpc, cur, hist, write_reg_list,
                      last_func_context, open>> /\ tpc' = "app"
      BY <1>12 DEF CalloutFlush
    <2>4. buffer' \in Seq(Tokens)
      BY <1>0, <2>2, Zenon
    <2>5. trace_flush' \in Nat
      BY <2>2 DEF TypeOK
    <2>6. \E m \in Modes : trace_flush' <= FlushLimit[m]
      <3>1. mode \in Modes /\ FlushLimit[mode] \in Nat /\ trace_flush \in Nat
        BY DEF TypeOK
      <3>2. CASE FlushDue
        BY <1>12, <3>1, <3>2 DEF CalloutFlush
      <3>3. CASE ~FlushDue
        BY <1>12, <3>1, <3>3 DEF CalloutFlush, FlushDue
      <3> QED BY <3>2, <3>3
    <2> QED BY <2>1, <2>3, <2>4, <2>5, <2>6 DEF TypeOK
  <1>13. ASSUME NEW f \in Sessions, Flusher(f)
         PROVE TypeOK'
    <2>1. \/ disk' = disk /\ stream' = stream
          \/ disk' = disk \o stream /\ stream' = <<>>
      BY <1>13 DEF Flusher, FlusherCheck, FlusherBegin, FlusherFlush, FlusherWake
    <2>2. disk' \in Seq(Tokens) /\ stream' \in Seq(Tokens)
      <3>1. disk \o stream \in Seq(Tokens)
        BY <1>0
      <3> QED BY <1>0, <2>1, <3>1, Zenon
    <2>3. fpc' \in [Sessions -> FlusherStates]
      BY <1>13 DEF Flusher, FlusherCheck, FlusherBegin, FlusherFlush, FlusherWake, TypeOK
    <2>4. UNCHANGED <<session, mode, cpc, stalker, tpc, cur, hist, buffer,
                      write_reg_list, last_func_context, trace_flush, open>>
      BY <1>13 DEF Flusher, FlusherCheck, FlusherBegin, FlusherFlush, FlusherWake
    <2> QED BY <2>2, <2>3, <2>4 DEF TypeOK
  <1>14. CASE Spill
    <2>1. PICK k \in 1..Len(stream) :
            /\ disk' = disk \o SubSeq(stream, 1, k)
            /\ stream' = SubSeq(stream, k + 1, Len(stream))
      BY <1>14 DEF Spill
    <2>2. /\ SubSeq(stream, 1, k) \in Seq(Tokens)
          /\ SubSeq(stream, k + 1, Len(stream)) \in Seq(Tokens)
      BY <1>0, SubSeqProperties
    <2>3. disk' \in Seq(Tokens) /\ stream' \in Seq(Tokens)
      BY <1>0, <2>1, <2>2
    <2> QED BY <1>14, <2>3 DEF Spill, TypeOK
  <1>15. CASE UNCHANGED vars
    BY <1>15 DEF vars, TypeOK
  <1> QED BY <1>1, <1>2, <1>3, <1>4, <1>5, <1>6, <1>7, <1>8, <1>9, <1>10, <1>11,
             <1>12, <1>13, <1>14, <1>15 DEF Next, ControllerSteps, CalloutSteps

LEMMA InitType == Init => TypeOK
  <1> SUFFICES ASSUME Init PROVE TypeOK
    OBVIOUS
  <1>1. NoCall \in
          [call : BOOLEAN, is_jni : BOOLEAN, owner : Nat, info : Seq(Tokens)]
    BY DEF NoCall
  <1>2. /\ 0 \in 0..MaxSessions
        /\ <<>> \in Seq(Tokens)
        /\ <<>> \in Seq(Nat)
        /\ <<>> \in Seq([session : 0..MaxSessions, insn : Insns])
    BY EmptySeq
  <1>3. /\ session \in 0..MaxSessions
        /\ hist \in Seq([session : 0..MaxSessions, insn : Insns])
        /\ buffer \in Seq(Tokens)
        /\ write_reg_list \in Seq(Nat)
        /\ stream \in Seq(Tokens)
        /\ disk \in Seq(Tokens)
    BY <1>2, Zenon DEF Init
  <1>4. /\ last_func_context \in
             [call : BOOLEAN, is_jni : BOOLEAN, owner : Nat, info : Seq(Tokens)]
        /\ fpc \in [Sessions -> FlusherStates]
    BY <1>1 DEF Init, FlusherStates
  <1>5. /\ trace_flush \in Nat
        /\ \E m \in Modes : trace_flush <= FlushLimit[m]
    <2>1. mode \in Modes /\ FlushLimit[mode] \in Nat /\ trace_flush = 0
      BY DEF Init
    <2> QED BY <2>1
  <1>6. /\ mode \in Modes
        /\ cpc \in Controllers
        /\ stalker \in {"off", "on", "pending"}
        /\ tpc \in TracedStates
        /\ cur \in Insns
        /\ open \in BOOLEAN
    BY DEF Init, Controllers, TracedStates
  <1> QED BY <1>3, <1>4, <1>5, <1>6 DEF TypeOK

(* Type correctness of the tracer. *)
THEOREM TypeCorrect == Spec => []TypeOK
  BY InitType, TypeStep, PTL DEF Spec

-----------------------------------------------------------------------------
(* The memory bounds are not inductive alone: a callout appends only because *)
(* the stages before it left the margin free and emptied the register list.  *)
Inv == TypeOK /\ CalloutStages /\ MemoryBounds /\ PendingIsLast

LEMMA AppendLen ==
  ASSUME NEW S, NEW s \in Seq(S), NEW e \in S
  PROVE  Len(Append(s, e)) = Len(s) + 1
  OBVIOUS

LEMMA InvStep == Inv /\ [Next]_vars => Inv'
  <1> SUFFICES ASSUME Inv, [Next]_vars PROVE (CalloutStages /\ MemoryBounds /\ PendingIsLast)'
    BY TypeStep DEF Inv
  <1>0. TypeOK /\ CalloutStages /\ MemoryBounds /\ PendingIsLast
    BY DEF Inv
  <1>a. /\ buffer \in Seq(Tokens) /\ Len(buffer) \in Nat /\ Len(<<>>) = 0
        /\ write_reg_list \in Seq(Nat) /\ Len(write_reg_list) \in Nat
        /\ hist \in Seq([session : 0..MaxSessions, insn : Insns])
        /\ tpc \in TracedStates
    BY <1>0 DEF TypeOK
  <1>b. MARGIN \in Nat /\ MARGIN >= 2 /\ BUFFER_SIZE - MARGIN >= 0
    BY DEF CalloutTokens
  <1> USE DEF TracedStates
  <1>1. ASSUME /\ UNCHANGED traceVars
               /\ buffer' = buffer \/ buffer' = <<>>
        PROVE (CalloutStages /\ MemoryBounds /\ PendingIsLast)'
    BY <1>0, <1>1, <1>a, <1>b
       DEF traceVars, CalloutStages, MemoryBounds, PendingIsLast
  <1>2. ASSUME NEW i \in Insns, CalloutEnter(i)
        PROVE (CalloutStages /\ MemoryBounds /\ PendingIsLast)'
    <2>1. Len(buffer') <= BUFFER_SIZE - MARGIN
      BY <1>2, <1>a, <1>b DEF CalloutEnter, BufferFull
    <2>2. /\ tpc' = "post"
          /\ UNCHANGED <<hist, write_reg_list, last_func_context>>
      BY <1>2 DEF CalloutEnter
    <2>3. buffer' \in {buffer, <<>>}
      BY <1>2 DEF CalloutEnter
    <2> QED BY <1>0, <1>a, <1>b, <2>1, <2>2, <2>3
            DEF CalloutStages, MemoryBounds, PendingIsLast
  <1>3. CASE CalloutPost
    <2>1. /\ tpc = "post" /\ tpc' = "ret" /\ write_reg_list' = <<>>
          /\ UNCHANGED <<hist, last_func_context>>
      BY <1>3 DEF CalloutPost
    <2>2. Len(buffer') <= Len(buffer) + 1
      <3>1. CASE write_reg_list = <<>>
        BY <1>3, <1>a, <3>1 DEF CalloutPost
      <3>2. CASE write_reg_list # <<>>
        <4>1. Token("post", Head(write_reg_list)) \in Tokens
          BY <1>a, <3>2, TokenType
        <4> QED BY <1>3, <1>a, <3>2, <4>1, AppendLen DEF CalloutPost
      <3> QED BY <3>1, <3>2
    <2>3. Len(buffer') \in Nat
      BY <1>0, TypeStep DEF TypeOK
    <2>4. Len(buffer) <= BUFFER_SIZE - MARGIN
      BY <1>0, <2>1 DEF CalloutStages
    <2> QED BY <1>0, <1>a, <1>b, <2>1, <2>2, <2>3, <2>4
            DEF CalloutStages, MemoryBounds, PendingIsLast
  <1>4. CASE CalloutRet
    <2>1. /\ tpc = "ret" /\ tpc' = "line"
          /\ UNCHANGED <<hist, write_reg_list>>
          /\ buffer' = buffer \/ buffer' = <<>>
      BY <1>4 DEF CalloutRet
    <2>2. /\ ~last_func_context'.call
          /\ ~last_func_context'.is_jni
      BY <1>0, <1>4 DEF CalloutRet, CallDone, TypeOK, PendingIsLast
    <2> QED BY <1>0, <1>a, <1>b, <2>1, <2>2
            DEF CalloutStages, MemoryBounds, PendingIsLast
  <1>5. CASE CalloutLine
    <2>1. /\ tpc = "line" /\ tpc' = "flush" /\ write_reg_list = <<>>
          /\ ~last_func_context.call /\ ~last_func_context.is_jni
          /\ Len(buffer) <= BUFFER_SIZE - MARGIN + 1
      BY <1>0, <1>5 DEF CalloutLine, NoteCall, RegsWritten, BeforeInfo, CalloutStages, PendingIsLast
    <2>2. /\ cur.writes \in 0..REG_LIST_SIZE
          /\ cur.call \in {"none", "func", "jni"}
      BY <1>0 DEF TypeOK
    <2>3. Len(buffer') <= BUFFER_SIZE
      <3>1. Token("line", Len(hist) + 1) \in Tokens
        BY <1>a, TokenType
      <3> QED BY <1>5, <1>a, <1>b, <2>1, <3>1, AppendLen DEF CalloutLine, NoteCall, RegsWritten, BeforeInfo
    <2>4. /\ hist' = Append(hist, [session |-> session, insn |-> cur])
          /\ Len(hist') = Len(hist) + 1
          /\ hist'[Len(hist')].insn = cur
      BY <1>0, <1>5, <1>a DEF CalloutLine, NoteCall, RegsWritten, BeforeInfo, TypeOK
    <2>5. /\ Len(write_reg_list') <= REG_LIST_SIZE
          /\ \A k \in 1..Len(write_reg_list') : write_reg_list'[k] = Len(hist')
      <3>1. write_reg_list' = [k \in 1..cur.writes |-> Len(hist) + 1]
        <4>0. cur.writes \in Nat /\ Len(hist) + 1 \in Nat
          BY <1>a, <2>2
        <4>1. [k \in 1..cur.writes |-> Len(hist) + 1] \in Seq(Nat)
          BY <4>0, IsASeq
        <4>2. write_reg_list' = <<>> \o [k \in 1..cur.writes |-> Len(hist) + 1]
          BY <1>5, <2>1 DEF CalloutLine, NoteCall, RegsWritten, BeforeInfo
        <4> QED BY <4>1, <4>2, ConcatEmptySeq
      <3> QED BY <2>2, <2>4, <3>1
    <2>6. /\ last_func_context'.call =>
               /\ last_func_context'.owner = Len(hist')
               /\ last_func_context'.is_jni = (cur.call = "jni")
          /\ ~last_func_context'.call => ~last_func_context'.is_jni
      <3>1. CASE cur.call = "none"
        BY <1>5, <2>1, <3>1 DEF CalloutLine, NoteCall, RegsWritten, BeforeInfo
      <3>2. CASE cur.call = "func"
        BY <1>0, <1>5, <2>1, <2>4, <3>2 DEF CalloutLine, NoteCall, RegsWritten, BeforeInfo, TypeOK
      <3>3. CASE cur.call = "jni"
        BY <1>0, <1>5, <2>1, <2>4, <3>3 DEF CalloutLine, NoteCall, RegsWritten, BeforeInfo, TypeOK
      <3> QED BY <2>2, <3>1, <3>2, <3>3
    <2> QED BY <1>a, <2>1, <2>3, <2>4, <2>5, <2>6
            DEF CalloutStages, MemoryBounds, PendingIsLast
  <1>6. CASE CalloutFlush
    <2>1. /\ tpc' = "app"
          /\ UNCHANGED <<hist, write_reg_list, last_func_context>>
          /\ buffer' = buffer \/ buffer' = <<>>
      BY <1>6 DEF CalloutFlush
    <2> QED BY <1>0, <1>a, <1>b, <2>1 DEF CalloutStages, MemoryBounds, PendingIsLast
  <1>7. UNCHANGED vars => UNCHANGED traceVars /\ buffer' = buffer
    BY DEF vars, traceVars
  <1>8. ASSUME NEW m \in Modes, NEW opens \in OpenResults, InitCall(m, opens)
        PROVE UNCHANGED traceVars /\ buffer' = buffer
    BY <1>8 DEF InitCall, traceVars
  <1>9. RunCall \/ UnrunCall \/ Detach \/ Spill => UNCHANGED traceVars /\ buffer' = buffer
    BY DEF RunCall, UnrunCall, Detach, Spill, traceVars
  <1>10. ControllerSteps => UNCHANGED traceVars /\ (buffer' = buffer \/ buffer' = <<>>)
    BY DEF ControllerSteps, UnfollowWrite, UnfollowReset, UnfollowClose, traceVars
  <1>11. ASSUME NEW f \in Sessions, Flusher(f)
         PROVE UNCHANGED traceVars /\ buffer' = buffer
    BY <1>11 DEF Flusher, FlusherCheck, FlusherBegin, FlusherFlush, FlusherWake, traceVars
  <1> QED BY <1>1, <1>2, <1>3, <1>4, <1>5, <1>6, <1>7, <1>8, <1>9, <1>10, <1>11
          DEF Next, CalloutSteps

LEMMA InvHolds == Spec => []Inv
  <1>1. Init => Inv
    <2>1. Init => TypeOK
      BY InitType
    <2>2. Init => CalloutStages /\ MemoryBounds /\ PendingIsLast
      BY DEF Init, CalloutStages, MemoryBounds, PendingIsLast, NoCall
    <2> QED BY <2>1, <2>2 DEF Inv
  <1> QED BY <1>1, InvStep, PTL DEF Spec

(* The buffer and the register list are never written past their end, with *)
(* several threads on the buffer and a stream that loses writes or not.    *)
THEOREM MemorySafe == Spec => []MemoryBounds
  <1>1. Inv => MemoryBounds
    BY DEF Inv
  <1> QED BY <1>1, InvHolds, PTL

(* What waits to be printed belongs to the last instruction, and is_jni to *)
(* the call in progress.                                                   *)
THEOREM PendingOwned == Spec => []PendingIsLast
  <1>1. Inv => PendingIsLast
    BY DEF Inv
  <1> QED BY <1>1, InvHolds, PTL

-----------------------------------------------------------------------------
(* One thread tracing itself, stream operations that exclude each other, and *)
(* a trace file that opens.                                                  *)
Local == REMOTE = FALSE /\ RACY = FALSE /\ OpenResults \subseteq {TRUE}

LEMMA PrefixOfConcat ==
  ASSUME NEW S, NEW s \in Seq(S), NEW t \in Seq(S)
  PROVE  IsPrefix(s, s \o t)
  <1>1. Len(s) <= Len(s \o t)
    OBVIOUS
  <1>2. SubSeq(s, 1, Len(s)) = SubSeq(s \o t, 1, Len(s))
    OBVIOUS
  <1> QED BY <1>1, <1>2 DEF IsPrefix

LEMMA PrefixOfSelf ==
  ASSUME NEW S, NEW s \in Seq(S)
  PROVE  IsPrefix(s, s)
  BY DEF IsPrefix

LEMMA LocalStep ==
  ASSUME Local
  PROVE  TypeOK /\ LocalSession /\ [Next]_vars => LocalSession'
  <1> SUFFICES ASSUME TypeOK, LocalSession, [Next]_vars PROVE LocalSession'
    OBVIOUS
  <1> USE DEF Local, LocalSession, traceVars, fileVars
  <1>1. ASSUME NEW m \in Modes, NEW opens \in OpenResults, InitCall(m, opens)
        PROVE LocalSession'
    BY <1>1 DEF InitCall, ControllerMayRun
  <1>2. CASE RunCall
    BY <1>2 DEF RunCall
  <1>3. CASE UnrunCall
    BY <1>3 DEF UnrunCall, ControllerMayRun
  <1>4. CASE ControllerSteps
    BY <1>4 DEF ControllerSteps, UnfollowWrite, UnfollowReset, UnfollowClose
  <1>5. CASE Detach
    BY <1>5 DEF Detach
  <1>6. ASSUME NEW i \in Insns, CalloutEnter(i)
        PROVE LocalSession'
    BY <1>6 DEF CalloutEnter
  <1>7. CASE CalloutSteps
    BY <1>7 DEF CalloutSteps, CalloutPost, CalloutRet, CalloutLine, NoteCall, RegsWritten, BeforeInfo, CalloutFlush
  <1>8. ASSUME NEW f \in Sessions, Flusher(f)
        PROVE LocalSession'
    BY <1>8 DEF Flusher, FlusherCheck, FlusherBegin, FlusherFlush, FlusherWake
  <1>9. CASE Spill
    BY <1>9 DEF Spill
  <1>10. CASE UNCHANGED vars
    BY <1>10 DEF vars
  <1> QED BY <1>1, <1>2, <1>3, <1>4, <1>5, <1>6, <1>7, <1>8, <1>9, <1>10 DEF Next

LEMMA ConcatTokens ==
  /\ <<>> \in Seq(Tokens)
  /\ \A s, t \in Seq(Tokens) : s \o t \in Seq(Tokens)
  /\ \A s \in Seq(Tokens) : s \o <<>> = s /\ <<>> \o s = s
  /\ \A s, t, u \in Seq(Tokens) : (s \o t) \o u = s \o (t \o u)
  BY ConcatProperties, ConcatAssociative, ConcatEmptySeq, EmptySeq

LEMMA AssocTokens ==
  ASSUME NEW s \in Seq(Tokens), NEW t \in Seq(Tokens), NEW u \in Seq(Tokens)
  PROVE  (s \o t) \o u = s \o (t \o u)
  BY ConcatTokens

(* Moving records from one buffer to the next leaves the log as it is. *)
LEMMA LogMoves ==
  ASSUME NEW d \in Seq(Tokens), NEW s \in Seq(Tokens), NEW b \in Seq(Tokens)
  PROVE  /\ d \o (s \o b) \in Seq(Tokens)
         /\ (d \o s) \o b = d \o (s \o b)
         /\ d \o ((s \o b) \o <<>>) = d \o (s \o b)
         /\ d \o (s \o <<>>) = d \o s
         /\ d \o (<<>> \o b) = d \o b
         /\ d \o (<<>> \o <<>>) = d
  BY ConcatProperties, ConcatAssociative, ConcatEmptySeq, EmptySeq

(* A record printed behind the log's end extends it. *)
LEMMA LogGrows ==
  ASSUME NEW d \in Seq(Tokens), NEW s \in Seq(Tokens), NEW b \in Seq(Tokens),
         NEW t \in Seq(Tokens)
  PROVE  IsPrefix(d \o (s \o b), d \o (s \o (b \o t)))
  <1>1. /\ s \o b \in Seq(Tokens) /\ d \o (s \o b) \in Seq(Tokens)
    BY ConcatProperties
  <1>2. (s \o b) \o t = s \o (b \o t)
    BY AssocTokens
  <1>3. (d \o (s \o b)) \o t = d \o ((s \o b) \o t)
    <2> DEFINE sb == s \o b
    <2>1. sb \in Seq(Tokens)
      BY <1>1
    <2> HIDE DEF sb
    <2>2. (d \o sb) \o t = d \o (sb \o t)
      BY <2>1, AssocTokens
    <2> QED BY <2>2 DEF sb
  <1>4. IsPrefix(d \o (s \o b), (d \o (s \o b)) \o t)
    BY <1>1, PrefixOfConcat
  <1> QED BY <1>2, <1>3, <1>4

(* The same when the buffer is written out on the way. *)
LEMMA WrittenOut ==
  ASSUME NEW s \in Seq(Tokens), NEW b \in Seq(Tokens), NEW t \in Seq(Tokens)
  PROVE  ((s \o b) \o t) \o <<>> = s \o (b \o t)
  <1>1. (s \o b) \o t = s \o (b \o t)
    BY AssocTokens
  <1>2. s \o (b \o t) \in Seq(Tokens)
    BY ConcatProperties
  <1>3. (s \o (b \o t)) \o <<>> = s \o (b \o t)
    BY <1>2, ConcatEmptySeq
  <1> QED BY <1>1, <1>3

(* Passing the front of the stream on to the file. *)
LEMMA PassedOn ==
  ASSUME NEW s \in Seq(Tokens), NEW r \in Seq(Tokens), NEW k \in 1..Len(s)
  PROVE  \E front, rest \in Seq(Tokens) :
           /\ front = SubSeq(s, 1, k)
           /\ rest = SubSeq(s, k + 1, Len(s)) \o r
           /\ s \o r = front \o rest
  <1> DEFINE front == SubSeq(s, 1, k)
             back == SubSeq(s, k + 1, Len(s))
  <1>1. front \in Seq(Tokens) /\ back \in Seq(Tokens)
    BY SubSeqProperties
  <1>2. front \o back = s
    <2>1. front \o back = SubSeq(s, 1, Len(s))
      BY <1>1, ConcatAdjacentSubSeq
    <2> QED BY <2>1, SubSeqFull
  <1> HIDE DEF front, back
  <1>3. back \o r \in Seq(Tokens)
    BY <1>1, ConcatProperties
  <1>4. s \o r = front \o (back \o r)
    BY <1>1, <1>2, AssocTokens
  <1> QED BY <1>1, <1>3, <1>4 DEF front, back

LEMMA RefinementStep ==
  ASSUME Local
  PROVE  TypeOK /\ LocalSession /\ LocalSession' /\ [Next]_vars => [TL!Next]_(TL!vars)
  <1> SUFFICES ASSUME TypeOK, LocalSession, LocalSession', [Next]_vars
               PROVE  [TL!Next]_(TL!vars)
    OBVIOUS
  <1>0. /\ disk \in Seq(Tokens) /\ stream \in Seq(Tokens) /\ buffer \in Seq(Tokens)
        /\ <<>> \in Seq(Tokens)
    BY EmptySeq DEF TypeOK
  <1>a. ~Racing
    BY DEF Local, Racing
  <1> USE DEF Log, Unsaved
  <1>1. ASSUME Log' = Log, disk' = disk, open' = open
        PROVE  [TL!Next]_(TL!vars)
    BY <1>1 DEF TL!vars
  <1>2. ASSUME Log' = Log, open, open' = open,
               NEW t \in Seq(Tokens), NEW u \in Seq(Tokens),
               disk' = disk \o t, Log = disk' \o u
        PROVE  TL!Next
    <2>1. disk' \in Seq(Tokens)
      BY <1>0, <1>2, ConcatProperties
    <2>2. IsPrefix(disk, disk') /\ IsPrefix(disk', Log)
      BY <1>0, <1>2, <2>1, PrefixOfConcat
    <2> QED BY <1>2, <2>2 DEF TL!Next, TL!Save, TL!IsPrefix, IsPrefix
  <1>3. ASSUME open, open' = open, disk' = disk, IsPrefix(Log, Log')
        PROVE  TL!Next
    BY <1>3 DEF TL!Next, TL!Record, TL!IsPrefix, IsPrefix
  <1>4. ASSUME NEW m \in Modes, NEW opens \in OpenResults, InitCall(m, opens)
        PROVE  TL!Next
    <2>1. /\ ~open /\ open' = TRUE /\ disk' = <<>> /\ stream' = <<>> /\ buffer' = <<>>
          /\ cpc' = "inited"
      BY <1>4 DEF InitCall, Local, LocalSession
    <2>2. Log' = <<>>
      BY <1>0, <2>1, LogMoves
    <2> QED BY <2>1, <2>2 DEF TL!Next, TL!Create
  <1>5. CASE RunCall
    BY <1>1, <1>5 DEF RunCall, fileVars
  <1>6. CASE UnrunCall
    BY <1>1, <1>6 DEF UnrunCall, fileVars
  <1>7. CASE UnfollowWrite
    <2>1. /\ cpc = "unfollowed" /\ open /\ cpc' = "reset"
          /\ stream' = stream \o buffer
          /\ UNCHANGED <<buffer, open, disk>>
      BY <1>7, <1>a DEF UnfollowWrite, Write, Written, LocalSession
    <2>2. Log' = Log
      BY <1>0, <2>1, LogMoves
    <2> QED BY <1>1, <2>1, <2>2
  <1>8. CASE UnfollowReset
    <2>1. /\ cpc = "reset" /\ cpc' = "close" /\ buffer' = <<>>
          /\ UNCHANGED <<open, stream, disk>>
      BY <1>8 DEF UnfollowReset, fileVars
    <2> QED BY <1>1, <2>1
  <1>9. CASE UnfollowClose
    <2>1. /\ cpc = "close" /\ cpc' = "ready" /\ buffer = <<>> /\ buffer' = <<>>
          /\ open /\ ~open' /\ disk' = disk \o stream /\ stream' = <<>>
      BY <1>9 DEF UnfollowClose, LocalSession
    <2>2. Log = disk' /\ Log' = disk'
      BY <1>0, <2>1, LogMoves, ConcatProperties
    <2> QED BY <2>1, <2>2 DEF TL!Next, TL!Close
  <1>10. CASE Detach
    BY <1>1, <1>10 DEF Detach, fileVars
  <1>11. ASSUME NEW i \in Insns, CalloutEnter(i)
         PROVE  [TL!Next]_(TL!vars)
    <2>1. cpc = "tracing" /\ open /\ UNCHANGED <<cpc, open, disk>>
      BY <1>11 DEF CalloutEnter, LocalSession
    <2>2. \/ stream' = stream \o buffer /\ buffer' = <<>>
          \/ stream' = stream /\ buffer' = buffer
      BY <1>11, <1>a, <2>1 DEF CalloutEnter, Write, Written
    <2>3. Log = disk \o (stream \o buffer) /\ Log' = disk \o (stream' \o buffer')
      BY <2>1
    <2>4. CASE stream' = stream \o buffer /\ buffer' = <<>>
      <3>1. stream \o buffer \in Seq(Tokens)
        BY <1>0, ConcatTokens
      <3>2. stream' \o buffer' = stream \o buffer
        BY <2>4, <3>1, ConcatTokens
      <3>3. Log' = Log
        BY <2>3, <3>2
      <3> QED BY <1>1, <2>1, <3>3
    <2>5. CASE stream' = stream /\ buffer' = buffer
      BY <1>1, <2>1, <2>5
    <2> QED BY <2>2, <2>4, <2>5
  <1>12. CASE CalloutPost
    <2>1. cpc = "tracing" /\ open /\ UNCHANGED <<cpc, open, stream, disk>>
      BY <1>12 DEF CalloutPost, LocalSession, fileVars
    <2>2. CASE write_reg_list = <<>>
      BY <1>1, <1>12, <2>1, <2>2 DEF CalloutPost
    <2>3. CASE write_reg_list # <<>>
      <3> DEFINE tok == Token("post", Head(write_reg_list))
      <3>1. tok \in Tokens
        <4>1. Head(write_reg_list) \in Nat
          BY <2>3 DEF TypeOK
        <4> QED BY <4>1, TokenType
      <3>2. buffer' = Append(buffer, tok)
        BY <1>12, <2>3 DEF CalloutPost
      <3> HIDE DEF tok
      <3>3. buffer' = buffer \o <<tok>> /\ <<tok>> \in Seq(Tokens)
        BY <1>0, <3>1, <3>2, AppendIsConcat
      <3>4. IsPrefix(Log, Log')
        BY <1>0, <2>1, <3>3, LogGrows
      <3> QED BY <1>3, <2>1, <3>4
    <2> QED BY <2>2, <2>3
  <1>13. CASE CalloutRet
    <2>1. cpc = "tracing" /\ open /\ UNCHANGED <<cpc, open, disk>>
      BY <1>13 DEF CalloutRet, LocalSession
    <2>2. CASE ~last_func_context.call
      BY <1>1, <1>13, <2>1, <2>2 DEF CalloutRet
    <2>3. CASE last_func_context.call
      <3>1. stream' = (stream \o buffer) \o ReturnInfo /\ buffer' = <<>>
        BY <1>13, <1>a, <2>1, <2>3 DEF CalloutRet, Written
      <3>2. /\ Log = disk \o (stream \o buffer)
            /\ Log' = disk \o (((stream \o buffer) \o ReturnInfo) \o <<>>)
        BY <2>1, <3>1
      <3>3. IsPrefix(Log, Log')
        <4>1. ((stream \o buffer) \o ReturnInfo) \o <<>> = stream \o (buffer \o ReturnInfo)
          BY <1>0, ReturnInfoType, WrittenOut
        <4>2. IsPrefix(disk \o (stream \o buffer),
                       disk \o (stream \o (buffer \o ReturnInfo)))
          BY <1>0, ReturnInfoType, LogGrows
        <4> QED BY <3>2, <4>1, <4>2
      <3> QED BY <1>3, <2>1, <3>3
    <2> QED BY <2>2, <2>3
  <1>14. CASE CalloutLine
    <2>1. cpc = "tracing" /\ open /\ UNCHANGED <<cpc, open, stream, disk>>
      BY <1>14 DEF CalloutLine, NoteCall, RegsWritten, BeforeInfo, LocalSession, fileVars
    <2> DEFINE tok == Token("line", Len(hist) + 1)
    <2>2. tok \in Tokens
      <3>1. Len(hist) + 1 \in Nat
        BY DEF TypeOK
      <3> QED BY <3>1, TokenType
    <2>3. buffer' = Append(buffer, tok)
      BY <1>14 DEF CalloutLine, NoteCall, RegsWritten, BeforeInfo
    <2> HIDE DEF tok
    <2>4. buffer' = buffer \o <<tok>> /\ <<tok>> \in Seq(Tokens)
      BY <1>0, <2>2, <2>3, AppendIsConcat
    <2>5. IsPrefix(Log, Log')
      BY <1>0, <2>1, <2>4, LogGrows
    <2> QED BY <1>3, <2>1, <2>5
  <1>15. CASE CalloutFlush
    <2>1. cpc = "tracing" /\ open /\ UNCHANGED <<cpc, open>>
      BY <1>15 DEF CalloutFlush, LocalSession
    <2>2. \/ disk' = disk \o (stream \o buffer) /\ stream' = <<>> /\ buffer' = <<>>
          \/ UNCHANGED <<buffer, stream, disk>>
      BY <1>15, <1>a, <2>1 DEF CalloutFlush, WriteAndFlush, Written
    <2>3. CASE UNCHANGED <<buffer, stream, disk>>
      BY <1>1, <2>1, <2>3
    <2>4. CASE disk' = disk \o (stream \o buffer) /\ stream' = <<>> /\ buffer' = <<>>
      <3>1. stream \o buffer \in Seq(Tokens) /\ disk \o (stream \o buffer) \in Seq(Tokens)
        BY <1>0, ConcatProperties
      <3>2. Log' = Log /\ Log = disk' \o <<>>
        BY <1>0, <2>1, <2>4, <3>1, LogMoves, ConcatEmptySeq
      <3> QED BY <1>0, <1>2, <2>1, <2>4, <3>1, <3>2
    <2> QED BY <2>2, <2>3, <2>4
  <1>16. ASSUME NEW f \in Sessions, Flusher(f)
         PROVE  [TL!Next]_(TL!vars)
    <2>1. UNCHANGED <<cpc, open, buffer>>
      BY <1>16 DEF Flusher, FlusherCheck, FlusherBegin, FlusherFlush, FlusherWake,
                   fileVars
    <2>2. \/ UNCHANGED <<stream, disk>>
          \/ disk' = disk \o stream /\ stream' = <<>>
      BY <1>16 DEF Flusher, FlusherCheck, FlusherBegin, FlusherFlush, FlusherWake,
                   fileVars
    <2>3. CASE UNCHANGED <<stream, disk>>
      BY <1>1, <2>1, <2>3
    <2>4. CASE ~open /\ disk' = disk \o stream /\ stream' = <<>>
      <3>1. stream = <<>>
        BY <2>4 DEF LocalSession
      <3>2. disk' = disk
        BY <1>0, <2>4, <3>1, ConcatEmptySeq
      <3> QED BY <1>1, <2>1, <2>4, <3>1, <3>2
    <2>5. CASE open /\ disk' = disk \o stream /\ stream' = <<>>
      <3> DEFINE rest == IF cpc = "reset" THEN <<>> ELSE buffer
      <3>1. rest \in Seq(Tokens)
        BY <1>0
      <3>2. Log = disk \o (stream \o rest) /\ Log' = disk' \o (<<>> \o rest)
        BY <2>1, <2>5
      <3> HIDE DEF rest
      <3>3. Log = disk' \o rest /\ Log' = disk' \o rest
        <4>1. disk' \in Seq(Tokens)
          BY <1>0, <2>5, ConcatProperties
        <4>2. Log = disk' \o rest
          BY <1>0, <2>5, <3>1, <3>2, ConcatTokens, Zenon
        <4>3. Log' = disk' \o rest
          BY <1>0, <4>1, <3>1, <3>2, ConcatTokens, Zenon
        <4> QED BY <4>2, <4>3
      <3> QED BY <1>0, <1>2, <2>1, <2>5, <3>1, <3>3
    <2> QED BY <2>2, <2>3, <2>4, <2>5
  <1>17. CASE Spill
    <2>1. open /\ UNCHANGED <<cpc, open, buffer>>
      BY <1>17 DEF Spill
    <2>2. PICK k \in 1..Len(stream) :
            /\ disk' = disk \o SubSeq(stream, 1, k)
            /\ stream' = SubSeq(stream, k + 1, Len(stream))
      BY <1>17 DEF Spill
    <2>3. PICK r \in Seq(Tokens) : r = IF cpc = "reset" THEN <<>> ELSE buffer
      BY <1>0
    <2>4. /\ Log = disk \o (stream \o r)
          /\ Log' = disk' \o (stream' \o r)
      BY <2>1, <2>3
    <2> HIDE DEF Log, Unsaved
    <2>5. PICK front, rest \in Seq(Tokens) :
            /\ front = SubSeq(stream, 1, k)
            /\ rest = SubSeq(stream, k + 1, Len(stream)) \o r
            /\ stream \o r = front \o rest
      BY <1>0, PassedOn
    <2>6. Log = disk \o (front \o rest)
      BY <2>4, <2>5, Zenon
    <2>7. Log' = (disk \o front) \o rest
      <3>1. disk' = disk \o front /\ stream' \o r = rest
        BY <2>2, <2>5
      <3> QED BY <2>4, <3>1
    <2>8. (disk \o front) \o rest = disk \o (front \o rest)
      <3>1. disk \in Seq(Tokens) /\ front \in Seq(Tokens) /\ rest \in Seq(Tokens)
        BY <1>0, <2>5
      <3> QED BY <3>1, AssocTokens
    <2> QED BY <1>2, <2>1, <2>2, <2>5, <2>6, <2>7, <2>8
  <1>18. CASE UNCHANGED vars
    BY <1>1, <1>18 DEF vars, fileVars
  <1> QED BY <1>4, <1>5, <1>6, <1>7, <1>8, <1>9, <1>10, <1>11, <1>12, <1>13, <1>14,
             <1>15, <1>16, <1>17, <1>18 DEF Next, ControllerSteps, CalloutSteps

LEMMA LocalHolds ==
  ASSUME Local
  PROVE  Spec => []LocalSession
  <1>1. Init => LocalSession
    BY DEF Init, LocalSession
  <1> QED BY <1>1, TypeCorrect, LocalStep, PTL DEF Spec

(* For a thread that traces itself, with stream operations that do not      *)
(* overlap, the tracer implements TraceLog: nothing printed is lost,        *)
(* reordered or repeated, and a closed file holds the whole log.            *)
THEOREM LogImplemented ==
  ASSUME Local
  PROVE  Spec => ImplementsTraceLog
  <1>1. Init => TL!Init
    BY ConcatEmptySeq, EmptySeq DEF Init, TL!Init, Log, Unsaved
  <1>2. Spec => []TypeOK
    BY TypeCorrect
  <1>3. Spec => []LocalSession
    BY LocalHolds
  <1> QED BY <1>1, <1>2, <1>3, RefinementStep, PTL DEF Spec, ImplementsTraceLog, TL!Spec

-----------------------------------------------------------------------------
(* What the log holds.  Every step does one of five things to the log       *)
(* (LogStep), so that the invariants on it do not depend on where its parts *)
(* are kept.                                                                *)
History == <<session, hist>>
Pending == <<write_reg_list, last_func_context>>

Moved == Log' = Log /\ UNCHANGED <<History, Pending>>

Started ==
  /\ session' = session + 1 /\ Log' = <<>>
  /\ UNCHANGED <<hist, Pending>>

Posted ==
  /\ write_reg_list # <<>> /\ write_reg_list' = <<>>
  /\ Log' = Log \o <<Token("post", Head(write_reg_list))>>
  /\ UNCHANGED <<History, last_func_context>>

Returned ==
  /\ last_func_context.call /\ last_func_context' = CallDone
  /\ Log' = Log \o ReturnInfo
  /\ UNCHANGED <<History, write_reg_list>>

Lined ==
  /\ tpc = "line"
  /\ hist' = Append(hist, [session |-> session, insn |-> cur])
  /\ Log' = Log \o <<Token("line", Len(hist) + 1)>>
  /\ write_reg_list' = write_reg_list \o RegsWritten(cur, Len(hist) + 1)
  /\ last_func_context' = NoteCall(cur, Len(hist) + 1)
  /\ UNCHANGED session

(* A record printed behind the buffer stands behind the log. *)
LEMMA Behind ==
  ASSUME NEW d \in Seq(Tokens), NEW s \in Seq(Tokens), NEW b \in Seq(Tokens),
         NEW t \in Seq(Tokens)
  PROVE  d \o (s \o (b \o t)) = (d \o (s \o b)) \o t
  <1>1. /\ s \o b \in Seq(Tokens)
        /\ (s \o b) \o t = s \o (b \o t)
    BY ConcatProperties, AssocTokens
  <1>2. PICK sb \in Seq(Tokens) : sb = s \o b
    BY <1>1
  <1>3. (d \o sb) \o t = d \o (sb \o t)
    BY <1>2, AssocTokens
  <1> QED BY <1>1, <1>2, <1>3

LEMMA LogType == TypeOK => Log \in Seq(Tokens) /\ Unsaved \in Seq(Tokens)
  <1> SUFFICES ASSUME TypeOK PROVE Log \in Seq(Tokens) /\ Unsaved \in Seq(Tokens)
    OBVIOUS
  <1>1. disk \in Seq(Tokens) /\ stream \in Seq(Tokens) /\ buffer \in Seq(Tokens)
    BY DEF TypeOK
  <1>2. Unsaved \in Seq(Tokens)
    BY <1>1, ConcatTokens DEF Unsaved
  <1> QED BY <1>1, <1>2, ConcatTokens DEF Log

(* The steps of a callout, while the file is open. *)
LEMMA CalloutLogStep ==
  ASSUME TypeOK, ~Racing, open, cpc # "reset",
         (\E i \in Insns : CalloutEnter(i)) \/ CalloutSteps
  PROVE  Moved \/ Posted \/ Returned \/ Lined
  <1>0. /\ disk \in Seq(Tokens) /\ stream \in Seq(Tokens) /\ buffer \in Seq(Tokens)
        /\ <<>> \in Seq(Tokens)
    BY ConcatTokens DEF TypeOK
  <1>a. ~Racing
    OBVIOUS
  <1> USE DEF Log, Unsaved, History, Pending
  <1>7. ASSUME NEW i \in Insns, CalloutEnter(i)
        PROVE  Moved
    <2>1. /\ cpc # "reset"
          /\ UNCHANGED <<cpc, disk, session, hist, write_reg_list, last_func_context>>
      BY <1>7 DEF CalloutEnter
    <2>2. \/ stream' = stream \o buffer /\ buffer' = <<>>
          \/ stream' = stream /\ buffer' = buffer
      BY <1>7, <1>a, <2>1 DEF CalloutEnter, Write, Written
    <2>3. Log' = Log
      <3>1. stream \o buffer \in Seq(Tokens)
        BY <1>0, ConcatTokens
      <3>2. stream' \o buffer' = stream \o buffer
        BY <1>0, <2>2, <3>1, ConcatTokens
      <3> QED BY <2>1, <3>2
    <2> QED BY <2>1, <2>3 DEF Moved
  <1>8. CASE CalloutPost
    <2>1. /\ cpc # "reset"
          /\ UNCHANGED <<cpc, stream, disk, session, hist, last_func_context>>
      BY <1>8 DEF CalloutPost, fileVars
    <2>2. CASE write_reg_list = <<>>
      BY <1>8, <2>1, <2>2 DEF CalloutPost, Moved
    <2>3. CASE write_reg_list # <<>>
      <3>1. Head(write_reg_list) \in Nat
        BY <2>3 DEF TypeOK
      <3>2. PICK tok \in Tokens : tok = Token("post", Head(write_reg_list))
        BY <3>1, TokenType
      <3>3. buffer' = buffer \o <<tok>> /\ <<tok>> \in Seq(Tokens)
        BY <1>0, <1>8, <2>3, <3>2, AppendIsConcat DEF CalloutPost
      <3>4. Log' = Log \o <<tok>>
        BY <1>0, <2>1, <3>3, Behind
      <3> QED BY <1>8, <2>1, <2>3, <3>2, <3>4 DEF CalloutPost, Posted
    <2> QED BY <2>2, <2>3
  <1>9. CASE CalloutRet
    <2>1. /\ cpc # "reset" /\ open
          /\ UNCHANGED <<cpc, disk, session, hist, write_reg_list>>
      BY <1>9 DEF CalloutRet
    <2>2. CASE ~last_func_context.call
      BY <1>9, <2>1, <2>2 DEF CalloutRet, Moved
    <2>3. CASE last_func_context.call
      <3>1. /\ stream' = (stream \o buffer) \o ReturnInfo /\ buffer' = <<>>
            /\ last_func_context' = CallDone
        BY <1>9, <1>a, <2>1, <2>3 DEF CalloutRet, Written
      <3>2. PICK t \in Seq(Tokens) : t = ReturnInfo
        BY ReturnInfoType
      <3>3. ((stream \o buffer) \o t) \o <<>> = stream \o (buffer \o t)
        BY <1>0, <3>2, WrittenOut
      <3>4. Log' = disk \o (((stream \o buffer) \o t) \o <<>>)
        BY <2>1, <3>1, <3>2
      <3>5. Log = disk \o (stream \o buffer)
        BY <2>1
      <3> HIDE DEF Log, Unsaved
      <3>6. disk \o (stream \o (buffer \o t)) = (disk \o (stream \o buffer)) \o t
        <4>1. /\ disk \in Seq(Tokens) /\ stream \in Seq(Tokens)
              /\ buffer \in Seq(Tokens) /\ t \in Seq(Tokens)
          BY <1>0, <3>2
        <4>2. \A d, s, b, u \in Seq(Tokens) : d \o (s \o (b \o u)) = (d \o (s \o b)) \o u
          BY Behind
        <4>3. \A s, b, u \in Seq(Tokens) :
                disk \o (s \o (b \o u)) = (disk \o (s \o b)) \o u
          BY <4>1, <4>2
        <4>4. \A b, u \in Seq(Tokens) :
                disk \o (stream \o (b \o u)) = (disk \o (stream \o b)) \o u
          BY <4>1, <4>3
        <4> QED BY <4>1, <4>4
      <3>7. Log' = Log \o ReturnInfo
        BY <3>2, <3>3, <3>4, <3>5, <3>6, Zenon
      <3> QED BY <2>1, <2>3, <3>1, <3>7 DEF Returned
    <2> QED BY <2>2, <2>3
  <1>10. CASE CalloutLine
    <2>1. cpc # "reset" /\ UNCHANGED <<cpc, stream, disk, session>>
      BY <1>10 DEF CalloutLine, fileVars
    <2>2. Len(hist) + 1 \in Nat
      BY DEF TypeOK
    <2>3. PICK tok \in Tokens : tok = Token("line", Len(hist) + 1)
      BY <2>2, TokenType
    <2>4. buffer' = buffer \o <<tok>> /\ <<tok>> \in Seq(Tokens)
      BY <1>0, <1>10, <2>3, AppendIsConcat DEF CalloutLine
    <2>5. Log' = Log \o <<tok>>
      BY <1>0, <2>1, <2>4, Behind
    <2> QED BY <1>10, <2>1, <2>3, <2>5 DEF CalloutLine, Lined
  <1>11. CASE CalloutFlush
    <2>1. /\ cpc # "reset" /\ open
          /\ UNCHANGED <<cpc, session, hist, write_reg_list, last_func_context>>
      BY <1>11 DEF CalloutFlush
    <2>2. \/ disk' = disk \o (stream \o buffer) /\ stream' = <<>> /\ buffer' = <<>>
          \/ UNCHANGED <<buffer, stream, disk>>
      BY <1>11, <1>a, <2>1 DEF CalloutFlush, WriteAndFlush, Written
    <2>3. CASE UNCHANGED <<buffer, stream, disk>>
      BY <2>1, <2>3 DEF Moved
    <2>4. CASE disk' = disk \o (stream \o buffer) /\ stream' = <<>> /\ buffer' = <<>>
      <3>1. disk \o (stream \o buffer) \in Seq(Tokens)
        BY <1>0, ConcatProperties
      <3>2. Log' = Log
        BY <1>0, <2>1, <2>4, <3>1, LogMoves
      <3> QED BY <2>1, <3>2 DEF Moved
    <2> QED BY <2>2, <2>3, <2>4
  <1> QED BY <1>7, <1>8, <1>9, <1>10, <1>11 DEF CalloutSteps

(* Flusher threads and the stream itself move the log, whatever the rest does. *)
LEMMA FlushLogStep ==
  ASSUME TypeOK, (\E f \in Sessions : Flusher(f)) \/ Spill
  PROVE  Moved
  <1>0. /\ disk \in Seq(Tokens) /\ stream \in Seq(Tokens) /\ buffer \in Seq(Tokens)
        /\ <<>> \in Seq(Tokens)
    BY ConcatTokens DEF TypeOK
  <1> USE DEF Log, Unsaved, History, Pending
  <1>1. ASSUME UNCHANGED <<session, traceVars, cpc, buffer, stream, disk>>
        PROVE  Moved
    BY <1>1 DEF Moved, traceVars
  <1>12. ASSUME NEW f \in Sessions, Flusher(f)
         PROVE  Moved
    <2>1. UNCHANGED <<session, traceVars, cpc, buffer>>
      BY <1>12 DEF Flusher, FlusherCheck, FlusherBegin, FlusherFlush, FlusherWake
    <2>2. \/ UNCHANGED <<stream, disk>>
          \/ disk' = disk \o stream /\ stream' = <<>>
      BY <1>12 DEF Flusher, FlusherCheck, FlusherBegin, FlusherFlush, FlusherWake,
                   fileVars
    <2>3. CASE disk' = disk \o stream /\ stream' = <<>>
      <3>1. PICK rest \in Seq(Tokens) : rest = IF cpc = "reset" THEN <<>> ELSE buffer
        BY <1>0
      <3>2. Log = disk \o (stream \o rest) /\ Log' = (disk \o stream) \o (<<>> \o rest)
        BY <2>1, <2>3, <3>1
      <3>3. (disk \o stream) \o rest = disk \o (stream \o rest)
        BY <1>0, <3>1, AssocTokens
      <3>4. Log' = Log
        BY <3>1, <3>2, <3>3, ConcatTokens
      <3> QED BY <2>1, <3>4 DEF Moved, traceVars
    <2> QED BY <1>1, <2>1, <2>2, <2>3
  <1>13. CASE Spill
    <2>1. UNCHANGED <<session, traceVars, cpc, buffer>>
      BY <1>13 DEF Spill
    <2>2. PICK k \in 1..Len(stream) :
            /\ disk' = disk \o SubSeq(stream, 1, k)
            /\ stream' = SubSeq(stream, k + 1, Len(stream))
      BY <1>13 DEF Spill
    <2>3. PICK r \in Seq(Tokens) : r = IF cpc = "reset" THEN <<>> ELSE buffer
      BY <1>0
    <2>4. /\ Log = disk \o (stream \o r)
          /\ Log' = disk' \o (stream' \o r)
      BY <2>1, <2>3
    <2> HIDE DEF Log, Unsaved
    <2>5. PICK front, rest \in Seq(Tokens) :
            /\ front = SubSeq(stream, 1, k)
            /\ rest = SubSeq(stream, k + 1, Len(stream)) \o r
            /\ stream \o r = front \o rest
      BY <1>0, <2>3, PassedOn
    <2>6. disk' = disk \o front /\ stream' \o r = rest
      BY <2>2, <2>5, Zenon
    <2>7. (disk \o front) \o rest = disk \o (front \o rest)
      <3>1. disk \in Seq(Tokens) /\ front \in Seq(Tokens) /\ rest \in Seq(Tokens)
        BY <1>0, <2>5
      <3> QED BY <3>1, AssocTokens
    <2>8. Log' = Log
      BY <2>4, <2>5, <2>6, <2>7
    <2> QED BY <2>1, <2>8 DEF Moved, traceVars
  <1> QED BY <1>12, <1>13

LEMMA LogStep ==
  ASSUME Local
  PROVE  TypeOK /\ LocalSession /\ LocalSession' /\ [Next]_vars =>
           Moved \/ Started \/ Posted \/ Returned \/ Lined
  <1> SUFFICES ASSUME TypeOK, LocalSession, LocalSession', [Next]_vars
               PROVE  Moved \/ Started \/ Posted \/ Returned \/ Lined
    OBVIOUS
  <1>0. /\ disk \in Seq(Tokens) /\ stream \in Seq(Tokens) /\ buffer \in Seq(Tokens)
        /\ <<>> \in Seq(Tokens)
    BY ConcatTokens DEF TypeOK
  <1>a. ~Racing
    BY DEF Local, Racing
  <1> USE DEF Log, Unsaved, History, Pending
  <1>1. ASSUME UNCHANGED <<session, traceVars, cpc, buffer, stream, disk>>
        PROVE  Moved
    BY <1>1 DEF Moved, traceVars
  <1>2. ASSUME NEW m \in Modes, NEW opens \in OpenResults, InitCall(m, opens)
        PROVE  Started
    <2>1. /\ disk' = <<>> /\ stream' = <<>> /\ buffer' = <<>>
          /\ session' = session + 1 /\ cpc' = "inited"
          /\ UNCHANGED traceVars
      BY <1>2 DEF InitCall, LocalSession
    <2>2. Log' = <<>>
      BY <1>0, <2>1, LogMoves
    <2> QED BY <2>1, <2>2 DEF Started, traceVars
  <1>3. CASE RunCall \/ UnrunCall \/ Detach
    <2>1. (cpc = "reset") = (cpc' = "reset")
      BY <1>3 DEF RunCall, UnrunCall, Detach
    <2> QED BY <1>3, <2>1 DEF RunCall, UnrunCall, Detach, Moved, traceVars, fileVars
  <1>4. CASE UnfollowWrite
    <2>1. /\ cpc = "unfollowed" /\ cpc' = "reset"
          /\ stream' = stream \o buffer
          /\ UNCHANGED <<session, traceVars, buffer, disk>>
      BY <1>4, <1>a DEF UnfollowWrite, Write, Written, LocalSession
    <2>2. Log' = Log
      BY <1>0, <2>1, LogMoves
    <2> QED BY <2>1, <2>2 DEF Moved, traceVars
  <1>5. CASE UnfollowReset
    <2>1. /\ cpc = "reset" /\ cpc' = "close" /\ buffer' = <<>>
          /\ UNCHANGED <<session, traceVars, stream, disk>>
      BY <1>5 DEF UnfollowReset, fileVars
    <2> QED BY <2>1 DEF Moved, traceVars
  <1>6. CASE UnfollowClose
    <2>1. /\ cpc = "close" /\ cpc' = "ready" /\ buffer = <<>> /\ buffer' = <<>>
          /\ disk' = disk \o stream /\ stream' = <<>>
          /\ UNCHANGED <<session, traceVars>>
      BY <1>6 DEF UnfollowClose, LocalSession
    <2>2. Log = disk' /\ Log' = disk'
      BY <1>0, <2>1, LogMoves, ConcatProperties
    <2> QED BY <2>1, <2>2 DEF Moved, traceVars
  <1>7. CASE (\E i \in Insns : CalloutEnter(i)) \/ CalloutSteps
    <2>1. cpc = "tracing" /\ open
      BY <1>7 DEF LocalSession, CalloutSteps, CalloutEnter, CalloutPost, CalloutRet,
                  CalloutLine, CalloutFlush
    <2> HIDE DEF Log, Unsaved, History, Pending
    <2> QED BY <1>7, <1>a, <2>1, CalloutLogStep
  <1>8. CASE (\E f \in Sessions : Flusher(f)) \/ Spill
    BY <1>8, FlushLogStep
  <1>14. CASE UNCHANGED vars
    BY <1>1, <1>14 DEF vars, fileVars
  <1> QED BY <1>2, <1>3, <1>4, <1>5, <1>6, <1>7, <1>8, <1>14 DEF Next, ControllerSteps

-----------------------------------------------------------------------------
(* What holds whichever threads run and whatever the stream loses: no       *)
(* instruction is of a session to come, the call that waits has printed its *)
(* "call" record unless it is a JNI call, what waits to be printed is what  *)
(* the last instruction owes, and the buffer holds no record ahead of it.   *)
Sessioned == \A n \in 1..Len(hist) : hist[n].session <= session

InfoInv ==
  last_func_context.call /\ ~last_func_context.is_jni =>
    last_func_context.info = <<Token("call", last_func_context.owner)>>

PendingOwed ==
  LET last == hist[Len(hist)].insn IN
  /\ write_reg_list # <<>> =>
       /\ Len(hist) > 0 /\ last.writes > 0
       /\ last.call # "none" => last_func_context.call
  /\ last_func_context.call => Len(hist) > 0 /\ last.call # "none"

BufferPast == \A j \in 1..Len(buffer) : buffer[j].insn <= Len(hist)

PastInv == Sessioned /\ InfoInv /\ PendingOwed /\ BufferPast

LEMMA PastStep ==
  ASSUME Inv, PastInv, [Next]_vars
  PROVE  PastInv'
  <1>0. /\ hist \in Seq([session : 0..MaxSessions, insn : Insns])
        /\ session \in 0..MaxSessions /\ Len(hist) \in Nat
        /\ buffer \in Seq(Tokens) /\ write_reg_list \in Seq(Nat)
        /\ cur \in Insns
        /\ last_func_context \in
             [call : BOOLEAN, is_jni : BOOLEAN, owner : Nat, info : Seq(Tokens)]
    BY DEF Inv, TypeOK
  <1>1. ASSUME UNCHANGED <<hist, write_reg_list, last_func_context>>,
               session' = session \/ session' = session + 1,
               buffer' = buffer \/ buffer' = <<>>
        PROVE  PastInv'
    <2>1. Sessioned'
      <3> SUFFICES ASSUME NEW n \in 1..Len(hist) PROVE hist[n].session <= session'
        BY <1>1 DEF Sessioned
      <3>1. hist[n] \in [session : 0..MaxSessions, insn : Insns]
        BY <1>0, ElementOfSeq
      <3>2. hist[n].session \in Nat /\ session \in Nat
        BY <1>0, <3>1
      <3>3. hist[n].session <= session
        BY DEF PastInv, Sessioned
      <3> QED BY <1>1, <3>2, <3>3
    <2>2. BufferPast'
      BY <1>0, <1>1 DEF PastInv, BufferPast
    <2>3. InfoInv' /\ PendingOwed'
      BY <1>1 DEF PastInv, InfoInv, PendingOwed
    <2> QED BY <2>1, <2>2, <2>3 DEF PastInv
  <1>2. ASSUME NEW m \in Modes, NEW opens \in OpenResults, InitCall(m, opens)
        PROVE  PastInv'
    BY <1>1, <1>2 DEF InitCall, traceVars
  <1>3. CASE RunCall \/ UnrunCall \/ ControllerSteps \/ Detach
    BY <1>1, <1>3 DEF RunCall, UnrunCall, ControllerSteps, UnfollowWrite, UnfollowReset,
                      UnfollowClose, Detach, traceVars
  <1>4. ASSUME NEW i \in Insns, CalloutEnter(i)
        PROVE  PastInv'
    BY <1>1, <1>4 DEF CalloutEnter
  <1>5. CASE CalloutPost
    <2>1. /\ UNCHANGED <<session, hist, last_func_context>>
          /\ write_reg_list' = <<>>
      BY <1>5 DEF CalloutPost
    <2>2. Sessioned' /\ InfoInv' /\ PendingOwed'
      BY <2>1 DEF PastInv, Sessioned, InfoInv, PendingOwed
    <2>3. BufferPast'
      <3>1. CASE write_reg_list = <<>>
        BY <1>5, <2>1, <3>1 DEF CalloutPost, PastInv, BufferPast
      <3>2. CASE write_reg_list # <<>>
        <4>1. Head(write_reg_list) = Len(hist)
          BY <1>0, <3>2 DEF Inv, PendingIsLast
        <4>2. PICK tok \in Tokens : tok = Token("post", Len(hist))
          BY <1>0, TokenType
        <4>3. buffer' = Append(buffer, tok) /\ tok.insn = Len(hist)
          BY <1>5, <3>2, <4>1, <4>2 DEF CalloutPost, Token
        <4>4. \A j \in 1..Len(Append(buffer, tok)) :
                Append(buffer, tok)[j] = IF j <= Len(buffer) THEN buffer[j] ELSE tok
          BY <1>0
        <4> QED BY <1>0, <2>1, <4>3, <4>4 DEF PastInv, BufferPast
      <3> QED BY <3>1, <3>2
    <2> QED BY <2>2, <2>3 DEF PastInv
  <1>6. CASE CalloutRet
    <2>1. CASE ~last_func_context.call
      BY <1>1, <1>6, <2>1 DEF CalloutRet
    <2>2. CASE last_func_context.call
      <3>1. /\ UNCHANGED <<session, hist, write_reg_list>> /\ buffer' = <<>>
            /\ ~last_func_context'.call
        BY <1>0, <1>6, <2>2 DEF CalloutRet, CallDone
      <3>2. write_reg_list = <<>>
        BY <1>6 DEF Inv, CalloutStages, CalloutRet
      <3> QED BY <3>1, <3>2 DEF PastInv, Sessioned, InfoInv, PendingOwed, BufferPast
    <2> QED BY <2>1, <2>2
  <1>7. CASE CalloutLine
    <2> DEFINE n == Len(hist) + 1
    <2>1. /\ session' = session
          /\ Len(hist') = n /\ hist'[n] = [session |-> session, insn |-> cur]
          /\ \A m \in 1..Len(hist) : hist'[m] = hist[m]
          /\ n \in Nat /\ n > 0
      BY <1>0, <1>7 DEF CalloutLine
    <2>2. Sessioned'
      <3> SUFFICES ASSUME NEW m \in 1..n PROVE hist'[m].session <= session
        BY <2>1 DEF Sessioned
      <3>1. CASE m = n
        <4>1. hist'[m].session = session /\ session \in Int
          BY <1>0, <2>1, <3>1
        <4> QED BY <4>1
      <3>2. CASE m # n
        <4>1. m \in 1..Len(hist)
          BY <1>0, <3>2
        <4>2. hist'[m] = hist[m]
          BY <2>1, <4>1
        <4> QED BY <4>1, <4>2 DEF PastInv, Sessioned
      <3> QED BY <3>1, <3>2
    <2>3. /\ write_reg_list' = write_reg_list \o RegsWritten(cur, n)
          /\ last_func_context' = NoteCall(cur, n)
          /\ write_reg_list = <<>> /\ ~last_func_context.call
      BY <1>7 DEF CalloutLine, Inv, CalloutStages
    <2>4. /\ cur.call \in {"none", "func", "jni"} /\ cur.writes \in Nat
      BY <1>0
    <2>5. InfoInv' /\ last_func_context'.call = (cur.call # "none")
      <3>1. CASE cur.call = "none"
        BY <1>0, <2>3, <3>1 DEF NoteCall, InfoInv
      <3>2. CASE cur.call = "func"
        BY <1>0, <2>3, <3>2 DEF NoteCall, BeforeInfo, InfoInv
      <3>3. CASE cur.call = "jni"
        BY <1>0, <2>3, <3>3 DEF NoteCall, InfoInv
      <3> QED BY <2>4, <3>1, <3>2, <3>3
    <2>6. write_reg_list' # <<>> => cur.writes > 0
      <3> SUFFICES ASSUME cur.writes = 0 PROVE write_reg_list' = <<>>
        BY <2>4
      <3>1. RegsWritten(cur, n) = <<>>
        BY DEF RegsWritten
      <3>2. <<>> \o <<>> = <<>>
        OBVIOUS
      <3> QED BY <2>3, <3>1, <3>2
    <2>7. PendingOwed'
      <3>1. hist'[Len(hist')].insn = cur /\ Len(hist') > 0
        BY <2>1
      <3> QED BY <2>5, <2>6, <3>1, Zenon DEF PendingOwed
    <2>8. BufferPast'
      <3>1. PICK tok \in Tokens : tok = Token("line", n)
        BY <2>1, TokenType
      <3>2. buffer' = Append(buffer, tok) /\ tok.insn = n
        BY <1>7, <3>1 DEF CalloutLine, Token
      <3>3. \A j \in 1..Len(Append(buffer, tok)) :
              Append(buffer, tok)[j] = IF j <= Len(buffer) THEN buffer[j] ELSE tok
        BY <1>0
      <3>4. \A j \in 1..Len(buffer) : buffer[j].insn \in Nat /\ buffer[j].insn <= Len(hist)
        <4> TAKE j \in 1..Len(buffer)
        <4>1. buffer[j] \in Tokens
          BY <1>0, ElementOfSeq
        <4> QED BY <4>1 DEF PastInv, BufferPast, Tokens
      <3> QED BY <1>0, <2>1, <3>2, <3>3, <3>4 DEF BufferPast
    <2> QED BY <2>2, <2>5, <2>7, <2>8 DEF PastInv
  <1>8. CASE CalloutFlush
    BY <1>1, <1>8 DEF CalloutFlush
  <1>9. ASSUME NEW f \in Sessions, Flusher(f)
        PROVE  PastInv'
    BY <1>1, <1>9 DEF Flusher, FlusherCheck, FlusherBegin, FlusherFlush, FlusherWake,
                      traceVars
  <1>10. CASE Spill
    BY <1>1, <1>10 DEF Spill, traceVars
  <1>11. CASE UNCHANGED vars
    BY <1>1, <1>11 DEF vars, traceVars
  <1> QED BY <1>2, <1>3, <1>4, <1>5, <1>6, <1>7, <1>8, <1>9, <1>10, <1>11
          DEF Next, CalloutSteps

LEMMA PastHolds == Spec => []PastInv
  <1>1. Init => PastInv
    BY DEF Init, NoCall, PastInv, Sessioned, InfoInv, PendingOwed, BufferPast
  <1>2. Inv /\ PastInv /\ [Next]_vars => PastInv'
    BY PastStep
  <1> QED BY <1>1, <1>2, InvHolds, PTL DEF Spec

-----------------------------------------------------------------------------
(* Every line of the session is in the log. *)
AllLines == \A n \in Own : Token("line", n) \in ToSet(Log)

LEMMA InToSet ==
  ASSUME NEW s \in Seq(Tokens), NEW x
  PROVE  x \in ToSet(s) <=> \E i \in 1..Len(s) : s[i] = x
  <1>1. DOMAIN s = 1..Len(s)
    OBVIOUS
  <1> QED BY <1>1 DEF ToSet

LEMMA Kept ==
  ASSUME NEW s \in Seq(Tokens), NEW t \in Seq(Tokens)
  PROVE  /\ ToSet(s) \subseteq ToSet(s \o t)
         /\ ToSet(t) \subseteq ToSet(s \o t)
  <1>1. /\ Len(s \o t) = Len(s) + Len(t)
        /\ \A i \in 1..Len(s) : (s \o t)[i] = s[i]
        /\ \A i \in 1..Len(t) : (s \o t)[Len(s) + i] = t[i]
    BY ConcatProperties
  <1>2. \A i \in 1..Len(t) : Len(s) + i \in 1..Len(s \o t)
    BY <1>1
  <1>3. \A i \in 1..Len(s) : i \in 1..Len(s \o t)
    BY <1>1
  <1>4. s \o t \in Seq(Tokens)
    BY ConcatProperties
  <1>5. ASSUME NEW x \in ToSet(s) PROVE x \in ToSet(s \o t)
    <2>1. PICK i \in 1..Len(s) : s[i] = x
      BY InToSet
    <2>2. i \in 1..Len(s \o t) /\ (s \o t)[i] = x
      BY <1>1, <1>3, <2>1
    <2> QED BY <1>4, <2>2, InToSet
  <1>6. ASSUME NEW x \in ToSet(t) PROVE x \in ToSet(s \o t)
    <2>1. PICK i \in 1..Len(t) : t[i] = x
      BY InToSet
    <2>2. Len(s) + i \in 1..Len(s \o t) /\ (s \o t)[Len(s) + i] = x
      BY <1>1, <1>2, <2>1
    <2> QED BY <1>4, <2>2, InToSet
  <1> QED BY <1>5, <1>6

LEMMA LinesStep ==
  ASSUME TypeOK, PastInv, AllLines,
         Moved \/ Started \/ Posted \/ Returned \/ Lined
  PROVE  AllLines'
  <1>0. /\ hist \in Seq([session : 0..MaxSessions, insn : Insns])
        /\ session \in 0..MaxSessions /\ Len(hist) \in Nat
        /\ Log \in Seq(Tokens)
    BY LogType DEF TypeOK
  <1>1. ASSUME UNCHANGED <<session, hist>>, ToSet(Log) \subseteq ToSet(Log)'
        PROVE  AllLines'
    BY <1>1 DEF AllLines, Own
  <1>2. CASE Moved
    BY <1>1, <1>2 DEF Moved, History
  <1>3. CASE Started
    <2>1. \A n \in 1..Len(hist) : hist[n].session \in 0..MaxSessions
      <3> TAKE n \in 1..Len(hist)
      <3>1. hist[n] \in [session : 0..MaxSessions, insn : Insns]
        BY <1>0, ElementOfSeq
      <3> QED BY <3>1
    <2>2. session' = session + 1 /\ hist' = hist
      BY <1>3 DEF Started
    <2>3. \A n \in 1..Len(hist) : hist[n].session < session + 1
      BY <1>0, <2>1 DEF PastInv, Sessioned
    <2>4. Own' = {}
      BY <1>0, <2>1, <2>2, <2>3 DEF Own
    <2> QED BY <2>4 DEF AllLines
  <1>4. CASE Posted
    <2>1. Head(write_reg_list) \in Nat
      BY <1>4 DEF Posted, TypeOK
    <2>2. <<Token("post", Head(write_reg_list))>> \in Seq(Tokens)
      BY <2>1, TokenType
    <2>3. ToSet(Log) \subseteq ToSet(Log)'
      BY <1>0, <1>4, <2>2, Kept DEF Posted
    <2> QED BY <1>1, <1>4, <2>3 DEF Posted, History
  <1>5. CASE Returned
    <2>1. ToSet(Log) \subseteq ToSet(Log)'
      BY <1>0, <1>5, ReturnInfoType, Kept DEF Returned
    <2> QED BY <1>1, <1>5, <2>1 DEF Returned, History
  <1>6. CASE Lined
    <2> DEFINE n == Len(hist) + 1
               tok == Token("line", n)
    <2>1. n \in Nat /\ tok \in Tokens /\ <<tok>> \in Seq(Tokens)
      BY <1>0, TokenType
    <2>2. /\ session' = session /\ Len(hist') = n
          /\ hist'[n].session = session
          /\ \A m \in 1..Len(hist) : hist'[m] = hist[m]
      BY <1>0, <1>6 DEF Lined, TypeOK
    <2>3. /\ ToSet(Log) \subseteq ToSet(Log)'
          /\ tok \in ToSet(Log)'
      <3>1. Log' = Log \o <<tok>>
        BY <1>6 DEF Lined
      <3>2. tok \in ToSet(<<tok>>)
        BY DEF ToSet
      <3> HIDE DEF tok
      <3>3. /\ ToSet(Log) \subseteq ToSet(Log \o <<tok>>)
            /\ ToSet(<<tok>>) \subseteq ToSet(Log \o <<tok>>)
        BY <1>0, <2>1, Kept
      <3> QED BY <3>1, <3>2, <3>3
    <2> HIDE DEF n
    <2>4. Own' \subseteq Own \cup {n}
      <3>1. \A m \in 1..n : m = n \/ m \in 1..Len(hist)
        BY <1>0 DEF n
      <3>2. ASSUME NEW m \in Own' PROVE m = n \/ m \in Own
        <4>1. m \in 1..n /\ hist'[m].session = session
          BY <2>2, <3>2 DEF Own
        <4>2. ASSUME m \in 1..Len(hist) PROVE m \in Own
          <5>1. hist[m].session = session
            BY <2>2, <4>1, <4>2
          <5> QED BY <4>2, <5>1 DEF Own
        <4> QED BY <3>1, <4>1, <4>2
      <3> QED BY <3>2
    <2> QED BY <2>3, <2>4 DEF AllLines
  <1> QED BY <1>2, <1>3, <1>4, <1>5, <1>6

LEMMA LinesHold ==
  ASSUME Local
  PROVE  Spec => []AllLines
  <1>1. Init => AllLines
    BY DEF Init, AllLines, Own
  <1>2. /\ TypeOK /\ LocalSession /\ LocalSession' /\ PastInv /\ AllLines
        /\ [Next]_vars
        => AllLines'
    BY LogStep, LinesStep
  <1>3. Spec => []LocalSession
    BY LocalHolds
  <1> QED BY <1>1, <1>2, <1>3, PastHolds, TypeCorrect, PTL DEF Spec

(* Once unrun has returned, every line of the session is in the file: what  *)
(* the log holds, the file of a finished session holds.                     *)
THEOREM LinesSaved ==
  ASSUME Local
  PROVE  Spec => []UnrunSavesLines
  <1>1. TypeOK /\ LocalSession /\ AllLines => UnrunSavesLines
    <2> SUFFICES ASSUME TypeOK, LocalSession, AllLines, cpc = "ready"
                 PROVE  Log = disk
      BY DEF UnrunSavesLines, AllLines
    <2>1. stream = <<>> /\ buffer = <<>> /\ disk \in Seq(Tokens)
      BY DEF LocalSession, TypeOK
    <2> QED BY <2>1, LogMoves, ConcatTokens DEF Log, Unsaved
  <1> QED BY <1>1, TypeCorrect, LinesHold, LocalHolds, PTL

-----------------------------------------------------------------------------
(* Records that the last instruction still owes the log. *)
Owed ==
  (IF write_reg_list = <<>> THEN 0 ELSE 1) + (IF last_func_context.call THEN 2 ELSE 0)

(* The session's instructions are those behind instruction b, its records   *)
(* those behind the first k; until its first line is printed, k still       *)
(* grows by what is owed.                                                   *)
HeadOf(b, k) ==
  /\ Own = b + 1..Len(hist)
  /\ k <= Len(Log)
  /\ \A j \in 1..k : Log[j].insn = b /\ Log[j].kind # "line"
  /\ \A j \in k + 1..Len(Log) : Log[j].insn > b
  /\ b = Len(hist) => k = Len(Log) /\ k + Owed <= 3

StaleInv == \E b \in 0..Len(hist), k \in 0..3 : HeadOf(b, k)

(* A finished call adds two records, both of the calling instruction.       *)
LEMMA TwoRecords ==
  ASSUME TypeOK, InfoInv, last_func_context.call
  PROVE  /\ Len(ReturnInfo) = 2
         /\ \A j \in 1..2 : /\ ReturnInfo[j].insn = last_func_context.owner
                            /\ ReturnInfo[j].kind # "line"
  <1> DEFINE c == Token("call", last_func_context.owner)
             r == Token("ret", last_func_context.owner)
  <1>1. /\ c.insn = last_func_context.owner /\ c.kind # "line"
        /\ r.insn = last_func_context.owner /\ r.kind # "line"
    BY DEF Token
  <1>2. c \in Tokens /\ r \in Tokens
    BY TokenType DEF TypeOK
  <1>3. ReturnInfo = <<c, r>> \/ ReturnInfo = <<c>> \o <<r>>
    BY DEF ReturnInfo, InfoInv
  <1> HIDE DEF c, r
  <1>4. <<c>> \in Seq(Tokens) /\ <<r>> \in Seq(Tokens)
    BY <1>2
  <1>5. /\ Len(<<c>> \o <<r>>) = 2
        /\ (<<c>> \o <<r>>)[1] = c /\ (<<c>> \o <<r>>)[2] = r
    BY <1>4, ConcatProperties
  <1>6. Len(ReturnInfo) = 2 /\ ReturnInfo[1] = c /\ ReturnInfo[2] = r
    <2>1. CASE ReturnInfo = <<c, r>>
      BY <2>1
    <2>2. CASE ReturnInfo = <<c>> \o <<r>>
      BY <1>5, <2>2
    <2> QED BY <1>3, <2>1, <2>2
  <1> QED BY <1>1, <1>6

(* Records of the last instruction keep the log's two parts. *)
LEMMA HeadGrows ==
  ASSUME TypeOK, NEW b \in 0..Len(hist), NEW k \in 0..3, HeadOf(b, k),
         NEW t \in Seq(Tokens), Log' = Log \o t, UNCHANGED History,
         \A j \in 1..Len(t) : t[j].insn = Len(hist) /\ t[j].kind # "line",
         Len(t) + Owed' <= Owed, Owed' \in Nat
  PROVE  StaleInv'
  <1>0. /\ Log \in Seq(Tokens) /\ Len(Log) \in Nat /\ Len(t) \in Nat /\ Len(hist) \in Nat
        /\ Owed \in Nat
    BY LogType DEF TypeOK, Owed
  <1>1. /\ Len(Log') = Len(Log) + Len(t)
        /\ \A j \in 1..Len(Log) : Log'[j] = Log[j]
        /\ \A j \in 1..Len(t) : Log'[Len(Log) + j] = t[j]
    BY <1>0, ConcatProperties
  <1>2. \A j \in Len(Log) + 1..Len(Log') :
          Log'[j].insn = Len(hist) /\ Log'[j].kind # "line"
    <2> TAKE j \in Len(Log) + 1..Len(Log')
    <2>1. j - Len(Log) \in 1..Len(t) /\ Len(Log) + (j - Len(Log)) = j
      BY <1>0, <1>1
    <2>2. Log'[j] = t[j - Len(Log)]
      BY <1>1, <2>1
    <2> QED BY <2>1, <2>2
  <1>3. hist' = hist /\ Own' = Own
    BY DEF History, Own
  <1> HIDE DEF Log, Owed
  <1>4. CASE b = Len(hist)
    <2>1. k = Len(Log) /\ k + Owed <= 3
      BY <1>4 DEF HeadOf
    <2>2. Len(Log') \in 0..3 /\ Len(Log') + Owed' <= 3
      BY <1>0, <1>1, <2>1
    <2>3. \A j \in 1..Len(Log') : Log'[j].insn = b /\ Log'[j].kind # "line"
      <3> TAKE j \in 1..Len(Log')
      <3>1. CASE j \in 1..Len(Log)
        BY <1>1, <2>1, <3>1 DEF HeadOf
      <3>2. CASE j \in Len(Log) + 1..Len(Log')
        BY <1>2, <1>4, <3>2
      <3> QED BY <1>0, <1>1, <3>1, <3>2
    <2>4. PICK m \in 0..3 : m = Len(Log')
      BY <2>2
    <2>5. \A j \in m + 1..Len(Log') : Log'[j].insn > b
      BY <2>4
    <2>6. /\ Own' = b + 1..Len(hist')
          /\ m <= Len(Log') /\ m + Owed' <= 3
      BY <1>3, <2>2, <2>4 DEF HeadOf
    <2>7. HeadOf(b, m)'
      BY <2>3, <2>4, <2>5, <2>6, Zenon DEF HeadOf
    <2>8. b \in 0..Len(hist')
      BY <1>3
    <2> QED BY <2>7, <2>8, Zenon DEF StaleInv
  <1>5. CASE b < Len(hist)
    <2>1. k <= Len(Log')
      BY <1>0, <1>1 DEF HeadOf
    <2>2. \A j \in 1..k : Log'[j].insn = b /\ Log'[j].kind # "line"
      BY <1>0, <1>1 DEF HeadOf
    <2>3. \A j \in k + 1..Len(Log') : Log'[j].insn > b
      <3> TAKE j \in k + 1..Len(Log')
      <3>1. CASE j \in k + 1..Len(Log)
        BY <1>0, <1>1, <3>1 DEF HeadOf
      <3>2. CASE j \in Len(Log) + 1..Len(Log')
        BY <1>2, <1>5, <3>2
      <3> QED BY <1>0, <1>1, <3>1, <3>2
    <2>4. Own' = b + 1..Len(hist') /\ b # Len(hist')
      BY <1>0, <1>3, <1>5 DEF HeadOf
    <2>5. HeadOf(b, k)'
      BY <2>1, <2>2, <2>3, <2>4, Zenon DEF HeadOf
    <2>6. b \in 0..Len(hist')
      BY <1>3
    <2> QED BY <2>5, <2>6, Zenon DEF StaleInv
  <1> QED BY <1>0, <1>4, <1>5

LEMMA StaleStep ==
  ASSUME Inv, PastInv, StaleInv,
         Moved \/ Started \/ Posted \/ Returned \/ Lined
  PROVE  StaleInv'
  <1>0. /\ TypeOK /\ PendingIsLast /\ CalloutStages
        /\ Len(hist) \in Nat /\ Log \in Seq(Tokens) /\ Len(Log) \in Nat
        /\ hist \in Seq([session : 0..MaxSessions, insn : Insns])
        /\ session \in 0..MaxSessions
        /\ last_func_context \in
             [call : BOOLEAN, is_jni : BOOLEAN, owner : Nat, info : Seq(Tokens)]
    BY LogType DEF Inv, TypeOK
  <1>1. PICK b \in 0..Len(hist), k \in 0..3 : HeadOf(b, k)
    BY DEF StaleInv
  <1>a. /\ Own = b + 1..Len(hist)
        /\ k <= Len(Log)
        /\ \A j \in 1..k : Log[j].insn = b /\ Log[j].kind # "line"
        /\ \A j \in k + 1..Len(Log) : Log[j].insn > b
    BY <1>1 DEF HeadOf
  <1>b. Len(hist) \in Nat /\ Len(Log) \in Nat
    BY <1>0
  <1>2. Owed \in 0..3
    BY DEF Owed
  <1> HIDE DEF Log
  <1>3. CASE Moved
    <2>1. UNCHANGED <<Log, hist, Own, Owed>>
      BY <1>3 DEF Moved, History, Pending, Own, Owed
    <2> QED BY <1>1, <2>1 DEF StaleInv, HeadOf
  <1>4. CASE Started
    <2>1. Own' = {} /\ Len(Log') = 0 /\ Owed' = Owed /\ hist' = hist
      <3>1. \A n \in 1..Len(hist) : hist[n].session < session + 1
        <4> TAKE n \in 1..Len(hist)
        <4>1. hist[n] \in [session : 0..MaxSessions, insn : Insns]
          BY <1>0, ElementOfSeq
        <4> QED BY <1>0, <4>1 DEF PastInv, Sessioned
      <3>2. session' = session + 1 /\ hist' = hist /\ UNCHANGED Pending /\ Log' = <<>>
        BY <1>4 DEF Started
      <3>3. Own' = {}
        BY <1>0, <3>1, <3>2 DEF Own
      <3> QED BY <3>2, <3>3 DEF Owed, Pending
    <2>2. Len(hist) \in 0..Len(hist') /\ Own' = Len(hist) + 1..Len(hist')
      BY <1>0, <2>1
    <2>3. PICK n \in 0..Len(hist') : n = Len(hist)
      BY <2>2
    <2>4. /\ Own' = n + 1..Len(hist')
          /\ 0 <= Len(Log') /\ 0 = Len(Log') /\ 0 + Owed' <= 3
      BY <1>2, <2>1, <2>2, <2>3
    <2>5. (\A j \in 1..0 : FALSE) /\ \A j \in 0 + 1..Len(Log') : FALSE
      BY <2>1
    <2>6. HeadOf(n, 0)'
      BY <2>4, <2>5, Zenon DEF HeadOf
    <2>7. 0 \in 0..3
      OBVIOUS
    <2> QED BY <2>6, <2>7, Zenon DEF StaleInv
  <1>5. CASE Posted
    <2>1. Head(write_reg_list) \in Nat /\ Head(write_reg_list) = Len(hist)
      BY <1>0, <1>5 DEF Posted, PendingIsLast, TypeOK
    <2>2. PICK tok \in Tokens : tok = Token("post", Len(hist))
      BY <1>0, TokenType
    <2>3. tok.insn = Len(hist) /\ tok.kind # "line"
      BY <2>2 DEF Token
    <2>4. Log' = Log \o <<tok>> /\ UNCHANGED History
      BY <1>5, <2>1, <2>2 DEF Posted
    <2>5. 1 + Owed' <= Owed /\ Owed' \in Nat
      BY <1>5 DEF Posted, Owed
    <2>6. PICK t \in Seq(Tokens) : t = <<tok>>
      <3>1. <<tok>> \in Seq(Tokens)
        OBVIOUS
      <3> QED BY <3>1
    <2>7. /\ \A j \in 1..Len(t) : t[j].insn = Len(hist) /\ t[j].kind # "line"
          /\ Len(t) = 1
      BY <2>3, <2>6
    <2> QED BY <1>0, <1>1, <2>4, <2>5, <2>6, <2>7, HeadGrows
  <1>6. CASE Returned
    <2>1. /\ last_func_context.call /\ last_func_context.owner = Len(hist)
          /\ Log' = Log \o ReturnInfo /\ UNCHANGED History
      BY <1>0, <1>6 DEF Returned, PendingIsLast
    <2>2. PICK t \in Seq(Tokens) : t = ReturnInfo
      BY <1>0, ReturnInfoType
    <2>3. /\ \A j \in 1..Len(t) : t[j].insn = Len(hist) /\ t[j].kind # "line"
          /\ Len(t) = 2
      BY <1>0, <2>1, <2>2, TwoRecords DEF PastInv
    <2>4. 2 + Owed' <= Owed /\ Owed' \in Nat
      <3>1. last_func_context.call /\ ~last_func_context'.call
            /\ write_reg_list' = write_reg_list
        BY <1>0, <1>6 DEF Returned, CallDone
      <3> QED BY <3>1 DEF Owed
    <2> QED BY <1>0, <1>1, <2>1, <2>2, <2>3, <2>4, HeadGrows
  <1>7. CASE Lined
    <2>1. write_reg_list = <<>> /\ ~last_func_context.call
      BY <1>0, <1>7 DEF Lined, CalloutStages
    <2> DEFINE n == Len(hist) + 1
    <2>2. n \in Nat /\ Token("line", n) \in Tokens
      BY <1>0, TokenType
    <2>3. PICK tok \in Tokens : tok = Token("line", n)
      BY <2>2
    <2>4. Log' = Log \o <<tok>> /\ <<tok>> \in Seq(Tokens) /\ tok.insn = n
      BY <1>7, <2>3 DEF Lined, Token
    <2>5. /\ Len(Log') = Len(Log) + 1
          /\ \A j \in 1..Len(Log) : Log'[j] = Log[j]
          /\ Log'[Len(Log) + 1] = tok
      BY <1>0, <2>4, ConcatProperties
    <2>6. /\ session' = session /\ Len(hist') = n /\ hist'[n].session = session
          /\ \A m \in 1..Len(hist) : hist'[m] = hist[m]
      BY <1>0, <1>7 DEF Lined, TypeOK
    <2>7. Own' = Own \cup {n}
      <3>1. 1..n = 1..Len(hist) \cup {n}
        BY <1>0
      <3> HIDE DEF n
      <3> QED BY <2>6, <3>1 DEF Own
    <2>8. Own' = b + 1..Len(hist') /\ b \in 0..Len(hist') /\ b # Len(hist')
      BY <1>b, <1>a, <2>6, <2>7
    <2>9. k <= Len(Log') /\ \A j \in 1..k : Log'[j].insn = b /\ Log'[j].kind # "line"
      BY <1>b, <1>a, <2>5
    <2>10. \A j \in k + 1..Len(Log') : Log'[j].insn > b
      <3> TAKE j \in k + 1..Len(Log')
      <3>1. CASE j \in k + 1..Len(Log)
        BY <1>b, <1>a, <2>5, <3>1
      <3>2. CASE j = Len(Log) + 1
        BY <1>0, <2>4, <2>5, <3>2
      <3> QED BY <1>0, <2>5, <3>1, <3>2
    <2>11. HeadOf(b, k)'
      BY <2>8, <2>9, <2>10, Zenon DEF HeadOf
    <2> QED BY <2>8, <2>11, Zenon DEF StaleInv
  <1> QED BY <1>3, <1>4, <1>5, <1>6, <1>7

(* A new session's log starts with at most three records of the instruction *)
(* before it, none of them a line, and holds no others that are not its own. *)
THEOREM StaleAtHead ==
  ASSUME Local
  PROVE  Spec => []StaleOnlyAtHead
  <1>1. Init => StaleInv
    <2> SUFFICES ASSUME Init PROVE StaleInv
      OBVIOUS
    <2>1. /\ hist = <<>> /\ write_reg_list = <<>> /\ ~last_func_context.call
          /\ Log = <<>>
      BY ConcatEmptySeq, EmptySeq DEF Init, NoCall, Log, Unsaved
    <2>2. Len(hist) = 0 /\ Len(Log) = 0 /\ Own = {} /\ Owed = 0
      BY <2>1 DEF Own, Owed
    <2>3. HeadOf(0, 0)
      BY <2>2 DEF HeadOf
    <2> QED BY <2>1, <2>2, <2>3 DEF StaleInv
  <1>2. /\ Inv /\ LocalSession /\ LocalSession' /\ PastInv /\ StaleInv
        /\ [Next]_vars
        => StaleInv'
    BY LogStep, StaleStep DEF Inv
  <1>3. TypeOK /\ StaleInv => StaleOnlyAtHead
    <2> SUFFICES ASSUME TypeOK, StaleInv PROVE StaleOnlyAtHead
      OBVIOUS
    <2>1. PICK b \in 0..Len(hist), k \in 0..3 : HeadOf(b, k)
      BY DEF StaleInv
    <2>2. FirstOwn = b + 1
      <3>1. Len(hist) \in Int /\ b + 1 \in Int
        BY DEF TypeOK
      <3>2. Cardinality(b + 1..Len(hist)) = Len(hist) - b
        <4>1. Cardinality(b + 1..Len(hist)) =
                IF b + 1 > Len(hist) THEN 0 ELSE Len(hist) - (b + 1) + 1
          BY <3>1, FS_Interval
        <4> QED BY <3>1, <4>1
      <3> QED BY <2>1, <3>1, <3>2 DEF FirstOwn, HeadOf
    <2>3. \A j \in k + 1..Len(Log) : Log[j].insn >= b + 1
      <3> TAKE j \in k + 1..Len(Log)
      <3>1. Log \in Seq(Tokens) /\ j \in 1..Len(Log)
        BY <2>1, LogType DEF HeadOf
      <3>2. Log[j] \in Tokens
        BY <3>1, ElementOfSeq
      <3>3. Log[j].insn \in Nat
        BY <3>2 DEF Tokens
      <3> QED BY <2>1, <3>3 DEF HeadOf
    <2>4. FirstOwn - 1 = b
      BY <2>2
    <2> QED BY <2>1, <2>2, <2>3, <2>4 DEF StaleOnlyAtHead, HeadOf
  <1> QED BY <1>1, <1>2, <1>3, PastHolds, InvHolds, LocalHolds, TypeCorrect, PTL DEF Spec

-----------------------------------------------------------------------------
(* The lines that have not reached the file are at most as many as callouts *)
(* were counted since the last flush, whichever session counted them.       *)
Lag == Cardinality(Lines(Unsaved))

LagInv ==
  /\ Lag <= trace_flush + (IF tpc = "flush" THEN 1 ELSE 0)
  /\ tpc = "app" => Lag <= FlushLimit[mode]

LEMMA LinesType ==
  ASSUME NEW s \in Seq(Tokens)
  PROVE  /\ Lines(s) \subseteq 1..Len(s) /\ IsFiniteSet(Lines(s))
         /\ Cardinality(Lines(s)) \in Nat
  <1>1. Lines(s) \in SUBSET (1..Len(s))
    BY DEF Lines
  <1>2. 1 \in Int /\ Len(s) \in Int
    OBVIOUS
  <1>3. IsFiniteSet(1..Len(s))
    BY <1>2, FS_Interval
  <1>4. IsFiniteSet(Lines(s))
    BY <1>1, <1>3, FS_Subset
  <1> QED BY <1>1, <1>4, FS_CardinalityType

LEMMA NoLines == Cardinality(Lines(<<>>)) = 0
  <1>1. Lines(<<>>) = {}
    BY DEF Lines
  <1> QED BY <1>1, FS_EmptySet

(* One record more is one line more at most; none, if it is not a line.     *)
LEMMA OneMore ==
  ASSUME NEW s \in Seq(Tokens), NEW tok \in Tokens
  PROVE  /\ Cardinality(Lines(s \o <<tok>>)) <= Cardinality(Lines(s)) + 1
         /\ tok.kind # "line" => Cardinality(Lines(s \o <<tok>>)) = Cardinality(Lines(s))
  <1>0. <<tok>> \in Seq(Tokens) /\ Len(<<tok>>) = 1 /\ <<tok>>[1] = tok
    OBVIOUS
  <1>1. /\ Len(s \o <<tok>>) = Len(s) + 1
        /\ \A i \in 1..Len(s) : (s \o <<tok>>)[i] = s[i]
        /\ (s \o <<tok>>)[Len(s) + 1] = tok
    BY <1>0, ConcatProperties
  <1>2. 1..Len(s) + 1 = 1..Len(s) \cup {Len(s) + 1}
    OBVIOUS
  <1>3. Lines(s \o <<tok>>) =
          IF tok.kind = "line" THEN Lines(s) \cup {Len(s) + 1} ELSE Lines(s)
    BY <1>1, <1>2 DEF Lines
  <1>4. /\ Cardinality(Lines(s)) \in Nat
        /\ Cardinality(Lines(s) \cup {Len(s) + 1}) <= Cardinality(Lines(s)) + 1
    <2>1. IsFiniteSet(Lines(s)) /\ Cardinality(Lines(s)) \in Nat
      BY LinesType
    <2>2. Cardinality(Lines(s) \cup {Len(s) + 1}) =
            IF Len(s) + 1 \in Lines(s) THEN Cardinality(Lines(s))
                                       ELSE Cardinality(Lines(s)) + 1
      BY <2>1, FS_AddElement
    <2> QED BY <2>1, <2>2
  <1> QED BY <1>3, <1>4

(* Records that are not lines add none. *)
LEMMA NoMore ==
  ASSUME NEW s \in Seq(Tokens), NEW t \in Seq(Tokens),
         \A j \in 1..Len(t) : t[j].kind # "line"
  PROVE  Lines(s \o t) = Lines(s)
  <1>1. /\ Len(s \o t) = Len(s) + Len(t)
        /\ \A i \in 1..Len(s) : (s \o t)[i] = s[i]
        /\ \A i \in 1..Len(t) : (s \o t)[Len(s) + i] = t[i]
    BY ConcatProperties
  <1>2. \A j \in 1..Len(s \o t) :
          j \in 1..Len(s) \/ (j - Len(s) \in 1..Len(t) /\ j = Len(s) + (j - Len(s)))
    BY <1>1
  <1>3. \A j \in 1..Len(s \o t) : j \notin 1..Len(s) => (s \o t)[j].kind # "line"
    BY <1>1, <1>2
  <1>4. 1..Len(s) \subseteq 1..Len(s \o t)
    BY <1>1
  <1> QED BY <1>1, <1>3, <1>4 DEF Lines

(* What is left when a front part has gone has no more lines.               *)
LEMMA RestLines ==
  ASSUME NEW s \in Seq(Tokens), NEW t \in Seq(Tokens)
  PROVE  Cardinality(Lines(t)) <= Cardinality(Lines(s \o t))
  <1> DEFINE f == [j \in Lines(t) |-> Len(s) + j]
  <1>1. /\ Len(s \o t) = Len(s) + Len(t)
        /\ \A i \in 1..Len(t) : (s \o t)[Len(s) + i] = t[i]
        /\ s \o t \in Seq(Tokens)
    BY ConcatProperties
  <1>2. \A j \in Lines(t) : j \in 1..Len(t) /\ t[j].kind = "line"
    BY DEF Lines
  <1>3. \A j \in Lines(t) : Len(s) + j \in Lines(s \o t)
    <2> TAKE j \in Lines(t)
    <2>1. Len(s) + j \in 1..Len(s \o t) /\ (s \o t)[Len(s) + j] = t[j]
      BY <1>1, <1>2
    <2> QED BY <1>2, <2>1 DEF Lines
  <1>4. f \in Injection(Lines(t), Lines(s \o t))
    <2>1. f \in [Lines(t) -> Lines(s \o t)]
      BY <1>3
    <2>2. \A i, j \in Lines(t) : f[i] = f[j] => i = j
      BY <1>2
    <2> QED BY <2>1, <2>2 DEF Injection, IsInjective
  <1>5. IsFiniteSet(Lines(s \o t))
    BY <1>1, LinesType
  <1> QED BY <1>4, <1>5, FS_Injection

LEMMA LagStep ==
  ASSUME Local
  PROVE  Inv /\ PastInv /\ LocalSession /\ LagInv /\ [Next]_vars => LagInv'
  <1> SUFFICES ASSUME Inv, PastInv, LocalSession, LagInv, [Next]_vars
               PROVE  LagInv'
    OBVIOUS
  <1>0. /\ TypeOK
        /\ stream \in Seq(Tokens) /\ buffer \in Seq(Tokens) /\ <<>> \in Seq(Tokens)
        /\ trace_flush \in Nat /\ mode \in Modes /\ tpc \in TracedStates
    BY ConcatTokens DEF Inv, TypeOK
  <1>t. \A m \in Modes : FlushLimit[m] \in Nat
    OBVIOUS
  <1>l. Lag \in Nat
    BY <1>0, LogType, LinesType DEF Lag
  <1>a. ~Racing
    BY DEF Local, Racing
  <1>1. ASSUME UNCHANGED <<tpc, trace_flush, mode>>, Lag' <= Lag, Lag' \in Nat
        PROVE  LagInv'
    BY <1>0, <1>t, <1>l, <1>1 DEF LagInv
  <1>2. ASSUME UNCHANGED <<tpc, trace_flush, mode, Unsaved>>
        PROVE  LagInv'
    BY <1>2 DEF LagInv, Lag
  <1>3. ASSUME Lag' = 0, trace_flush' \in Nat, mode' \in Modes
        PROVE  LagInv'
    <2>1. FlushLimit[mode'] \in Nat
      BY <1>t, <1>3
    <2>2. Lag' <= FlushLimit[mode']
      BY <1>3, <2>1
    <2>3. Lag' <= trace_flush' + (IF tpc' = "flush" THEN 1 ELSE 0)
      <3>1. \A n \in Nat : 0 <= n + 0 /\ 0 <= n + 1
        OBVIOUS
      <3>2. trace_flush' \in Nat
        BY <1>3
      <3>3. PICK n \in Nat : n = trace_flush'
        BY <3>2
      <3> QED BY <1>3, <3>1, <3>3, Zenon
    <2> QED BY <2>2, <2>3, Zenon DEF LagInv
  <1>4. ASSUME NEW m \in Modes, NEW opens \in OpenResults, InitCall(m, opens)
        PROVE  LagInv'
    <2>1. /\ stream' = <<>> /\ buffer' = <<>> /\ mode' = m /\ trace_flush' = trace_flush
      BY <1>4 DEF InitCall, LocalSession, traceVars
    <2>2. Unsaved' = <<>>
      BY <1>0, <2>1, ConcatTokens DEF Unsaved
    <2> QED BY <1>0, <1>3, <2>1, <2>2, NoLines DEF Lag
  <1>5. CASE RunCall \/ UnrunCall \/ Detach
    <2>1. (cpc = "reset") = (cpc' = "reset")
      BY <1>5 DEF RunCall, UnrunCall, Detach
    <2> QED BY <1>2, <1>5, <2>1 DEF RunCall, UnrunCall, Detach, traceVars, fileVars, Unsaved
  <1>6. CASE UnfollowWrite
    <2>1. /\ cpc = "unfollowed" /\ cpc' = "reset"
          /\ stream' = stream \o buffer
          /\ UNCHANGED <<tpc, trace_flush, mode>>
      BY <1>6, <1>a DEF UnfollowWrite, Write, Written, LocalSession, traceVars
    <2>2. stream \o buffer \in Seq(Tokens)
      BY <1>0, ConcatTokens
    <2>3. Unsaved' = Unsaved
      BY <2>1, <2>2, ConcatTokens DEF Unsaved
    <2> QED BY <1>2, <2>1, <2>3
  <1>7. CASE UnfollowReset
    <2>1. /\ cpc = "reset" /\ cpc' = "close" /\ buffer' = <<>>
          /\ UNCHANGED <<tpc, trace_flush, mode, stream>>
      BY <1>7 DEF UnfollowReset, traceVars, fileVars
    <2> QED BY <1>2, <2>1 DEF Unsaved
  <1>8. CASE UnfollowClose
    <2>1. /\ buffer' = <<>> /\ stream' = <<>> /\ cpc' = "ready"
          /\ UNCHANGED <<tpc, trace_flush, mode>>
      BY <1>8 DEF UnfollowClose, LocalSession, traceVars
    <2>2. Unsaved' = <<>>
      BY <1>0, <2>1, ConcatTokens DEF Unsaved
    <2> QED BY <1>0, <1>3, <2>1, <2>2, NoLines DEF Lag
  <1>9. ASSUME NEW i \in Insns, CalloutEnter(i)
        PROVE  LagInv'
    <2>1. cpc = "tracing" /\ tpc = "app" /\ tpc' = "post" /\ UNCHANGED <<cpc, trace_flush, mode>>
      BY <1>9 DEF CalloutEnter, LocalSession
    <2>2. \/ stream' = stream \o buffer /\ buffer' = <<>>
          \/ stream' = stream /\ buffer' = buffer
      BY <1>9, <1>a, <2>1 DEF CalloutEnter, Write, Written, LocalSession
    <2>3. stream \o buffer \in Seq(Tokens)
      BY <1>0, ConcatTokens
    <2>4. stream' \o buffer' = stream \o buffer
      BY <1>0, <2>2, <2>3, ConcatTokens
    <2>5. Lag' = Lag
      BY <2>1, <2>4 DEF Unsaved, Lag
    <2> QED BY <2>1, <2>5 DEF LagInv
  <1>10. CASE CalloutPost
    <2>1. /\ cpc = "tracing" /\ tpc = "post" /\ tpc' = "ret"
          /\ UNCHANGED <<cpc, trace_flush, mode, stream>>
      BY <1>10 DEF CalloutPost, LocalSession, fileVars
    <2>2. CASE write_reg_list = <<>>
      <3>1. Lag' = Lag
        BY <1>10, <2>1, <2>2 DEF CalloutPost, Lag, Unsaved
      <3> QED BY <2>1, <3>1 DEF LagInv
    <2>3. CASE write_reg_list # <<>>
      <3>1. Head(write_reg_list) \in Nat
        BY <1>0, <2>3 DEF TypeOK
      <3>2. PICK tok \in Tokens : tok = Token("post", Head(write_reg_list))
        BY <3>1, TokenType
      <3>3. buffer' = buffer \o <<tok>> /\ <<tok>> \in Seq(Tokens) /\ tok.kind # "line"
        BY <1>0, <1>10, <2>3, <3>2, AppendIsConcat DEF CalloutPost, Token
      <3>4. Unsaved' = (stream \o buffer) \o <<tok>>
        BY <1>0, <2>1, <3>3, AssocTokens DEF Unsaved
      <3>5. Unsaved = stream \o buffer /\ Unsaved \in Seq(Tokens)
        BY <1>0, <2>1, LogType DEF Unsaved
      <3>6. Lag' = Lag
        BY <3>3, <3>4, <3>5, OneMore DEF Lag
      <3> QED BY <2>1, <3>6 DEF LagInv
    <2> QED BY <2>2, <2>3
  <1>11. CASE CalloutRet
    <2>1. /\ cpc = "tracing" /\ open /\ tpc = "ret" /\ tpc' = "line"
          /\ UNCHANGED <<cpc, trace_flush, mode>>
      BY <1>11 DEF CalloutRet, LocalSession
    <2>2. CASE ~last_func_context.call
      <3>1. Lag' = Lag
        BY <1>11, <2>1, <2>2 DEF CalloutRet, Lag, Unsaved
      <3> QED BY <2>1, <3>1 DEF LagInv
    <2>3. CASE last_func_context.call
      <3>1. PICK t \in Seq(Tokens) : t = ReturnInfo
        BY <1>0, ReturnInfoType
      <3>2. stream' = (stream \o buffer) \o t /\ buffer' = <<>>
        BY <1>11, <1>a, <2>1, <2>3, <3>1 DEF CalloutRet, Written
      <3>3. Unsaved = stream \o buffer /\ Unsaved \in Seq(Tokens)
        BY <1>0, <2>1, LogType DEF Unsaved
      <3>4. Unsaved \o t \in Seq(Tokens)
        BY <3>1, <3>3, ConcatTokens
      <3>5. Unsaved' = Unsaved \o t
        BY <2>1, <3>2, <3>3, <3>4, ConcatTokens DEF Unsaved
      <3>6. \A j \in 1..Len(t) : t[j].kind # "line"
        BY <1>0, <2>3, <3>1, TwoRecords DEF PastInv
      <3>7. Lines(Unsaved \o t) = Lines(Unsaved)
        BY <3>1, <3>3, <3>6, NoMore
      <3>8. Lag' = Lag
        BY <3>5, <3>7 DEF Lag
      <3> QED BY <2>1, <3>8 DEF LagInv
    <2> QED BY <2>2, <2>3
  <1>12. CASE CalloutLine
    <2>1. /\ cpc = "tracing" /\ tpc = "line" /\ tpc' = "flush"
          /\ UNCHANGED <<cpc, trace_flush, mode, stream>>
      BY <1>12 DEF CalloutLine, LocalSession, fileVars
    <2>2. PICK tok \in Tokens : tok = Token("line", Len(hist) + 1)
      <3>1. Len(hist) + 1 \in Nat
        BY <1>0 DEF TypeOK
      <3> QED BY <3>1, TokenType
    <2>3. buffer' = buffer \o <<tok>> /\ <<tok>> \in Seq(Tokens)
      BY <1>0, <1>12, <2>2, AppendIsConcat DEF CalloutLine
    <2>4. Unsaved' = (stream \o buffer) \o <<tok>>
      BY <1>0, <2>1, <2>3, AssocTokens DEF Unsaved
    <2>5. Unsaved = stream \o buffer /\ Unsaved \in Seq(Tokens)
      BY <1>0, <2>1, LogType DEF Unsaved
    <2>6. Lag' <= Lag + 1 /\ Lag' \in Nat
      <3>1. Unsaved \o <<tok>> \in Seq(Tokens)
        BY <2>3, <2>5, ConcatTokens
      <3> QED BY <2>4, <2>5, <3>1, OneMore, LinesType DEF Lag
    <2> QED BY <1>0, <1>l, <2>1, <2>6 DEF LagInv
  <1>13. CASE CalloutFlush
    <2>1. /\ cpc = "tracing" /\ open /\ tpc = "flush" /\ tpc' = "app"
          /\ UNCHANGED <<cpc, mode>>
      BY <1>13 DEF CalloutFlush, LocalSession
    <2>2. CASE FlushDue
      <3>1. stream' = <<>> /\ buffer' = <<>> /\ trace_flush' = 0
        BY <1>13, <2>1, <2>2 DEF CalloutFlush, WriteAndFlush
      <3>2. Unsaved' = <<>>
        BY <1>0, <2>1, <3>1, ConcatTokens DEF Unsaved
      <3> QED BY <1>0, <1>3, <2>1, <3>1, <3>2, NoLines DEF Lag
    <2>3. CASE ~FlushDue
      <3>1. trace_flush' = trace_flush + 1 /\ UNCHANGED <<stream, buffer>>
        BY <1>13, <2>3 DEF CalloutFlush
      <3>2. Lag' = Lag
        BY <2>1, <3>1 DEF Lag, Unsaved
      <3>3. trace_flush + 1 <= FlushLimit[mode]
        BY <1>0, <1>t, <2>3 DEF FlushDue
      <3> QED BY <1>0, <1>t, <1>l, <2>1, <3>1, <3>2, <3>3 DEF LagInv
    <2> QED BY <2>2, <2>3
  <1>14. ASSUME NEW front \in Seq(Tokens), NEW rest \in Seq(Tokens),
                Unsaved = front \o rest, Unsaved' = rest,
                UNCHANGED <<tpc, trace_flush, mode>>
         PROVE  LagInv'
    <2>1. Lag' <= Lag /\ Lag' \in Nat
      BY <1>14, RestLines, LinesType DEF Lag
    <2> QED BY <1>1, <1>14, <2>1
  <1>15. ASSUME NEW f \in Sessions, Flusher(f)
         PROVE  LagInv'
    <2>1. UNCHANGED <<tpc, trace_flush, mode, cpc, buffer>>
      BY <1>15 DEF Flusher, FlusherCheck, FlusherBegin, FlusherFlush, FlusherWake, traceVars
    <2>2. stream' = stream \/ stream' = <<>>
      BY <1>15 DEF Flusher, FlusherCheck, FlusherBegin, FlusherFlush, FlusherWake, fileVars
    <2>3. PICK r \in Seq(Tokens) : r = IF cpc = "reset" THEN <<>> ELSE buffer
      BY <1>0
    <2>4. Unsaved = stream \o r /\ Unsaved' = stream' \o r
      BY <2>1, <2>3 DEF Unsaved
    <2>5. CASE stream' = stream
      BY <1>2, <2>1, <2>4, <2>5
    <2>6. CASE stream' = <<>>
      <3>1. Unsaved' = r
        BY <2>3, <2>4, <2>6, ConcatTokens
      <3> QED BY <1>0, <1>14, <2>1, <2>3, <2>4, <3>1
    <2> QED BY <2>2, <2>5, <2>6
  <1>16. CASE Spill
    <2>1. UNCHANGED <<tpc, trace_flush, mode, cpc, buffer>>
      BY <1>16 DEF Spill, traceVars
    <2>2. PICK k \in 1..Len(stream) : stream' = SubSeq(stream, k + 1, Len(stream))
      BY <1>16 DEF Spill
    <2>3. PICK r \in Seq(Tokens) : r = IF cpc = "reset" THEN <<>> ELSE buffer
      BY <1>0
    <2>4. Unsaved = stream \o r /\ Unsaved' = stream' \o r
      BY <2>1, <2>3 DEF Unsaved
    <2>5. PICK front, rest \in Seq(Tokens) :
            /\ front = SubSeq(stream, 1, k)
            /\ rest = SubSeq(stream, k + 1, Len(stream)) \o r
            /\ stream \o r = front \o rest
      BY <1>0, <2>3, PassedOn
    <2>6. Unsaved = front \o rest /\ Unsaved' = rest
      BY <2>2, <2>4, <2>5, Zenon
    <2> QED BY <1>14, <2>1, <2>5, <2>6
  <1>17. CASE UNCHANGED vars
    BY <1>2, <1>17 DEF vars, traceVars, fileVars, Unsaved
  <1> QED BY <1>4, <1>5, <1>6, <1>7, <1>8, <1>9, <1>10, <1>11, <1>12, <1>13,
             <1>15, <1>16, <1>17 DEF Next, ControllerSteps, CalloutSteps

(* A crash between two callouts loses at most as many lines as the flush    *)
(* limit of the mode, though init keeps the count of the session before and *)
(* may change the mode.                                                     *)
THEOREM LagBounded ==
  ASSUME Local
  PROVE  Spec => []BoundedLag
  <1>1. Init => LagInv
    <2> SUFFICES ASSUME Init PROVE LagInv
      OBVIOUS
    <2>1. Unsaved = <<>> /\ trace_flush = 0 /\ mode \in Modes
      BY ConcatEmptySeq, EmptySeq DEF Init, Unsaved
    <2>2. FlushLimit[mode] \in Nat
      BY <2>1
    <2> QED BY <2>1, <2>2, NoLines DEF LagInv, Lag
  <1>2. LagInv => BoundedLag
    BY DEF LagInv, Lag, BoundedLag
  <1> QED BY <1>1, <1>2, LagStep, PastHolds, InvHolds, LocalHolds, PTL DEF Spec
-----------------------------------------------------------------------------
(* Everything the tracer printed is in the log, once and in order: behind   *)
(* the records of earlier sessions stand those of this one's instructions.  *)
LEMMA RecordsType ==
  ASSUME NEW n \in Nat
  PROVE  Records(n) \in Seq(Tokens)
  <1>1. PICK i : i = hist[n].insn
    OBVIOUS
  <1>2. PICK p \in Seq(Tokens) :
          p = IF i.writes > 0 /\ n \notin ToSet(write_reg_list)
              THEN <<Token("post", n)>> ELSE <<>>
    BY TokenType, EmptySeq
  <1>3. PICK c \in Seq(Tokens) :
          c = IF i.call # "none" /\ ~(last_func_context.call /\ last_func_context.owner = n)
              THEN <<Token("call", n), Token("ret", n)>> ELSE <<>>
    <2>1. Token("call", n) \in Tokens /\ Token("ret", n) \in Tokens
      BY TokenType
    <2>2. <<Token("call", n), Token("ret", n)>> \in Seq(Tokens) /\ <<>> \in Seq(Tokens)
      BY <2>1
    <2> QED BY <2>2
  <1>4. <<Token("line", n)>> \in Seq(Tokens)
    BY TokenType
  <1>5. (<<Token("line", n)>> \o p) \o c \in Seq(Tokens)
    BY <1>2, <1>3, <1>4, ConcatTokens
  <1>6. Records(n) = (<<Token("line", n)>> \o p) \o c
    BY <1>1, <1>2, <1>3, Zenon DEF Records
  <1> QED BY <1>5, <1>6

(* What r holds for the instructions behind b, up to l. *)
Between(r, b, l) == [k \in 1..l - b |-> r[b + k]]

LEMMA BetweenType ==
  ASSUME NEW l \in Nat, NEW b \in 0..l, NEW r \in [1..l -> Seq(Tokens)]
  PROVE  Between(r, b, l) \in Seq(Seq(Tokens)) /\ Len(Between(r, b, l)) = l - b
  <1>1. l - b \in Nat /\ \A k \in 1..l - b : b + k \in 1..l
    OBVIOUS
  <1>2. \A k \in 1..l - b : r[b + k] \in Seq(Tokens)
    BY <1>1
  <1> QED BY <1>1, <1>2 DEF Between

LEMMA BetweenNone ==
  ASSUME NEW l \in Nat, NEW r
  PROVE  FlattenSeq(Between(r, l, l)) = <<>>
  <1>1. 1..l - l = {}
    OBVIOUS
  <1>2. Between(r, l, l) = <<>>
    BY <1>1 DEF Between
  <1> QED BY <1>2, FlattenEmpty

LEMMA BetweenMore ==
  ASSUME NEW l \in Nat, NEW b \in 0..l, b < l,
         NEW r \in [1..l - 1 -> Seq(Tokens)], NEW q \in [1..l -> Seq(Tokens)],
         \A m \in 1..l - 1 : q[m] = r[m]
  PROVE  FlattenSeq(Between(q, b, l)) = FlattenSeq(Between(r, b, l - 1)) \o q[l]
  <1>1. l - 1 \in Nat /\ b \in 0..l - 1 /\ l - 1 - b \in Nat /\ l \in 1..l
    OBVIOUS
  <1>2. PICK ss \in Seq(Seq(Tokens)) : ss = Between(r, b, l - 1) /\ Len(ss) = l - 1 - b
    BY <1>1, BetweenType
  <1>3. PICK s \in Seq(Tokens) : s = q[l]
    BY <1>1
  <1>4. PICK w \in Seq(Seq(Tokens)) : w = Between(q, b, l) /\ Len(w) = l - b
    BY BetweenType
  <1>5. w = Append(ss, s)
    <2>1. Append(ss, s) \in Seq(Seq(Tokens)) /\ Len(Append(ss, s)) = l - b
      BY <1>1, <1>2
    <2>2. \A k \in 1..l - b : w[k] = Append(ss, s)[k]
      <3> TAKE k \in 1..l - b
      <3>1. w[k] = q[b + k]
        BY <1>4 DEF Between
      <3>2. CASE k = l - b
        <4>1. b + k = l /\ Append(ss, s)[k] = s
          BY <1>1, <1>2, <3>2
        <4> QED BY <1>3, <3>1, <4>1
      <3>3. CASE k # l - b
        <4>1. k \in 1..l - 1 - b /\ b + k \in 1..l - 1
          BY <1>1, <3>3
        <4>2. Append(ss, s)[k] = ss[k]
          BY <1>2, <4>1
        <4>3. ss[k] = r[b + k]
          BY <1>2, <4>1 DEF Between
        <4> QED BY <3>1, <4>1, <4>2, <4>3
      <3> QED BY <3>2, <3>3
    <2> QED BY <1>4, <2>1, <2>2, SeqEqual
  <1>6. FlattenSeq(Append(ss, s)) = FlattenSeq(ss) \o s
    BY FlattenAppend
  <1> QED BY <1>2, <1>3, <1>4, <1>5, <1>6

-----------------------------------------------------------------------------
(* The session's instructions are those behind b; the log is what earlier   *)
(* ones left, and behind it what the session's have printed.                *)
AllRecords == [m \in 1..Len(hist) |-> Records(m)]

ExecOf(b, head) ==
  /\ Own = b + 1..Len(hist)
  /\ Log = head \o FlattenSeq(Between(AllRecords, b, Len(hist)))
  /\ \A j \in 1..Len(head) : head[j].insn <= b

ExecInv == \E b \in 0..Len(hist), head \in Seq(Tokens) : ExecOf(b, head)

LEMMA ExecGrows ==
  ASSUME TypeOK, NEW b \in 0..Len(hist), NEW head \in Seq(Tokens), ExecOf(b, head),
         NEW t \in Seq(Tokens), Log' = Log \o t, UNCHANGED History,
         \A j \in 1..Len(t) : t[j].insn <= Len(hist),
         \A m \in 1..Len(hist) : AllRecords'[m] =
           IF m = Len(hist) THEN AllRecords[m] \o t ELSE AllRecords[m]
  PROVE  ExecInv'
  <1>0. hist \in Seq([session : 0..MaxSessions, insn : Insns])
    BY DEF TypeOK
  <1>1. PICK l \in Nat : l = Len(hist)
    BY <1>0
  <1>2. /\ Own' = Own /\ hist' = hist /\ b \in 0..l
        /\ Own = b + 1..l /\ Log = head \o FlattenSeq(Between(AllRecords, b, l))
        /\ \A j \in 1..Len(head) : head[j].insn <= b
    BY <1>1 DEF History, Own, ExecOf
  <1>r. PICK r \in [1..l -> Seq(Tokens)] : r = AllRecords
    <2>1. \A m \in 1..l : Records(m) \in Seq(Tokens)
      BY RecordsType
    <2> QED BY <1>1, <2>1 DEF AllRecords
  <1>q. PICK q \in [1..l -> Seq(Tokens)] :
          /\ q = AllRecords'
          /\ \A m \in 1..l : q[m] = IF m = l THEN r[m] \o t ELSE r[m]
    <2>1. PICK q : q = AllRecords'
      OBVIOUS
    <2>2. q = [m \in 1..l |-> q[m]]
      BY <1>1, <1>2, <2>1 DEF AllRecords
    <2>3. \A m \in 1..l : q[m] = IF m = l THEN r[m] \o t ELSE r[m]
      BY <1>1, <1>r, <2>1
    <2>4. \A m \in 1..l : q[m] \in Seq(Tokens)
      <3> TAKE m \in 1..l
      <3>1. r[m] \in Seq(Tokens)
        OBVIOUS
      <3>2. r[m] \o t \in Seq(Tokens)
        BY <3>1, ConcatTokens
      <3> QED BY <2>3, <3>1, <3>2
    <2>5. q \in [1..l -> Seq(Tokens)]
      BY <2>2, <2>4
    <2> QED BY <2>1, <2>3, <2>5
  <1>3. CASE b = l
    <2>1. FlattenSeq(Between(r, b, l)) = <<>> /\ FlattenSeq(Between(q, b, l)) = <<>>
      BY <1>3, BetweenNone
    <2>2. Log = head
      BY <1>2, <1>r, <2>1
    <2>3. PICK h \in Seq(Tokens) : h = head \o t
      BY ConcatTokens
    <2>4. \A j \in 1..Len(h) : h[j].insn <= b
      <3>1. /\ Len(h) = Len(head) + Len(t) /\ Len(head) \in Nat /\ Len(t) \in Nat
            /\ \A j \in 1..Len(h) : h[j] = IF j <= Len(head) THEN head[j] ELSE t[j - Len(head)]
        BY <2>3
      <3> TAKE j \in 1..Len(h)
      <3>2. CASE j <= Len(head)
        <4>1. j \in 1..Len(head) /\ h[j] = head[j]
          BY <3>1, <3>2
        <4> QED BY <1>2, <4>1
      <3>3. CASE j > Len(head)
        <4>1. j - Len(head) \in 1..Len(t) /\ h[j] = t[j - Len(head)]
          BY <3>1, <3>3
        <4> QED BY <1>1, <1>3, <4>1
      <3> QED BY <3>1, <3>2, <3>3
    <2>5. Log' = h \o FlattenSeq(Between(q, b, l))
      BY <2>1, <2>2, <2>3
    <2>6. ExecOf(b, h)'
      BY <1>1, <1>2, <1>q, <2>4, <2>5 DEF ExecOf
    <2> QED BY <1>1, <1>2, <2>6 DEF ExecInv
  <1>4. CASE b < l
    <2>1. PICK p \in [1..l - 1 -> Seq(Tokens)] : p = [m \in 1..l - 1 |-> r[m]]
      <3>1. \A m \in 1..l - 1 : m \in 1..l
        OBVIOUS
      <3> QED BY <3>1
    <2>2. /\ l \in 1..l /\ q \in [1..l -> Seq(Tokens)]
          /\ q[l] = r[l] \o t
          /\ \A m \in 1..l - 1 : q[m] = r[m] /\ p[m] = r[m]
      <3>1. l \in 1..l
        BY <1>2, <1>4
      <3>3. \A m \in 1..l - 1 : m \in 1..l /\ m # l
        OBVIOUS
      <3>4. q[l] = r[l] \o t /\ \A m \in 1..l - 1 : q[m] = r[m]
        BY <1>q, <3>1, <3>3
      <3>5. \A m \in 1..l - 1 : p[m] = r[m]
        BY <2>1
      <3> QED BY <3>1, <3>4, <3>5
    <2>3. /\ FlattenSeq(Between(r, b, l)) = FlattenSeq(Between(p, b, l - 1)) \o r[l]
          /\ FlattenSeq(Between(q, b, l)) = FlattenSeq(Between(p, b, l - 1)) \o q[l]
      BY <1>2, <1>4, <2>1, <2>2, BetweenMore
    <2>4. PICK e \in Seq(Tokens) : e = FlattenSeq(Between(p, b, l - 1))
      <3>1. l - 1 \in Nat /\ b \in 0..l - 1
        BY <1>2, <1>4
      <3> QED BY <3>1, BetweenType, FlattenType
    <2>5. PICK c \in Seq(Tokens) : c = r[l]
      BY <2>2
    <2>6. Log' = (head \o (e \o c)) \o t
      BY <1>2, <1>r, <2>3, <2>4, <2>5
    <2>7. (head \o (e \o c)) \o t = head \o (e \o (c \o t))
      <3>1. PICK ec \in Seq(Tokens) : ec = e \o c
        BY ConcatTokens
      <3>2. (head \o ec) \o t = head \o (ec \o t)
        BY AssocTokens
      <3>3. (e \o c) \o t = e \o (c \o t)
        BY AssocTokens
      <3> QED BY <3>1, <3>2, <3>3
    <2>8. Log' = head \o FlattenSeq(Between(q, b, l))
      BY <2>2, <2>3, <2>4, <2>5, <2>6, <2>7
    <2>9. ExecOf(b, head)'
      BY <1>1, <1>2, <1>q, <2>8 DEF ExecOf
    <2> QED BY <1>1, <1>2, <2>9 DEF ExecInv
  <1> QED BY <1>2, <1>3, <1>4

-----------------------------------------------------------------------------
(* Behind its line, an instruction's register values and its call. *)
Posts(n) ==
  IF hist[n].insn.writes > 0 /\ n \notin ToSet(write_reg_list)
  THEN <<Token("post", n)>> ELSE <<>>
Calls(n) ==
  IF hist[n].insn.call # "none"
     /\ ~(last_func_context.call /\ last_func_context.owner = n)
  THEN <<Token("call", n), Token("ret", n)>> ELSE <<>>

LEMMA RecordsParts == \A n : Records(n) = (<<Token("line", n)>> \o Posts(n)) \o Calls(n)
  BY Zenon DEF Records, Posts, Calls

LEMMA AllEqual ==
  ASSUME NEW w \in Seq(Nat), NEW n, \A k \in 1..Len(w) : w[k] = n
  PROVE  ToSet(w) = IF w = <<>> THEN {} ELSE {n}
  <1>1. DOMAIN w = 1..Len(w) /\ Len(w) \in Nat
    OBVIOUS
  <1>2. CASE w = <<>>
    BY <1>1, <1>2 DEF ToSet
  <1>3. CASE w # <<>>
    <2>1. 1 \in 1..Len(w)
      BY <1>1, <1>3
    <2> QED BY <1>1, <1>3, <2>1 DEF ToSet
  <1> QED BY <1>2, <1>3

LEMMA RecordsPosted ==
  ASSUME Inv, PastInv, Posted
  PROVE  \A m \in 1..Len(hist) : AllRecords'[m] =
           IF m = Len(hist) THEN AllRecords[m] \o <<Token("post", Len(hist))>> ELSE AllRecords[m]
  <1>0. /\ write_reg_list \in Seq(Nat) /\ Len(hist) \in Nat
        /\ write_reg_list # <<>> /\ write_reg_list' = <<>>
        /\ UNCHANGED <<hist, last_func_context>>
    BY DEF Inv, TypeOK, Posted, History
  <1>1. ToSet(write_reg_list) = {Len(hist)} /\ ToSet(<<>>) = {}
    <2>1. \A k \in 1..Len(write_reg_list) : write_reg_list[k] = Len(hist)
      BY DEF Inv, PendingIsLast
    <2> QED BY <1>0, <2>1, AllEqual DEF ToSet
  <1>2. PICK l \in Nat : l = Len(hist)
    BY <1>0
  <1>3. ASSUME NEW n \in 1..l, n # l
        PROVE  Records(n)' = Records(n)
    BY <1>0, <1>1, <1>2, <1>3 DEF Records
  <1>4. ASSUME l > 0
        PROVE  Records(l)' = Records(l) \o <<Token("post", l)>>
    <2>1. /\ hist[l].insn.writes > 0
          /\ hist[l].insn.call # "none" => last_func_context.call
      BY <1>0, <1>2 DEF PastInv, PendingOwed
    <2>2. last_func_context.call => last_func_context.owner = l
      BY <1>2 DEF Inv, PendingIsLast
    <2>3. Posts(l) = <<>> /\ Posts(l)' = <<Token("post", l)>>
      BY <1>0, <1>1, <1>2, <2>1 DEF Posts
    <2>4. Calls(l) = <<>> /\ Calls(l)' = <<>>
      BY <1>0, <2>1, <2>2 DEF Calls
    <2>5. PICK x, y \in Seq(Tokens) : x = <<Token("line", l)>> /\ y = <<Token("post", l)>>
      BY TokenType
    <2>6. /\ Records(l) = (x \o <<>>) \o <<>>
          /\ Records(l)' = (x \o y) \o <<>>
      BY <2>3, <2>4, <2>5 DEF Records, Posts, Calls
    <2>7. (x \o <<>>) \o <<>> = x /\ (x \o y) \o <<>> = x \o y
      BY ConcatTokens
    <2> QED BY <2>5, <2>6, <2>7
  <1>5. \A m \in 1..l : AllRecords[m] = Records(m) /\ AllRecords'[m] = Records(m)'
    BY <1>0, <1>2 DEF AllRecords
  <1>6. \A m \in 1..l : Records(m)' = IF m = l THEN Records(m) \o <<Token("post", l)>> ELSE Records(m)
    <2> TAKE m \in 1..l
    <2>1. l > 0
      OBVIOUS
    <2> QED BY <1>3, <1>4, <2>1
  <1> QED BY <1>2, <1>5, <1>6

LEMMA RecordsReturned ==
  ASSUME Inv, PastInv, Returned
  PROVE  \A m \in 1..Len(hist) : AllRecords'[m] =
           IF m = Len(hist) THEN AllRecords[m] \o ReturnInfo ELSE AllRecords[m]
  <1>0. /\ Len(hist) \in Nat
        /\ last_func_context.call /\ ~last_func_context'.call
        /\ last_func_context.owner = Len(hist)
        /\ UNCHANGED <<hist, write_reg_list>>
    BY DEF Inv, TypeOK, PendingIsLast, Returned, History, CallDone
  <1>1. PICK l \in Nat : l = Len(hist)
    BY <1>0
  <1>2. ReturnInfo = <<Token("call", l), Token("ret", l)>>
    <2>1. CASE last_func_context.is_jni
      BY <1>0, <1>1, <2>1 DEF ReturnInfo
    <2>2. CASE ~last_func_context.is_jni
      <3>1. ReturnInfo = <<Token("call", l)>> \o <<Token("ret", l)>>
        BY <1>0, <1>1, <2>2 DEF ReturnInfo, PastInv, InfoInv
      <3>2. PICK x, y \in Tokens : x = Token("call", l) /\ y = Token("ret", l)
        BY TokenType
      <3>3. <<x>> \o <<y>> = Append(<<x>>, y)
        <4>1. <<x>> \in Seq(Tokens)
          OBVIOUS
        <4> QED BY <4>1, AppendIsConcat
      <3>4. Append(<<x>>, y) = <<x, y>>
        <4>1. Append(<<x>>, y) \in Seq(Tokens) /\ <<x, y>> \in Seq(Tokens)
          OBVIOUS
        <4>2. /\ Len(Append(<<x>>, y)) = 2 /\ Len(<<x, y>>) = 2
              /\ Append(<<x>>, y)[1] = x /\ Append(<<x>>, y)[2] = y
          OBVIOUS
        <4>3. \A k \in 1..2 : k = 1 \/ k = 2
          OBVIOUS
        <4>4. \A k \in 1..2 : Append(<<x>>, y)[k] = <<x, y>>[k]
          BY <4>2, <4>3
        <4> QED BY <4>1, <4>2, <4>4, SeqEqual
      <3> QED BY <3>1, <3>2, <3>3, <3>4
    <2> QED BY <2>1, <2>2
  <1>3. ASSUME NEW n \in 1..l, n # l
        PROVE  Records(n)' = Records(n)
    BY <1>0, <1>1, <1>3 DEF Records
  <1>4. ASSUME l > 0
        PROVE  Records(l)' = Records(l) \o ReturnInfo
    <2>1. hist[l].insn.call # "none"
      BY <1>0, <1>1 DEF PastInv, PendingOwed
    <2>2. Calls(l) = <<>> /\ Calls(l)' = ReturnInfo
      BY <1>0, <1>1, <1>2, <2>1 DEF Calls
    <2>3. PICK x \in Seq(Tokens) : x = <<Token("line", l)>> \o Posts(l)
      <3>1. <<Token("line", l)>> \in Seq(Tokens) /\ <<Token("post", l)>> \in Seq(Tokens)
        BY TokenType
      <3> QED BY <3>1, ConcatTokens DEF Posts
    <2>4. Posts(l)' = Posts(l)
      BY <1>0 DEF Posts
    <2>5. Records(l) = x \o <<>> /\ Records(l)' = x \o ReturnInfo
      BY <2>2, <2>3, <2>4 DEF Records, Posts, Calls
    <2>6. x \o <<>> = x
      BY ConcatTokens
    <2> QED BY <2>5, <2>6
  <1>5. \A m \in 1..l : AllRecords[m] = Records(m) /\ AllRecords'[m] = Records(m)'
    BY <1>0, <1>1 DEF AllRecords
  <1>6. \A m \in 1..l : Records(m)' = IF m = l THEN Records(m) \o ReturnInfo ELSE Records(m)
    <2> TAKE m \in 1..l
    <2>1. l > 0
      OBVIOUS
    <2> QED BY <1>3, <1>4, <2>1
  <1> QED BY <1>1, <1>5, <1>6

LEMMA RecordsLined ==
  ASSUME Inv, PastInv, Lined
  PROVE  /\ Len(hist') = Len(hist) + 1
         /\ \A m \in 1..Len(hist) : AllRecords'[m] = AllRecords[m]
         /\ AllRecords'[Len(hist) + 1] = <<Token("line", Len(hist) + 1)>>
  <1>n. PICK n \in Nat : n = Len(hist) + 1
    BY DEF Inv, TypeOK
  <1>0. /\ Len(hist) \in Nat /\ hist \in Seq([session : 0..MaxSessions, insn : Insns])
        /\ session \in 0..MaxSessions /\ cur \in Insns
        /\ hist' = Append(hist, [session |-> session, insn |-> cur])
        /\ write_reg_list = <<>> /\ ~last_func_context.call
        /\ write_reg_list' = write_reg_list \o RegsWritten(cur, n)
        /\ last_func_context' = NoteCall(cur, n)
        /\ last_func_context \in
             [call : BOOLEAN, is_jni : BOOLEAN, owner : Nat, info : Seq(Tokens)]
    BY <1>n DEF Inv, TypeOK, CalloutStages, Lined
  <1>1. /\ Len(hist') = n /\ hist'[n].insn = cur
        /\ \A m \in 1..Len(hist) : hist'[m] = hist[m]
        /\ n \in 1..n /\ \A m \in 1..Len(hist) : m \in 1..n /\ m # n
    BY <1>0, <1>n
  <1>2. cur.writes \in Nat /\ cur.call \in {"none", "func", "jni"}
    BY <1>0
  <1>3. PICK w \in Seq(Nat) : /\ w = write_reg_list' /\ Len(w) = cur.writes
                             /\ \A k \in 1..Len(w) : w[k] = n
    <2>1. RegsWritten(cur, n) \in Seq(Nat) /\ Len(RegsWritten(cur, n)) = cur.writes
      BY <1>1, <1>2 DEF RegsWritten
    <2>2. write_reg_list' = RegsWritten(cur, n)
      BY <1>0, <2>1, ConcatEmptySeq
    <2> QED BY <2>1, <2>2 DEF RegsWritten
  <1>4. ToSet(write_reg_list') = IF cur.writes > 0 THEN {n} ELSE {}
    <2>1. ToSet(w) = IF w = <<>> THEN {} ELSE {n}
      BY <1>3, AllEqual
    <2>2. w = <<>> <=> Len(w) = 0
      OBVIOUS
    <2> QED BY <1>2, <1>3, <2>1, <2>2
  <1>5. ToSet(write_reg_list) = {}
    BY <1>0 DEF ToSet
  <1>6. /\ last_func_context'.call = (cur.call # "none")
        /\ last_func_context'.call => last_func_context'.owner = n
    <2>1. CASE cur.call = "none"
      BY <1>0, <2>1 DEF NoteCall
    <2>2. CASE cur.call = "func"
      BY <1>0, <2>2 DEF NoteCall
    <2>3. CASE cur.call = "jni"
      BY <1>0, <2>3 DEF NoteCall
    <2> QED BY <1>2, <2>1, <2>2, <2>3
  <1>7. ASSUME NEW m \in 1..Len(hist)
        PROVE  Records(m)' = Records(m)
    <2>1. hist'[m] = hist[m] /\ m # n
      BY <1>1
    <2>2. m \notin ToSet(write_reg_list') /\ m \notin ToSet(write_reg_list)
      BY <1>4, <1>5, <2>1
    <2>3. /\ ~(last_func_context'.call /\ last_func_context'.owner = m)
          /\ ~(last_func_context.call /\ last_func_context.owner = m)
      BY <1>0, <1>6, <2>1
    <2> QED BY <2>1, <2>2, <2>3 DEF Records
  <1>8. Records(n)' = <<Token("line", n)>>
    <2>1. Posts(n)' = <<>>
      BY <1>1, <1>4 DEF Posts
    <2>2. Calls(n)' = <<>>
      BY <1>1, <1>6 DEF Calls
    <2>3. PICK x \in Seq(Tokens) : x = <<Token("line", n)>>
      BY <1>1, TokenType
    <2>4. Records(n)' = (x \o <<>>) \o <<>>
      BY <2>1, <2>2, <2>3 DEF Records, Posts, Calls
    <2> QED BY <2>3, <2>4, ConcatTokens
  <1>9. AllRecords' = [m \in 1..n |-> Records(m)']
    BY <1>1 DEF AllRecords
  <1>10. \A m \in 1..Len(hist) : AllRecords'[m] = AllRecords[m]
    BY <1>1, <1>7, <1>9 DEF AllRecords
  <1>11. AllRecords'[n] = <<Token("line", n)>>
    BY <1>1, <1>8, <1>9
  <1> QED BY <1>n, <1>1, <1>10, <1>11

-----------------------------------------------------------------------------
(* A session begins, with what the one before left in the buffer. *)
Opened ==
  /\ session' = session + 1 /\ UNCHANGED <<hist, Pending>>
  /\ Log' \in Seq(Tokens) /\ \A j \in 1..Len(Log') : Log'[j].insn <= Len(hist)

LEMMA ExecOpens ==
  ASSUME Inv, PastInv, Opened
  PROVE  ExecInv'
  <1>0. /\ Len(hist) \in Nat /\ session \in 0..MaxSessions /\ session \in Nat
        /\ hist \in Seq([session : 0..MaxSessions, insn : Insns])
        /\ session' = session + 1 /\ hist' = hist
    BY DEF Inv, TypeOK, Opened
  <1>1. Own' = {}
    <2> SUFFICES ASSUME NEW n \in 1..Len(hist), hist[n].session = session + 1
                 PROVE  FALSE
      BY <1>0 DEF Own
    <2>1. hist[n].session <= session
      BY DEF PastInv, Sessioned
    <2> QED BY <1>0, <2>1
  <1>2. PICK l \in Nat : l = Len(hist)
    BY <1>0
  <1>3. PICK h \in Seq(Tokens) : h = Log'
    BY DEF Opened
  <1>4. PICK q : q = AllRecords'
    OBVIOUS
  <1>5. FlattenSeq(Between(q, l, l)) = <<>>
    BY BetweenNone
  <1>6. Log' = h \o FlattenSeq(Between(q, l, l))
    BY <1>3, <1>5, ConcatTokens
  <1>7. l + 1..l = {} /\ l \in 0..l
    OBVIOUS
  <1>8. \A j \in 1..Len(h) : h[j].insn <= l
    BY <1>2, <1>3 DEF Opened
  <1>9. ExecOf(l, h)'
    BY <1>0, <1>1, <1>2, <1>4, <1>6, <1>7, <1>8 DEF ExecOf
  <1> QED BY <1>0, <1>2, <1>7, <1>9 DEF ExecInv

LEMMA ExecLined ==
  ASSUME Inv, PastInv, ExecInv, Lined
  PROVE  ExecInv'
  <1>0. hist \in Seq([session : 0..MaxSessions, insn : Insns]) /\ Len(hist) \in Nat
    BY DEF Inv, TypeOK
  <1>1. PICK n \in Nat : n = Len(hist) + 1
    BY <1>0
  <1>2. PICK b \in 0..Len(hist), head \in Seq(Tokens) : ExecOf(b, head)
    BY DEF ExecInv
  <1>3. b \in 0..n /\ b \in 0..n - 1 /\ b < n /\ n - 1 = Len(hist) /\ n - 1 \in Nat
    BY <1>0, <1>1, <1>2
  <1>4. PICK r \in [1..n - 1 -> Seq(Tokens)] : r = AllRecords
    <2>1. \A m \in 1..n - 1 : Records(m) \in Seq(Tokens)
      BY RecordsType
    <2> QED BY <1>3, <2>1 DEF AllRecords
  <1>5. PICK tok \in Tokens : tok = Token("line", n)
    BY TokenType
  <1>6. /\ Len(hist') = n
        /\ \A m \in 1..n - 1 : AllRecords'[m] = r[m]
        /\ AllRecords'[n] = <<tok>>
    BY <1>1, <1>3, <1>4, <1>5, RecordsLined
  <1>7. PICK q \in [1..n -> Seq(Tokens)] :
          q = AllRecords' /\ (\A m \in 1..n - 1 : q[m] = r[m]) /\ q[n] = <<tok>>
    <2>1. PICK q : q = AllRecords'
      OBVIOUS
    <2>2. q = [m \in 1..n |-> q[m]]
      BY <1>6, <2>1 DEF AllRecords
    <2>3. \A m \in 1..n : q[m] \in Seq(Tokens)
      <3> TAKE m \in 1..n
      <3>1. CASE m = n
        <4>1. <<tok>> \in Seq(Tokens)
          OBVIOUS
        <4> QED BY <1>6, <2>1, <3>1, <4>1
      <3>2. CASE m # n
        <4>1. m \in 1..n - 1
          BY <3>2
        <4> QED BY <1>6, <2>1, <4>1
      <3> QED BY <3>1, <3>2
    <2>4. q \in [1..n -> Seq(Tokens)]
      BY <2>2, <2>3
    <2> QED BY <1>6, <2>1, <2>4
  <1>8. FlattenSeq(Between(q, b, n)) = FlattenSeq(Between(r, b, n - 1)) \o <<tok>>
    BY <1>3, <1>7, BetweenMore
  <1>9. PICK e \in Seq(Tokens) : e = FlattenSeq(Between(r, b, n - 1))
    BY <1>3, BetweenType, FlattenType
  <1>10. Log = head \o e /\ Log' = Log \o <<tok>> /\ <<tok>> \in Seq(Tokens)
    BY <1>1, <1>2, <1>3, <1>4, <1>5, <1>9 DEF ExecOf, Lined
  <1>11. (head \o e) \o <<tok>> = head \o (e \o <<tok>>)
    BY <1>10, AssocTokens
  <1>12. Log' = head \o FlattenSeq(Between(q, b, n))
    BY <1>8, <1>9, <1>10, <1>11
  <1>13. Own' = b + 1..n
    <2>1. /\ session' = session /\ hist'[n].session = session
          /\ \A m \in 1..n - 1 : hist'[m] = hist[m]
      BY <1>0, <1>1, <1>3 DEF Lined
    <2>2. Own = b + 1..n - 1
      BY <1>2, <1>3 DEF ExecOf
    <2>3. \A m \in 1..n : m = n \/ m \in 1..n - 1
      OBVIOUS
    <2>4. \A m \in 1..n - 1 : hist[m].session = session <=> m \in b + 1..n - 1
      BY <1>3, <2>2 DEF Own
    <2>5. \A m \in 1..n : hist'[m].session = session' <=> m \in b + 1..n
      <3> TAKE m \in 1..n
      <3>1. CASE m = n
        BY <1>3, <2>1, <3>1
      <3>2. CASE m # n
        <4>1. m \in 1..n - 1
          BY <3>2
        <4>2. m \in b + 1..n <=> m \in b + 1..n - 1
          BY <1>3, <4>1
        <4> QED BY <2>1, <2>4, <4>1, <4>2
      <3> QED BY <3>1, <3>2
    <2>6. b + 1..n \subseteq 1..n
      BY <1>3
    <2> QED BY <1>6, <2>5, <2>6 DEF Own
  <1>14. \A j \in 1..Len(head) : head[j].insn <= b
    BY <1>2 DEF ExecOf
  <1>15. ExecOf(b, head)'
    BY <1>6, <1>7, <1>12, <1>13, <1>14 DEF ExecOf
  <1> QED BY <1>3, <1>6, <1>15 DEF ExecInv

LEMMA ExecStep ==
  ASSUME Inv, PastInv, ExecInv, Moved \/ Posted \/ Returned \/ Lined
  PROVE  ExecInv'
  <1>0. /\ TypeOK /\ Len(hist) \in Nat
        /\ last_func_context \in
             [call : BOOLEAN, is_jni : BOOLEAN, owner : Nat, info : Seq(Tokens)]
    BY DEF Inv, TypeOK
  <1>1. PICK b \in 0..Len(hist), head \in Seq(Tokens) : ExecOf(b, head)
    BY DEF ExecInv
  <1>2. CASE Moved
    <2>1. UNCHANGED <<Log, hist, Own, AllRecords>>
      BY <1>2 DEF Moved, History, Pending, Own, AllRecords, Records
    <2> QED BY <1>1, <2>1 DEF ExecInv, ExecOf
  <1>3. CASE Posted
    <2>1. Head(write_reg_list) = Len(hist)
      <3>1. write_reg_list \in Seq(Nat) /\ write_reg_list # <<>>
        BY <1>3 DEF Inv, TypeOK, Posted
      <3> QED BY <3>1 DEF Inv, PendingIsLast
    <2>2. PICK tok \in Tokens : tok = Token("post", Len(hist)) /\ tok.insn = Len(hist)
      BY <1>0, TokenType DEF Token
    <2>3. PICK t \in Seq(Tokens) : t = <<tok>> /\ Len(t) = 1 /\ t[1] = tok
      <3>1. <<tok>> \in Seq(Tokens) /\ Len(<<tok>>) = 1 /\ <<tok>>[1] = tok
        OBVIOUS
      <3> QED BY <3>1
    <2>4. \A j \in 1..Len(t) : t[j].insn <= Len(hist)
      <3> TAKE j \in 1..Len(t)
      <3>1. j = 1
        BY <2>3
      <3> QED BY <1>0, <2>2, <2>3, <3>1
    <2>5. Log' = Log \o t /\ UNCHANGED History
      BY <1>3, <2>1, <2>2, <2>3 DEF Posted
    <2>6. \A m \in 1..Len(hist) : AllRecords'[m] =
            IF m = Len(hist) THEN AllRecords[m] \o t ELSE AllRecords[m]
      BY <1>3, <2>2, <2>3, RecordsPosted
    <2> QED BY <1>0, <1>1, <2>4, <2>5, <2>6, ExecGrows
  <1>4. CASE Returned
    <2>1. last_func_context.call /\ last_func_context.owner = Len(hist)
      BY <1>4 DEF Returned, Inv, PendingIsLast
    <2>2. PICK t \in Seq(Tokens) : t = ReturnInfo
      BY <1>0, ReturnInfoType
    <2>3. \A j \in 1..Len(t) : t[j].insn <= Len(hist)
      <3>1. Len(t) = 2 /\ \A j \in 1..2 : t[j].insn = Len(hist)
        BY <1>0, <2>1, <2>2, TwoRecords DEF PastInv
      <3> QED BY <1>0, <3>1
    <2>4. Log' = Log \o t /\ UNCHANGED History
      BY <1>4, <2>2 DEF Returned
    <2>5. \A m \in 1..Len(hist) : AllRecords'[m] =
            IF m = Len(hist) THEN AllRecords[m] \o t ELSE AllRecords[m]
      BY <1>4, <2>2, RecordsReturned
    <2> QED BY <1>0, <1>1, <2>3, <2>4, <2>5, ExecGrows
  <1>5. CASE Lined
    BY <1>5, ExecLined
  <1> QED BY <1>2, <1>3, <1>4, <1>5

LEMMA ExecLog ==
  ASSUME TypeOK, ExecInv
  PROVE  LogIsExecution
  <1>0. hist \in Seq([session : 0..MaxSessions, insn : Insns]) /\ Len(hist) \in Nat
    BY DEF TypeOK
  <1>1. PICK b \in 0..Len(hist), head \in Seq(Tokens) : ExecOf(b, head)
    BY DEF ExecInv
  <1>2. FirstOwn = b + 1 /\ Cardinality(Own) = Len(hist) - b
    <2>1. Cardinality(b + 1..Len(hist)) =
            IF b + 1 > Len(hist) THEN 0 ELSE Len(hist) - (b + 1) + 1
      <3>1. Len(hist) \in Int /\ b + 1 \in Int
        BY <1>0, <1>1
      <3> QED BY <3>1, FS_Interval
    <2>2. Cardinality(Own) = Len(hist) - b
      BY <1>0, <1>1, <2>1 DEF ExecOf
    <2> QED BY <1>0, <1>1, <2>2 DEF FirstOwn
  <1>3. Execution = FlattenSeq(Between(AllRecords, b, Len(hist)))
    <2>1. \A k \in 1..Len(hist) - b :
            b + 1 + k - 1 = b + k /\ b + k \in 1..Len(hist)
      BY <1>0, <1>1
    <2>2. [k \in 1..Len(hist) - b |-> Records(b + 1 + k - 1)] =
            Between(AllRecords, b, Len(hist))
      BY <2>1 DEF Between, AllRecords
    <2> QED BY <1>2, <2>2 DEF Execution
  <1>4. PICK r \in [1..Len(hist) -> Seq(Tokens)] : r = AllRecords
    <2>1. \A m \in 1..Len(hist) : Records(m) \in Seq(Tokens)
      BY RecordsType
    <2> QED BY <2>1 DEF AllRecords
  <1>5. Execution \in Seq(Tokens)
    BY <1>0, <1>3, <1>4, BetweenType, FlattenType
  <1>6. Log = head \o Execution
    BY <1>1, <1>3 DEF ExecOf
  <1>7. PICK k \in Nat : k = Len(head)
    OBVIOUS
  <1>8. /\ Log \in Seq(Tokens) /\ k \in 0..Len(Log)
        /\ \A j \in 1..k : Log[j] = head[j]
    BY <1>5, <1>6, <1>7, ConcatProperties
  <1>9. SubSeq(Log, 1, k) = head
    <2>1. /\ SubSeq(Log, 1, k) \in Seq(Tokens) /\ Len(SubSeq(Log, 1, k)) = k
          /\ \A j \in 1..k : SubSeq(Log, 1, k)[j] = Log[j]
      BY <1>8
    <2> QED BY <1>7, <1>8, <2>1, SeqEqual
  <1>10. \A j \in 1..k : Log[j].insn < FirstOwn
    <2> TAKE j \in 1..k
    <2>1. head[j] \in Tokens /\ head[j].insn <= b
      BY <1>1, <1>7 DEF ExecOf
    <2>2. head[j].insn \in Nat
      BY <2>1 DEF Tokens
    <2> QED BY <1>0, <1>2, <1>8, <2>1, <2>2
  <1> QED BY <1>6, <1>8, <1>9, <1>10 DEF LogIsExecution

(* A thread that traces itself: the log is what the session's instructions  *)
(* printed, in order and once each, behind what earlier sessions left, in   *)
(* whichever of the buffers and by whichever of the writes it moved.        *)
THEOREM LogExact ==
  ASSUME Local
  PROVE  Spec => []LogIsExecution
  <1>1. Init => ExecInv
    <2> SUFFICES ASSUME Init PROVE ExecInv
      OBVIOUS
    <2>1. hist = <<>> /\ Log = <<>> /\ Own = {}
      BY ConcatEmptySeq, EmptySeq DEF Init, Log, Unsaved, Own
    <2>2. FlattenSeq(Between(AllRecords, 0, 0)) = <<>>
      BY BetweenNone
    <2>3. <<>> \o <<>> = <<>> /\ <<>> \in Seq(Tokens) /\ Len(<<>>) = 0 /\ 0 + 1..0 = {}
      BY ConcatTokens
    <2>4. ExecOf(0, <<>>)
      BY <2>1, <2>2, <2>3 DEF ExecOf
    <2>5. 0 \in 0..Len(hist)
      BY <2>1
    <2> QED BY <2>3, <2>4, <2>5 DEF ExecInv
  <1>2. /\ Inv /\ PastInv /\ LocalSession /\ LocalSession' /\ ExecInv /\ [Next]_vars
        => ExecInv'
    <2> SUFFICES ASSUME Inv, PastInv, LocalSession, LocalSession', ExecInv, [Next]_vars
                 PROVE  ExecInv'
      OBVIOUS
    <2>1. CASE Moved \/ Posted \/ Returned \/ Lined
      BY <2>1, ExecStep
    <2>2. CASE Started
      <3>1. Opened
        BY <2>2, ConcatTokens DEF Started, Opened
      <3> QED BY <3>1, ExecOpens
    <2> QED BY <2>1, <2>2, LogStep DEF Inv
  <1>3. TypeOK /\ ExecInv => LogIsExecution
    BY ExecLog
  <1> QED BY <1>1, <1>2, <1>3, PastHolds, InvHolds, LocalHolds, TypeCorrect, PTL DEF Spec

-----------------------------------------------------------------------------
(* Another thread is traced: the same from init up to unrun's write.        *)
Serial == RACY = FALSE /\ OpenResults \subseteq {TRUE}
WhileTracing == cpc \in {"inited", "tracing", "unfollowed"}
TracingOpen == WhileTracing => open

LEMMA TracingStep ==
  ASSUME Serial, Inv, PastInv, TracingOpen, [Next]_vars
  PROVE  /\ TracingOpen'
         /\ WhileTracing' => \/ Opened
                             \/ WhileTracing /\ (Moved \/ Posted \/ Returned \/ Lined)
  <1>0. /\ TypeOK /\ ~Racing
        /\ disk \in Seq(Tokens) /\ stream \in Seq(Tokens) /\ buffer \in Seq(Tokens)
        /\ <<>> \in Seq(Tokens)
    BY ConcatTokens DEF Inv, TypeOK, Serial, Racing
  <1> USE DEF WhileTracing, TracingOpen
  <1>1. ASSUME NEW m \in Modes, NEW opens \in OpenResults, InitCall(m, opens)
        PROVE  Opened /\ open'
    <2>1. /\ disk' = <<>> /\ stream' = <<>> /\ buffer' = buffer /\ cpc' = "inited"
          /\ session' = session + 1 /\ open' = opens
          /\ UNCHANGED traceVars
      BY <1>1 DEF InitCall
    <2>2. Log' = buffer
      BY <1>0, <2>1, ConcatTokens DEF Log, Unsaved
    <2> QED BY <1>0, <2>1, <2>2 DEF Opened, PastInv, BufferPast, Pending, traceVars, Serial
  <1>2. CASE RunCall \/ UnrunCall
    <2>1. /\ cpc \in {"inited", "tracing"} /\ cpc' \in {"tracing", "unfollowed"}
          /\ UNCHANGED <<session, traceVars, buffer, stream, disk, open>>
      BY <1>2 DEF RunCall, UnrunCall, fileVars
    <2>2. Moved
      BY <2>1 DEF Moved, Log, Unsaved, History, Pending, traceVars
    <2> QED BY <2>1, <2>2
  <1>3. CASE ControllerSteps
    <2>1. cpc' \in {"reset", "close", "ready"}
      BY <1>3 DEF ControllerSteps, UnfollowWrite, UnfollowReset, UnfollowClose
    <2> QED BY <2>1
  <1>4. CASE Detach \/ UNCHANGED vars
    <2>1. UNCHANGED <<cpc, session, traceVars, buffer, stream, disk, open>>
      BY <1>4 DEF Detach, vars, fileVars
    <2>2. Moved
      BY <2>1 DEF Moved, Log, Unsaved, History, Pending, traceVars
    <2> QED BY <2>1, <2>2
  <1>5. CASE (\E i \in Insns : CalloutEnter(i)) \/ CalloutSteps
    <2>1. UNCHANGED <<cpc, open>>
      BY <1>5 DEF CalloutSteps, CalloutEnter, CalloutPost, CalloutRet, CalloutLine,
                  CalloutFlush, fileVars
    <2>2. ASSUME cpc \in {"inited", "tracing", "unfollowed"}
          PROVE  Moved \/ Posted \/ Returned \/ Lined
      <3>1. open /\ cpc # "reset"
        BY <2>2
      <3> QED BY <1>0, <1>5, <3>1, CalloutLogStep
    <2> QED BY <2>1, <2>2
  <1>6. CASE (\E f \in Sessions : Flusher(f)) \/ Spill
    <2>1. UNCHANGED <<cpc, open>>
      BY <1>6 DEF Flusher, FlusherCheck, FlusherBegin, FlusherFlush, FlusherWake, Spill,
                  fileVars
    <2>2. Moved
      BY <1>0, <1>6, FlushLogStep
    <2> QED BY <2>1, <2>2
  <1> QED BY <1>1, <1>2, <1>3, <1>4, <1>5, <1>6 DEF Next

(* From init until unrun hands the buffer over, the log of another thread's *)
(* session is what its instructions printed, in order and once each, behind *)
(* what earlier sessions left.                                              *)
THEOREM TracingLogExact ==
  ASSUME Serial
  PROVE  Spec => []TracingLogIsExecution
  <1>1. Init => TracingOpen /\ (WhileTracing => ExecInv)
    BY DEF Init, TracingOpen, WhileTracing
  <1>2. /\ Inv /\ PastInv /\ TracingOpen /\ (WhileTracing => ExecInv) /\ [Next]_vars
        => TracingOpen' /\ (WhileTracing => ExecInv)'
    <2> SUFFICES ASSUME Inv, PastInv, TracingOpen, WhileTracing => ExecInv, [Next]_vars
                 PROVE  TracingOpen' /\ (WhileTracing' => ExecInv')
      OBVIOUS
    <2>1. ASSUME WhileTracing, Moved \/ Posted \/ Returned \/ Lined
          PROVE  ExecInv'
      BY <2>1, ExecStep
    <2>2. ASSUME Opened PROVE ExecInv'
      BY <2>2, ExecOpens
    <2> QED BY <2>1, <2>2, TracingStep
  <1>3. TypeOK /\ (WhileTracing => ExecInv) => TracingLogIsExecution
    BY ExecLog DEF TracingLogIsExecution, WhileTracing
  <1> QED BY <1>1, <1>2, <1>3, PastHolds, InvHolds, TypeCorrect, PTL DEF Spec
=============================================================================
