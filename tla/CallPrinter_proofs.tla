------------------------- MODULE CallPrinter_proofs -------------------------
(***************************************************************************)
(* For any registers, functions, classes and handles: every call that is   *)
(* noted gets one true record; and whatever the VM does with its handles,  *)
(* every entry of the JNI tables that was made well is true.               *)
(***************************************************************************)
EXTENDS CallPrinter, TLAPS

USE WordAssumption, IdAssumption, NameAssumption

(* The context is of the call made last. *)
Noted ==
  /\ ctx.call => /\ made.kind \in {"func", "svc", "jni"}
                 /\ ctx.is_jni <=> made.kind = "jni"
                 /\ made.kind # "jni" => made.name \notin JniFuncs \/ made.kind = "svc"
                 /\ made.kind = "jni" => made.name \in JniFuncs
                 /\ IF made.name = "syscall"
                    THEN ctx.name = made.x[0] /\ ctx.x = Shifted(made.x)
                    ELSE ctx.name = made.name /\ ctx.x = made.x
  /\ ~ctx.call => ~ctx.is_jni
  /\ where = "callee" => ctx.call /\ ~made.seen

(* A value that was seen is still in x0. *)
Seen == ctx.call /\ made.seen => made.returned /\ x0 = made.ret

(* While a JNI call is pending, its arguments and what it returned are what *)
(* the VM knows.                                                             *)
Alive == ctx.call /\ made.kind = "jni" /\ (made.seen \/ where = "callee")

JniInv ==
  /\ ctx.call /\ made.kind = "jni" =>
       /\ made.name = "FindClass" => made.x[1] \in Classes
       /\ made.name = "GetMethodID" => made.x[2] \in Methods
  /\ Alive /\ made.name \in {"GetMethodID", "CallObjectMethod"} => RefOf(made.x[1]) # None
  /\ Alive /\ made.name = "CallObjectMethod" =>
       made.x[2] \in MethodsOf[RefOf(made.x[1]).of]
  /\ ctx.call /\ made.kind = "jni" /\ made.seen /\ made.name = "FindClass" =>
       x0 = ZERO \/ (RefOf(x0) # None /\ RefOf(x0).of = made.x[1])
  /\ ctx.call /\ made.kind = "jni" /\ made.seen /\ made.name = "GetMethodID" =>
       \/ x0 = ZERO
       \/ x0 \in MethodsOf[RefOf(made.x[1]).of] /\ NameOf[x0] = made.x[2]

IInv == TypeOK /\ RecordsPaired /\ Noted /\ Seen /\ JniInv /\ TablesTrue

LEMMA RefTypes == TypeOK => \A w : RefOf(w) \in Ref \cup {None}
  BY DEF TypeOK, RefOf

LEMMA RefFields == \A r \in Ref : r.of \in Classes /\ r.isclass \in BOOLEAN
  BY DEF Ref

LEMMA InitInv == Init => IInv
  <1> SUFFICES ASSUME Init PROVE IInv
    OBVIOUS
  <1>1. NoRegisters \in Registers /\ ZERO \in Words /\ ZERO \in Names
    BY DEF NoRegisters, Registers, Names
  <1>2. NoneMade \in Call
    BY <1>1 DEF NoneMade, Call
  <1>3. NoContext \in Context
    BY <1>1 DEF NoContext, Context
  <1>4. TypeOK
    BY <1>1, <1>2, <1>3 DEF Init, TypeOK, Entries
  <1>5. RecordsPaired /\ Noted /\ Seen /\ JniInv
    BY DEF Init, RecordsPaired, Noted, Seen, JniInv, Alive, ctx, NoContext, NoneMade
  <1>6. TablesTrue
    BY DEF Init, TablesTrue
  <1> QED BY <1>4, <1>5, <1>6 DEF IInv

(* A pending JNI function is the one that was called, with its arguments.   *)
LEMMA Named ==
  ASSUME IInv, NEW f \in JniFuncs, JniNamed(f)
  PROVE  ctx.call /\ made.kind = "jni" /\ made.name = f /\ ctx.x = made.x
  <1>1. ctx.call /\ made.kind = "jni" /\ made.name \in JniFuncs /\ ctx.name = f
    BY DEF IInv, Noted, JniNamed
  <1>2. made.name # "syscall"
    BY <1>1 DEF JniFuncs
  <1> QED BY <1>1, <1>2 DEF IInv, Noted

TableTypes ==
  /\ jni_classes \in [Words -> Classes \cup {None}]
  /\ jni_methods \in [Words -> Methods \cup {None}]
  /\ jni_methods_classes \in [Words -> Classes \cup {None}]
  /\ unheard \subseteq Ids /\ mistaken \subseteq Ids
  /\ refs \in [Handles -> Ref \cup {None}]
  /\ entry \in [Handles -> Entries]

(* TablesTrue, table by table. *)
ClassTrue(h) ==
  /\ entry[h] = "none" => jni_classes[h] = None
  /\ entry[h] = "own" => RefOf(h) # None /\ jni_classes[h] = RefOf(h).of

MethodTrue(id) == id \notin unheard => jni_methods[id] \in {NameOf[id], None}

MethodClassTrue(id) ==
  id \notin mistaken /\ jni_methods_classes[id] # None =>
    id \in MethodsOf[jni_methods_classes[id]]

LEMMA ByTable ==
  /\ TablesTrue <=> /\ \A h \in Handles : ClassTrue(h)
                    /\ \A id \in Ids : MethodTrue(id) /\ MethodClassTrue(id)
  BY DEF TablesTrue, ClassTrue, MethodTrue, MethodClassTrue

LEMMA ClassNoted ==
  ASSUME IInv, NEW readable \in BOOLEAN, NoteClass(readable), refs' = refs
  PROVE  /\ jni_classes' \in [Words -> Classes \cup {None}]
         /\ entry' \in [Handles -> Entries]
         /\ \A h \in Handles : ClassTrue(h)'
  <1>0. TypeOK /\ x0 \in Words /\ TableTypes
    BY DEF IInv, TypeOK, TableTypes
  <1>r. \A w : RefOf(w)' = RefOf(w)
    BY DEF RefOf
  <1>t. \A h \in Handles : ClassTrue(h)
    BY ByTable DEF IInv
  <1>1. CASE ~(JniNamed("FindClass") /\ readable)
    <2>1. jni_classes' = jni_classes /\ entry' = entry
      BY <1>1 DEF NoteClass
    <2> QED BY <1>0, <1>r, <1>t, <2>1 DEF ClassTrue, TableTypes
  <1>2. CASE JniNamed("FindClass") /\ readable
    <2>1. ctx.call /\ made.kind = "jni" /\ made.name = "FindClass" /\ ctx.x = made.x
      BY <1>2, Named DEF JniFuncs
    <2>2. made.x[1] \in Classes
      BY <2>1 DEF IInv, JniInv
    <2>3. /\ jni_classes' = [jni_classes EXCEPT ![x0] = made.x[1]]
          /\ entry' = [h \in Handles |-> IF h # x0 THEN entry[h]
                                         ELSE IF made.seen THEN "own" ELSE "unheard"]
      BY <1>2, <2>1 DEF NoteClass, FoundName
    <2>4. jni_classes' \in [Words -> Classes \cup {None}] /\ jni_classes'[x0] = made.x[1]
          /\ \A w \in Words : w # x0 => jni_classes'[w] = jni_classes[w]
      BY <1>0, <2>2, <2>3 DEF TableTypes
    <2>5. entry' \in [Handles -> Entries]
      BY <1>0, <2>3 DEF TableTypes, Entries
    <2>6. ASSUME NEW h \in Handles PROVE ClassTrue(h)'
      <3>1. CASE h # x0
        <4>1. entry'[h] = entry[h] /\ jni_classes'[h] = jni_classes[h]
          BY <2>3, <2>4, <3>1
        <4> QED BY <1>r, <1>t, <4>1 DEF ClassTrue
      <3>2. CASE h = x0 /\ ~made.seen
        BY <2>3, <3>2 DEF ClassTrue
      <3>3. CASE h = x0 /\ made.seen
        <4>1. RefOf(h) # None /\ RefOf(h).of = made.x[1]
          BY <2>1, <3>3 DEF IInv, JniInv
        <4>2. entry'[h] = "own" /\ jni_classes'[h] = made.x[1]
          BY <2>3, <2>4, <3>3
        <4> QED BY <1>r, <4>1, <4>2 DEF ClassTrue
      <3> QED BY <3>1, <3>2, <3>3
    <2> QED BY <2>4, <2>5, <2>6
  <1> QED BY <1>1, <1>2

(* Of a look up whose return was seen, x0 is what the VM returned: an id of *)
(* a method of that name that the receiver has.                             *)
LEMMA LookedUp ==
  ASSUME IInv, JniNamed("GetMethodID"), made.seen, NEW id \in Ids, x0 = id
  PROVE  /\ ctx.x = made.x /\ RefOf(made.x[1]) # None
         /\ id \in MethodsOf[RefOf(made.x[1]).of] /\ NameOf[id] = made.x[2]
  <1>1. ctx.call /\ made.kind = "jni" /\ made.name = "GetMethodID" /\ ctx.x = made.x
    BY Named DEF JniFuncs
  <1>2. id # ZERO
    OBVIOUS
  <1> QED BY <1>1, <1>2 DEF IInv, JniInv, Alive

LEMMA MethodNoted ==
  ASSUME IInv, NEW readable \in BOOLEAN, NoteMethod(readable)
  PROVE  /\ jni_methods' \in [Words -> Methods \cup {None}]
         /\ jni_methods_classes' \in [Words -> Classes \cup {None}]
         /\ unheard' \subseteq Ids /\ mistaken' \subseteq Ids
         /\ \A id \in Ids : MethodTrue(id)' /\ MethodClassTrue(id)'
  <1>0. TypeOK /\ x0 \in Words /\ TableTypes
    BY DEF IInv, TypeOK, TableTypes
  <1>t. \A id \in Ids : MethodTrue(id) /\ MethodClassTrue(id)
    BY ByTable DEF IInv
  <1>1. CASE ~JniNamed("GetMethodID")
    BY <1>0, <1>1, <1>t DEF NoteMethod, MethodTrue, MethodClassTrue, TableTypes
  <1>2. CASE JniNamed("GetMethodID")
    <2>1. ctx.call /\ made.kind = "jni" /\ made.name = "GetMethodID" /\ ctx.x = made.x
      BY <1>2, Named DEF JniFuncs
    <2>2. made.x[2] \in Methods /\ made.x[1] \in Words
      <3>1. made.x \in Registers /\ 1 \in 0..ARGS - 1
        BY <1>0 DEF TypeOK, Call
      <3> QED BY <2>1, <3>1 DEF IInv, JniInv, Registers
    <2> DEFINE class == jni_classes[made.x[1]]
    <2>3. class \in Classes \cup {None}
      BY <1>0, <2>2 DEF TableTypes
    <2>4. /\ IF readable
             THEN /\ jni_methods' = [jni_methods EXCEPT ![x0] = made.x[2]]
                  /\ unheard' = Entered(unheard, made.seen)
             ELSE UNCHANGED <<jni_methods, unheard>>
          /\ IF class # None
             THEN /\ jni_methods_classes' = [jni_methods_classes EXCEPT ![x0] = class]
                  /\ mistaken' = Entered(mistaken, made.seen /\ OwnName(made.x[1]))
             ELSE UNCHANGED <<jni_methods_classes, mistaken>>
      BY <1>2, <2>1 DEF NoteMethod
    <2>5. /\ jni_methods' \in [Words -> Methods \cup {None}]
          /\ jni_methods_classes' \in [Words -> Classes \cup {None}]
          /\ unheard' \subseteq Ids /\ mistaken' \subseteq Ids
      <3>1. jni_methods' \in [Words -> Methods \cup {None}] /\ unheard' \subseteq Ids
        BY <1>0, <2>2, <2>4 DEF TableTypes, Entered
      <3>2. jni_methods_classes' \in [Words -> Classes \cup {None}] /\ mistaken' \subseteq Ids
        BY <1>0, <2>3, <2>4 DEF TableTypes, Entered
      <3> QED BY <3>1, <3>2
    <2>6. ASSUME NEW id \in Ids PROVE MethodTrue(id)'
      <3>1. id \in Words
        OBVIOUS
      <3>2. CASE ~readable
        BY <1>t, <2>4, <3>2 DEF MethodTrue
      <3>3. CASE readable /\ id # x0
        <4>1. jni_methods'[id] = jni_methods[id]
          BY <1>0, <2>4, <3>1, <3>3 DEF TableTypes
        <4>2. id \in unheard' <=> id \in unheard
          BY <2>4, <3>3 DEF Entered
        <4> QED BY <1>t, <4>1, <4>2 DEF MethodTrue
      <3>4. CASE readable /\ id = x0 /\ ~made.seen
        <4>1. id \in unheard'
          BY <2>4, <3>4 DEF Entered
        <4> QED BY <4>1 DEF MethodTrue
      <3>5. CASE readable /\ id = x0 /\ made.seen
        <4>1. NameOf[id] = made.x[2]
          BY <1>2, <3>5, LookedUp
        <4>2. jni_methods'[id] = made.x[2]
          BY <1>0, <2>4, <3>1, <3>5 DEF TableTypes
        <4> QED BY <4>1, <4>2 DEF MethodTrue
      <3> QED BY <3>2, <3>3, <3>4, <3>5
    <2>7. ASSUME NEW id \in Ids PROVE MethodClassTrue(id)'
      <3>1. id \in Words
        OBVIOUS
      <3>2. CASE class = None
        BY <1>t, <2>4, <3>2 DEF MethodClassTrue
      <3>3. CASE class # None /\ id # x0
        <4>1. jni_methods_classes'[id] = jni_methods_classes[id]
          BY <1>0, <2>4, <3>1, <3>3 DEF TableTypes
        <4>2. id \in mistaken' <=> id \in mistaken
          BY <2>4, <3>3 DEF Entered
        <4> QED BY <1>t, <4>1, <4>2 DEF MethodClassTrue
      <3>4. CASE class # None /\ id = x0 /\ ~(made.seen /\ OwnName(made.x[1]))
        <4>1. id \in mistaken'
          BY <2>4, <3>4 DEF Entered
        <4> QED BY <4>1 DEF MethodClassTrue
      <3>5. CASE class # None /\ id = x0 /\ made.seen /\ OwnName(made.x[1])
        <4>1. id \in MethodsOf[RefOf(made.x[1]).of]
          BY <1>2, <3>5, LookedUp
        <4>2. class = RefOf(made.x[1]).of
          BY <3>5 DEF OwnName, IInv, TablesTrue
        <4>3. jni_methods_classes'[id] = class
          BY <1>0, <2>4, <3>1, <3>5 DEF TableTypes
        <4> QED BY <4>1, <4>2, <4>3 DEF MethodClassTrue
      <3> QED BY <3>2, <3>3, <3>4, <3>5
    <2> QED BY <2>5, <2>6, <2>7
  <1> QED BY <1>1, <1>2

LEMMA PrintInv ==
  ASSUME IInv, PrintPending, refs' = refs
  PROVE  TableTypes' /\ TablesTrue'
         /\ records' = IF ctx.call THEN records + 1 ELSE records
  <1>1. PICK readable \in BOOLEAN : /\ records' = IF Pending THEN records + 1 ELSE records
                                    /\ NoteClass(readable) /\ NoteMethod(readable)
    BY DEF PrintPending
  <1>2. TableTypes'
    <2>1. refs' \in [Handles -> Ref \cup {None}]
      BY DEF IInv, TypeOK
    <2> QED BY <1>1, <2>1, ClassNoted, MethodNoted DEF TableTypes
  <1>3. /\ \A h \in Handles : ClassTrue(h)'
        /\ \A id \in Ids : MethodTrue(id)' /\ MethodClassTrue(id)'
    BY <1>1, ClassNoted, MethodNoted
  <1>4. TablesTrue'
    BY <1>3 DEF TablesTrue, ClassTrue, MethodTrue, MethodClassTrue
  <1> QED BY <1>1, <1>2, <1>4 DEF Pending

(* What the callout notes of a call keeps the invariant, once the record of *)
(* the call before is printed.                                               *)
LEMMA NoteInv ==
  ASSUME IInv, where = "traced", PrintPending, NEW kind \in {"func", "svc", "jni"},
         NEW name \in Names, NEW x \in Registers,
         NoteCall(kind, name, x),
         kind = "func" => name \in Funcs,
         kind = "jni" => name \in JniFuncs /\ JniArgs(name, x)
  PROVE  IInv'
  <1>0. TypeOK
    BY DEF IInv
  <1>r. refs' = refs /\ \A w : RefOf(w)' = RefOf(w)
    BY DEF NoteCall, RefOf
  <1>1. TableTypes' /\ TablesTrue'
        /\ records' = IF ctx.call THEN records + 1 ELSE records
    BY <1>r, PrintInv
  <1> DEFINE syscall == name = "syscall"
  <1>2. /\ calls < MaxCalls /\ calls' = calls + 1 /\ where' = "callee" /\ x0' = x0
        /\ made' = [no |-> calls + 1, kind |-> kind, name |-> name, x |-> x,
                    returned |-> FALSE, ret |-> ZERO, seen |-> FALSE]
        /\ last_func_context' =
             [call |-> TRUE, is_jni |-> IsJni(kind), no |-> calls + 1,
              name |-> IF name = "syscall" THEN x[0] ELSE name,
              x |-> IF name = "syscall" THEN Shifted(x) ELSE x]
    BY DEF NoteCall
  <1>3. IsJni(kind) \in BOOLEAN /\ (IsJni(kind) <=> kind = "jni")
    BY DEF IsJni, IInv, Noted
  <1>4. x[0] \in Names /\ Shifted(x) \in Registers
    BY DEF Registers, Names, Shifted
  <1>5. calls + 1 \in 0..MaxCalls /\ records' \in 0..MaxCalls /\ records' = calls
    BY <1>0, <1>1, <1>2 DEF TypeOK, IInv, RecordsPaired
  <1>6. made' \in Call
    BY <1>2, <1>5 DEF Call
  <1>7. last_func_context' \in Context
    BY <1>2, <1>3, <1>4, <1>5 DEF Context
  <1>8. TypeOK'
    BY <1>0, <1>1, <1>2, <1>5, <1>6, <1>7 DEF TypeOK, TableTypes
  <1>9. RecordsPaired'
    BY <1>2, <1>5 DEF RecordsPaired, ctx
  <1>10. Noted'
    <2>1. kind = "func" => name \notin JniFuncs
      OBVIOUS
    <2> QED BY <1>2, <1>3, <2>1 DEF Noted, ctx
  <1>11. Seen'
    BY <1>2 DEF Seen
  <1>12. JniInv'
    <2>1. CASE kind # "jni"
      BY <1>2, <2>1 DEF JniInv, Alive, ctx
    <2>2. CASE kind = "jni"
      <3>1. JniArgs(name, x) /\ name \in JniFuncs
        BY <2>2
      <3>2. name \in {"GetMethodID", "CallObjectMethod"} => RefOf(x[1])' # None
        BY <1>r, <3>1 DEF JniArgs
      <3>3. name = "CallObjectMethod" => x[2] \in MethodsOf[RefOf(x[1])'.of]
        BY <1>r, <3>1 DEF JniArgs
      <3>4. /\ name = "FindClass" => x[1] \in Classes
            /\ name = "GetMethodID" => x[2] \in Methods
        BY <3>1 DEF JniArgs
      <3>5. made'.x = x /\ made'.name = name /\ made'.kind = kind /\ ~made'.seen
        BY <1>2
      <3>6. RefOf(made.x[1])' = RefOf(x[1])'
        BY <3>5 DEF RefOf
      <3> QED BY <3>2, <3>3, <3>4, <3>5, <3>6 DEF JniInv
    <2> QED BY <2>1, <2>2
  <1> QED BY <1>1, <1>8, <1>9, <1>10, <1>11, <1>12 DEF IInv

LEMMA CallInv == IInv /\ (FuncCall \/ SvcCall \/ JniCall) => IInv'
  <1> SUFFICES ASSUME IInv, FuncCall \/ SvcCall \/ JniCall PROVE IInv'
    OBVIOUS
  <1>0. ArgLists \subseteq Registers /\ JniArgLists \subseteq Registers
    BY DEF Registers
  <1>1. CASE FuncCall
    <2>1. PICK f \in Funcs, x \in ArgLists : NoteCall("func", f, x)
      BY <1>1 DEF FuncCall
    <2>2. where = "traced" /\ PrintPending /\ f \in Names /\ x \in Registers
      BY <1>0, <1>1 DEF FuncCall, Names
    <2> QED BY <2>1, <2>2, NoteInv
  <1>2. CASE SvcCall
    <2>1. PICK nr \in Svcs, x \in ArgLists : NoteCall("svc", nr, x)
      BY <1>2 DEF SvcCall
    <2>2. where = "traced" /\ PrintPending /\ nr \in Names /\ x \in Registers
      BY <1>0, <1>2 DEF SvcCall, Names
    <2> QED BY <2>1, <2>2, NoteInv
  <1>3. CASE JniCall
    <2>1. PICK f \in JniFuncs, x \in JniArgLists : JniArgs(f, x) /\ NoteCall("jni", f, x)
      BY <1>3 DEF JniCall
    <2>2. where = "traced" /\ PrintPending /\ f \in Names /\ x \in Registers
      BY <1>0, <1>3 DEF JniCall, Names
    <2> QED BY <2>1, <2>2, NoteInv
  <1> QED BY <1>1, <1>2, <1>3

LEMMA PlainInv == IInv /\ Plain => IInv'
  <1> SUFFICES ASSUME IInv, Plain PROVE IInv'
    OBVIOUS
  <1>0. TypeOK
    BY DEF IInv
  <1>1. TableTypes' /\ TablesTrue'
        /\ records' = IF ctx.call THEN records + 1 ELSE records
    BY PrintInv DEF Plain
  <1>2. /\ where = "traced" /\ where' = where /\ calls' = calls /\ x0' \in Words
        /\ made' = NoneMade
        /\ last_func_context' = [NoContext EXCEPT !.is_jni = ctx.is_jni /\ ~ctx.call]
    BY DEF Plain
  <1>3. (ctx.is_jni /\ ~ctx.call) = FALSE
    BY DEF IInv, Noted
  <1>4. last_func_context' = NoContext
    BY <1>2, <1>3 DEF NoContext
  <1>5. NoRegisters \in Registers /\ ZERO \in Names
    BY DEF NoRegisters, Registers, Names
  <1>6. NoneMade \in Call /\ NoContext \in Context
    BY <1>5 DEF NoneMade, NoContext, Call, Context
  <1>7. records' \in 0..MaxCalls /\ records' = calls
    BY <1>0, <1>1 DEF TypeOK, IInv, RecordsPaired
  <1>8. TypeOK'
    BY <1>0, <1>1, <1>2, <1>4, <1>6, <1>7 DEF TypeOK, TableTypes
  <1>9. (RecordsPaired /\ Noted /\ Seen /\ JniInv)'
    BY <1>2, <1>4, <1>7 DEF RecordsPaired, Noted, Seen, JniInv, Alive, ctx, NoContext, NoneMade
  <1> QED BY <1>1, <1>8, <1>9 DEF IInv

(* What the VM does with its references between two callouts. *)
LEMMA DeletedInv ==
  ASSUME TypeOK, TablesTrue, NEW h \in Handles, Deleted(h), UNCHANGED tables
  PROVE  TableTypes' /\ TablesTrue'
  <1>1. /\ refs' = [refs EXCEPT ![h] = None]
        /\ entry' = [entry EXCEPT ![h] = IF entry[h] = "own" THEN "former" ELSE entry[h]]
        /\ jni_classes' = jni_classes /\ jni_methods' = jni_methods
        /\ jni_methods_classes' = jni_methods_classes
        /\ unheard' = unheard /\ mistaken' = mistaken
    BY DEF Deleted, tables
  <1>2. TableTypes'
    BY <1>1 DEF TypeOK, TableTypes, Entries
  <1>3. ASSUME NEW g \in Handles PROVE ClassTrue(g)'
    <2>0. ClassTrue(g)
      BY ByTable
    <2>1. CASE g = h
      <3>1. entry'[g] # "own" /\ (entry'[g] = "none" => entry[g] = "none")
        BY <1>1, <2>1 DEF TypeOK
      <3> QED BY <1>1, <2>0, <3>1 DEF ClassTrue
    <2>2. CASE g # h
      <3>1. entry'[g] = entry[g] /\ RefOf(g)' = RefOf(g)
        BY <1>1, <2>2 DEF TypeOK, RefOf
      <3> QED BY <1>1, <2>0, <3>1 DEF ClassTrue
    <2> QED BY <2>1, <2>2
  <1>4. TablesTrue'
    BY <1>1, <1>3 DEF TablesTrue, ClassTrue
  <1> QED BY <1>2, <1>4

LEMMA CreatedInv ==
  ASSUME TypeOK, TablesTrue, NEW h \in Handles, NEW c \in Classes, NEW b \in BOOLEAN,
         refs[h] = None, Created(h, c, b), UNCHANGED tables
  PROVE  /\ TableTypes' /\ TablesTrue'
         /\ RefOf(h)' = [of |-> c, isclass |-> b]
         /\ \A g : g # h => RefOf(g)' = RefOf(g)
  <1> DEFINE r == [of |-> c, isclass |-> b]
  <1>1. r \in Ref
    BY DEF Ref
  <1>2. /\ refs' = [refs EXCEPT ![h] = r] /\ entry' = entry
        /\ jni_classes' = jni_classes /\ jni_methods' = jni_methods
        /\ jni_methods_classes' = jni_methods_classes
        /\ unheard' = unheard /\ mistaken' = mistaken
    BY DEF Created, tables
  <1> HIDE DEF r
  <1>3. TableTypes' /\ refs'[h] = r /\ \A g \in Handles : g # h => refs'[g] = refs[g]
    BY <1>1, <1>2 DEF TypeOK, TableTypes
  <1>4. RefOf(h)' = r /\ \A g : g # h => RefOf(g)' = RefOf(g)
    BY <1>3 DEF RefOf
  <1>5. RefOf(h) = None
    BY DEF RefOf
  <1>6. ASSUME NEW g \in Handles PROVE ClassTrue(g)'
    <2>0. ClassTrue(g)
      BY ByTable
    <2> QED BY <1>2, <1>4, <1>5, <2>0 DEF ClassTrue
  <1>7. TablesTrue'
    BY <1>2, <1>6 DEF TablesTrue, ClassTrue
  <1> QED BY <1>3, <1>4, <1>7 DEF r

LEMMA StillInv ==
  ASSUME TypeOK, TablesTrue, UNCHANGED vm, UNCHANGED tables
  PROVE  TableTypes' /\ TablesTrue'
  BY DEF tables, vm, TypeOK, TableTypes, TablesTrue, RefOf

LEMMA MoveInv ==
  ASSUME TypeOK, TablesTrue, RefsMove, UNCHANGED tables
  PROVE  TableTypes' /\ TablesTrue'
  <1>1. CASE UNCHANGED vm
    BY <1>1, StillInv
  <1>2. ASSUME NEW h \in Handles, Deleted(h)
        PROVE  TableTypes' /\ TablesTrue'
    BY <1>2, DeletedInv
  <1>3. ASSUME NEW h \in Handles, NEW c \in Classes, NEW b \in BOOLEAN,
               refs[h] = None, Created(h, c, b)
        PROVE  TableTypes' /\ TablesTrue'
    BY <1>3, CreatedInv
  <1> QED BY <1>1, <1>2, <1>3 DEF RefsMove

(* A function or the kernel returns; nothing of the JNI is pending then.    *)
LEMMA NativeInv == IInv /\ NativeReturns => IInv'
  <1> SUFFICES ASSUME IInv, NativeReturns PROVE IInv'
    OBVIOUS
  <1>1. PICK w \in Values : Returned(w)
    BY DEF NativeReturns
  <1>2. /\ where = "callee" /\ made.kind # "jni" /\ RefsMove
        /\ last_func_context' = last_func_context /\ calls' = calls /\ records' = records
        /\ tables' = tables
    BY DEF NativeReturns, counts, RefsMove, vm
  <1>3. /\ x0' = w /\ w \in Words /\ where' = "traced" /\ made \in Call
        /\ made' = [made EXCEPT !.returned = TRUE, !.ret = w, !.seen = TRUE]
    BY <1>1 DEF Returned, IInv, TypeOK
  <1>4. /\ made' \in Call /\ made'.returned /\ made'.ret = w /\ made'.seen
        /\ made'.kind = made.kind /\ made'.name = made.name /\ made'.x = made.x
        /\ made'.no = made.no
    BY <1>3 DEF Call
  <1>5. TableTypes' /\ TablesTrue'
    BY <1>2, MoveInv DEF IInv, tables
  <1>6. TypeOK'
    BY <1>2, <1>3, <1>4, <1>5 DEF IInv, TypeOK, TableTypes
  <1>7. (RecordsPaired /\ Noted /\ Seen /\ JniInv)'
    BY <1>2, <1>3, <1>4 DEF IInv, RecordsPaired, Noted, Seen, JniInv, Alive, ctx
  <1> QED BY <1>5, <1>6, <1>7 DEF IInv

LEMMA EnterInv == IInv /\ EnterTraced => IInv'
  <1> SUFFICES ASSUME IInv, EnterTraced PROVE IInv'
    OBVIOUS
  <1>1. /\ where = "callee" /\ made.kind = "func" /\ where' = "traced" /\ x0' = x0
        /\ made' = made /\ last_func_context' = last_func_context /\ calls' = calls
        /\ records' = records /\ tables' = tables /\ vm' = vm
    BY DEF EnterTraced, counts
  <1>2. TableTypes' /\ TablesTrue'
    BY <1>1, StillInv DEF IInv
  <1>3. TypeOK'
    BY <1>1, <1>2 DEF IInv, TypeOK, TableTypes
  <1>4. (RecordsPaired /\ Noted /\ Seen /\ JniInv)'
    BY <1>1 DEF IInv, RecordsPaired, Noted, Seen, JniInv, Alive, ctx
  <1> QED BY <1>2, <1>3, <1>4 DEF IInv

(* Code without callouts: what it leaves is not taken for a return value.   *)
LEMMA UnseenInv == IInv /\ Unseen => IInv'
  <1> SUFFICES ASSUME IInv, Unseen PROVE IInv'
    OBVIOUS
  <1>1. /\ where = "traced" /\ where' = where /\ x0' \in Words
        /\ made' = [made EXCEPT !.seen = FALSE] /\ made \in Call /\ RefsMove
        /\ last_func_context' = last_func_context /\ calls' = calls /\ records' = records
        /\ tables' = tables
    BY DEF Unseen, counts, IInv, TypeOK
  <1>2. /\ made' \in Call /\ ~made'.seen /\ made'.kind = made.kind
        /\ made'.name = made.name /\ made'.x = made.x /\ made'.no = made.no
    BY <1>1 DEF Call
  <1>3. TableTypes' /\ TablesTrue'
    BY <1>1, MoveInv DEF IInv, tables
  <1>4. TypeOK'
    BY <1>1, <1>2, <1>3 DEF IInv, TypeOK, TableTypes
  <1>5. (RecordsPaired /\ Noted /\ Seen /\ JniInv)'
    BY <1>1, <1>2 DEF IInv, RecordsPaired, Noted, Seen, JniInv, Alive, ctx
  <1> QED BY <1>3, <1>4, <1>5 DEF IInv

(* A JNI function returns: its receiver is alive, and what it returned is   *)
(* what the VM knows by it.                                                  *)
LEMMA JniReturnInv == IInv /\ JniReturns => IInv'
  <1> SUFFICES ASSUME IInv, JniReturns PROVE IInv'
    OBVIOUS
  <1>0. TypeOK /\ made \in Call
    BY DEF IInv, TypeOK
  <1>1. /\ where = "callee" /\ made.kind = "jni" /\ ctx.call
        /\ last_func_context' = last_func_context /\ calls' = calls /\ records' = records
        /\ tables' = tables
    BY DEF JniReturns, counts, IInv, Noted
  <1>2. Alive
    BY <1>1 DEF Alive
  <1> DEFINE Args(w) == Returned(w) => made'.x = made.x
  <1>a. \A w : Args(w)
    BY <1>0 DEF Returned, Call
  <1>3. ASSUME NEW w \in Words, Returned(w), TableTypes', TablesTrue',
               made.name \in {"GetMethodID", "CallObjectMethod"} =>
                 RefOf(made.x[1])' = RefOf(made.x[1]),
               made.name = "FindClass" =>
                 w = ZERO \/ (RefOf(w)' # None /\ RefOf(w)'.of = made.x[1]),
               made.name = "GetMethodID" =>
                 w = ZERO \/ (w \in MethodsOf[RefOf(made.x[1]).of] /\ NameOf[w] = made.x[2])
        PROVE  IInv'
    <2>1. /\ x0' = w /\ where' = "traced"
          /\ made' = [made EXCEPT !.returned = TRUE, !.ret = w, !.seen = TRUE]
      BY <1>3 DEF Returned
    <2>2. /\ made' \in Call /\ made'.returned /\ made'.ret = w /\ made'.seen
          /\ made'.kind = made.kind /\ made'.name = made.name /\ made'.x = made.x
          /\ made'.no = made.no
      BY <1>0, <2>1 DEF Call
    <2>3. TypeOK'
      BY <1>0, <1>1, <1>3, <2>1, <2>2 DEF TypeOK, TableTypes
    <2>4. (RecordsPaired /\ Noted /\ Seen)'
      BY <1>1, <2>1, <2>2 DEF IInv, RecordsPaired, Noted, Seen, ctx
    <2>5. RefOf(x0)' = RefOf(w)'
      BY <2>1 DEF RefOf
    <2>6. made.name \in {"GetMethodID", "CallObjectMethod"} => RefOf(made.x[1]) # None
      BY <1>2 DEF IInv, JniInv
    <2>7. made.name = "CallObjectMethod" => made.x[2] \in MethodsOf[RefOf(made.x[1]).of]
      BY <1>2 DEF IInv, JniInv
    <2>8. /\ made.name = "FindClass" => made.x[1] \in Classes
          /\ made.name = "GetMethodID" => made.x[2] \in Methods
      BY <1>1 DEF IInv, JniInv
    <2>9. JniInv'
      BY <1>3, <2>1, <2>2, <2>5, <2>6, <2>7, <2>8 DEF JniInv
    <2> QED BY <1>3, <2>3, <2>4, <2>9 DEF IInv
  <1>s. ASSUME NEW w \in Words, Returned(w), UNCHANGED vm
        PROVE  RefOf(made.x[1])' = RefOf(made.x[1])
    <2>1. made'.x = made.x
      BY <1>s, <1>a
    <2> QED BY <1>s, <2>1 DEF RefOf, vm
  <1>4. ASSUME NEW h \in Handles, NEW c \in Classes, refs[h] = None,
               made.name \in {"FindClass", "CallObjectMethod"},
               made.name = "FindClass" => c = made.x[1],
               Created(h, c, made.name = "FindClass"), Returned(h)
        PROVE  IInv'
    <2> DEFINE b == made.name = "FindClass"
    <2>0. b \in BOOLEAN
      OBVIOUS
    <2>1. Created(h, c, b)
      BY <1>4
    <2> HIDE DEF b
    <2>2. /\ TableTypes' /\ TablesTrue'
          /\ RefOf(h)' = [of |-> c, isclass |-> b]
          /\ \A g : g # h => RefOf(g)' = RefOf(g)
      BY <1>0, <1>1, <1>4, <2>0, <2>1, CreatedInv DEF IInv
    <2>3. [of |-> c, isclass |-> b] \in Ref
      BY <2>0 DEF Ref
    <2>4. RefOf(h)' # None /\ RefOf(h)'.of = c
      BY <2>2, <2>3
    <2>5. made.name = "CallObjectMethod" => RefOf(made.x[1])' = RefOf(made.x[1])
      <3>1. made'.x = made.x
        BY <1>4, <1>a
      <3>2. RefOf(h) = None
        BY <1>4 DEF RefOf
      <3>3. made.name = "CallObjectMethod" => made.x[1] # h
        BY <1>2, <3>2 DEF IInv, JniInv
      <3> QED BY <2>2, <3>1, <3>3 DEF RefOf
    <2>6. h \in Words
      OBVIOUS
    <2> HIDE DEF Args
    <2> QED BY <1>3, <1>4, <2>2, <2>4, <2>5, <2>6
  <1>5. ASSUME made.name = "GetMethodID", NEW id \in MethodsOf[RefOf(made.x[1]).of],
               NameOf[id] = made.x[2], Returned(id), UNCHANGED vm
        PROVE  IInv'
    <2>1. id \in Words
      <3>1. RefOf(made.x[1]) \in Ref
        BY <1>0, <1>2, <1>5, RefTypes DEF IInv, JniInv
      <3> QED BY <1>5, <3>1, RefFields
    <2>2. TableTypes' /\ TablesTrue'
      BY <1>0, <1>1, <1>5, StillInv DEF IInv
    <2>3. RefOf(made.x[1])' = RefOf(made.x[1])
      BY <1>5, <1>s, <2>1
    <2> HIDE DEF Args
    <2> QED BY <1>3, <1>5, <2>1, <2>2, <2>3
  <1>6. ASSUME made.name = "DeleteLocalRef", Deleted(made.x[1]), NEW w \in Values, Returned(w)
        PROVE  IInv'
    <2>1. CASE made.x[1] \in Handles
      <3>1. TableTypes' /\ TablesTrue'
        BY <1>0, <1>1, <1>6, <2>1, DeletedInv DEF IInv
      <3> QED BY <1>3, <1>6, <3>1
    <2>2. CASE made.x[1] \notin Handles
      <3>1. UNCHANGED vm
        BY <1>0, <1>6, <2>2 DEF Deleted, vm, TypeOK
      <3>2. TableTypes' /\ TablesTrue'
        BY <1>0, <1>1, <3>1, StillInv DEF IInv
      <3> QED BY <1>3, <1>6, <3>2
    <2> QED BY <2>1, <2>2
  <1>7. ASSUME NEW w \in Words, w = ZERO, Returned(w), UNCHANGED vm
        PROVE  IInv'
    <2>1. TableTypes' /\ TablesTrue'
      BY <1>0, <1>1, <1>7, StillInv DEF IInv
    <2>2. RefOf(made.x[1])' = RefOf(made.x[1])
      BY <1>7, <1>s
    <2> HIDE DEF Args
    <2> QED BY <1>3, <1>7, <2>1, <2>2
  <1>8. ASSUME Returned(ZERO), UNCHANGED vm
        PROVE  IInv'
    <2>1. ZERO \in Words /\ ZERO = ZERO
      OBVIOUS
    <2> HIDE DEF Args
    <2> QED BY ONLY <1>7, <1>8, <2>1
  <1> QED BY <1>4, <1>5, <1>6, <1>8 DEF JniReturns

LEMMA InvInductive == Spec => []IInv
  <1>1. IInv /\ [Next]_vars => IInv'
    <2> SUFFICES ASSUME IInv, [Next]_vars PROVE IInv'
      OBVIOUS
    <2>1. CASE UNCHANGED vars
      BY <2>1 DEF vars, counts, tables, vm, IInv, TypeOK, RecordsPaired, Noted, Seen, JniInv,
                  Alive, TablesTrue, RefOf, ctx
    <2> QED BY <2>1, CallInv, PlainInv, NativeInv, EnterInv, JniReturnInv, UnseenInv DEF Next
  <1> QED BY <1>1, InitInv, PTL DEF Spec

(* The tables hold names of classes and methods only, the context a call.   *)
THEOREM PrinterTypeCorrect == Spec => []TypeOK
  <1>1. IInv => TypeOK
    BY DEF IInv
  <1> QED BY <1>1, InvInductive, PTL

(* Every noted call gets exactly one record, in the order of the calls.     *)
THEOREM OneRecordPerCall == Spec => []RecordsPaired
  <1>1. IInv => RecordsPaired
    BY DEF IInv
  <1> QED BY <1>1, InvInductive, PTL

(* The record is about that call: function, arguments, and the value that a *)
(* callee returned straight to the next callout.                            *)
THEOREM RecordsAreTrue == Spec => []RecordTrue
  <1>1. IInv => RecordTrue
    <2> SUFFICES ASSUME IInv, Due PROVE RecordTrue
      BY DEF RecordTrue
    <2>1. ctx.call /\ made.kind \in {"func", "svc", "jni"} /\ (ctx.is_jni <=> made.kind = "jni")
      BY DEF Due, IInv, Noted
    <2>2. CallRecord.is_jni = ctx.is_jni /\ CallRecord.name = ctx.name
          /\ CallRecord.x = ctx.x /\ CallRecord.ret = x0
      BY DEF CallRecord
    <2>3. made.name = "syscall" =>
            /\ ctx.name = made.x[0] /\ ctx.x[ARGS - 1] = ZERO
            /\ \A i \in 0..ARGS - 2 : ctx.x[i] = made.x[i + 1]
      <3>1. /\ ARGS - 1 \in 0..ARGS - 1 /\ ~(ARGS - 1 < ARGS - 1)
            /\ \A i \in 0..ARGS - 2 : i \in 0..ARGS - 1 /\ i < ARGS - 1
        OBVIOUS
      <3>2. Shifted(made.x)[ARGS - 1] = ZERO
            /\ \A i \in 0..ARGS - 2 : Shifted(made.x)[i] = made.x[i + 1]
        BY <3>1 DEF Shifted
      <3> QED BY <2>1, <3>2 DEF IInv, Noted
    <2>4. made.name # "syscall" => ctx.name = made.name /\ ctx.x = made.x
      BY <2>1 DEF IInv, Noted
    <2>5. made.returned /\ made.seen => x0 = made.ret
      BY <2>1 DEF IInv, Seen
    <2> QED BY <2>1, <2>2, <2>3, <2>4, <2>5 DEF RecordTrue
  <1> QED BY <1>1, InvInductive, PTL

(* Whatever the VM does with its handles and however methods are inherited  *)
(* and looked up: an entry is true that was made well, for as long as the   *)
(* reference or the id is what it was made for.                             *)
THEOREM JniTablesTrue == Spec => []TablesTrue
  <1>1. IInv => TablesTrue
    BY DEF IInv
  <1> QED BY <1>1, InvInductive, PTL

(* The record of a method call names the method, a class that has it, and   *)
(* the class of a receiver that FindClass gave.                             *)
THEOREM JniNamesTrue == Spec => []NamesTrue
  <1>1. IInv => NamesTrue
    <2> SUFFICES ASSUME IInv, Due, ctx.is_jni, made.seen, made.name = "CallObjectMethod"
                 PROVE  LET p == CallRecord
                            h == made.x[1]
                            id == made.x[2]
                        IN  /\ entry[h] = "own" => p.class = RefOf(h).of
                            /\ entry[h] = "none" => p.class = None
                            /\ id \notin unheard => p.method \in {NameOf[id], None}
                            /\ id \notin mistaken /\ p.method_class # None =>
                                 id \in MethodsOf[p.method_class]
      BY DEF NamesTrue
    <2> DEFINE h == made.x[1]
               id == made.x[2]
    <2>1. ctx.call /\ made.kind = "jni" /\ Alive
      BY DEF Due, IInv, Noted, Alive
    <2>2. ctx.x = made.x /\ ctx.name = "CallObjectMethod"
      BY <2>1 DEF IInv, Noted
    <2>3. RefOf(h) # None /\ h \in Handles
      BY <2>1 DEF IInv, JniInv, RefOf
    <2>4. id \in Ids
      <3>1. RefOf(h) \in Ref
        BY <2>3, RefTypes DEF IInv
      <3>2. id \in MethodsOf[RefOf(h).of]
        BY <2>1 DEF IInv, JniInv
      <3> QED BY <3>1, <3>2, RefFields
    <2>5. /\ CallRecord.class = jni_classes[h]
          /\ CallRecord.method = jni_methods[id]
          /\ CallRecord.method_class \in {jni_methods_classes[id], None}
      BY <2>1, <2>2 DEF CallRecord, ClassOfRef, JniNamed, Due
    <2> HIDE DEF h, id
    <2>6. ClassTrue(h) /\ MethodTrue(id) /\ MethodClassTrue(id)
      BY <2>3, <2>4, ByTable DEF IInv
    <2>7. /\ entry[h] = "own" => CallRecord.class = RefOf(h).of
          /\ entry[h] = "none" => CallRecord.class = None
      BY <2>5, <2>6 DEF ClassTrue
    <2>8. /\ id \notin unheard => CallRecord.method \in {NameOf[id], None}
          /\ id \notin mistaken /\ CallRecord.method_class # None =>
               id \in MethodsOf[CallRecord.method_class]
      BY <2>5, <2>6 DEF MethodTrue, MethodClassTrue
    <2> QED BY <2>7, <2>8 DEF h, id
  <1> QED BY <1>1, InvInductive, PTL
=============================================================================
