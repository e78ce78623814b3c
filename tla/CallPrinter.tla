---------------------------- MODULE CallPrinter ----------------------------
(***************************************************************************)
(* The records of calls: what callout_callback notes in last_func_context  *)
(* when the traced thread is about to call a known symbol, a known system  *)
(* call or a JNI function, what FuncPrinter prints of it at the next       *)
(* callout, and the tables in which it keeps the names of the JNI classes  *)
(* and methods it saw.                                                     *)
(*                                                                         *)
(* A register holds a word; the text of a name stands for the pointer to   *)
(* it.  Of the JNI functions "FindClass" stands also for DefineClass,      *)
(* "GetMethodID" for GetStaticMethodID, "CallObjectMethod" for those of    *)
(* call_jni_methods whose second argument is the method, which excludes    *)
(* CallNonvirtual..., "DeleteLocalRef" for those of which only the return  *)
(* value is printed.                                                       *)
(***************************************************************************)
EXTENDS Integers

CONSTANTS
  ARGS,        \* argument registers x0 .. x(ARGS - 1)
  Words, ZERO, Env, None,
  Classes, Methods,   \* names
  Handles,     \* references of the VM
  Ids,         \* method ids of the VM: words it gives away once
  NameOf,      \* the name of each; overloaded methods share a name
  MethodsOf,   \* the ids of each class: its own methods and the inherited ones,
               \* so that a class and its subclasses share ids
  Svcs,        \* system call numbers that svc_func_maps knows
  Funcs,       \* names in func_maps
  ArgLists, JniArgLists,   \* bounds: argument registers of the calls
  Values,      \* bound: words that instructions leave in x0
  MaxCalls     \* bound: recorded calls

JniFuncs == {"FindClass", "GetMethodID", "CallObjectMethod", "DeleteLocalRef"}

(* A reference to a class or to an object of it. *)
Ref == [of : Classes, isclass : BOOLEAN]

(* Ghost: what jni_classes has for a handle.  Nothing; the name of the      *)
(* reference that is there; that of one that was there before; or what a    *)
(* record entered that did not see the return of FindClass.                 *)
Entries == {"none", "own", "former", "unheard"}

ASSUME WordAssumption ==
  /\ ARGS \in Nat /\ ARGS >= 3
  /\ Classes \cup Methods \cup Handles \cup Ids \cup Svcs \cup {ZERO, Env} \subseteq Words
  /\ ArgLists \cup JniArgLists \subseteq [0..ARGS - 1 -> Words]
  /\ Values \subseteq Words
  /\ None \notin Words \cup Ref /\ ZERO \notin Handles
ASSUME IdAssumption ==
  /\ NameOf \in [Ids -> Methods]
  /\ MethodsOf \in [Classes -> SUBSET Ids]
  /\ ZERO \notin Ids
ASSUME NameAssumption == MaxCalls \in Nat /\ Funcs \cap JniFuncs = {}

VARIABLES
  where,     \* the thread is in "traced" code or in a "callee" just called
  x0,        \* the register, as the next callout will find it
  made,      \* ghost: the call made last, and what came of it
  last_func_context,
  calls, records,   \* ghosts: calls noted, records printed
  jni_classes, jni_methods, jni_methods_classes,
  unheard,   \* ghost: ids named by a record that did not see what was returned
  mistaken,  \* ghost: ids whose class such a record entered, or one that took
             \* it from a handle whose entry was not its own
  refs,      \* external: what the VM's handles refer to
  entry      \* ghost: what jni_classes has for each handle

counts == <<calls, records>>
tables == <<jni_classes, jni_methods, jni_methods_classes, unheard, mistaken>>
vm == <<refs, entry>>
vars == <<where, x0, made, last_func_context, counts, tables, vm>>

Registers == [0..ARGS - 1 -> Words]
Names == Funcs \cup JniFuncs \cup Words

Call == [no : 0..MaxCalls, kind : {"none", "func", "svc", "jni"}, name : Names,
         x : Registers, returned : BOOLEAN, ret : Words, seen : BOOLEAN]

Context == [call : BOOLEAN, is_jni : BOOLEAN, no : 0..MaxCalls, name : Names, x : Registers]

TypeOK ==
  /\ where \in {"traced", "callee"}
  /\ x0 \in Words
  /\ made \in Call
  /\ last_func_context \in Context
  /\ calls \in 0..MaxCalls /\ records \in 0..MaxCalls
  /\ jni_classes \in [Words -> Classes \cup {None}]
  /\ jni_methods \in [Words -> Methods \cup {None}]
  /\ jni_methods_classes \in [Words -> Classes \cup {None}]
  /\ unheard \subseteq Ids /\ mistaken \subseteq Ids
  /\ refs \in [Handles -> Ref \cup {None}]
  /\ entry \in [Handles -> Entries]

NoRegisters == [i \in 0..ARGS - 1 |-> ZERO]

NoContext == [call |-> FALSE, is_jni |-> FALSE, no |-> 0, name |-> ZERO, x |-> NoRegisters]

NoneMade == [no |-> 0, kind |-> "none", name |-> ZERO, x |-> NoRegisters,
             returned |-> FALSE, ret |-> ZERO, seen |-> FALSE]

Init ==
  /\ where = "traced"
  /\ x0 \in {ZERO, Env}
  /\ made = NoneMade
  /\ last_func_context = NoContext
  /\ calls = 0 /\ records = 0
  /\ jni_classes = [w \in Words |-> None]
  /\ jni_methods = [w \in Words |-> None]
  /\ jni_methods_classes = [w \in Words |-> None]
  /\ unheard = {} /\ mistaken = {}
  /\ refs = [h \in Handles |-> None]
  /\ entry = [h \in Handles |-> "none"]

-----------------------------------------------------------------------------
(* The callout, first half: the record of the pending call, with the return *)
(* value that x0 holds now.                                                  *)
ctx == last_func_context

(* Mutant: system calls and symbols only. *)
PendingFunc == ctx.call /\ ~ctx.is_jni

Pending == ctx.call

JniNamed(name) == ctx.call /\ ctx.is_jni /\ ctx.name = name

RefOf(w) == IF w \in Handles THEN refs[w] ELSE None

(* Mutant: the class the method was found in, whatever the receiver is. *)
ClassOfMethod == jni_methods_classes[ctx.x[2]]

ClassOfRef == jni_classes[ctx.x[1]]

(* What jni_after and after print: names for a call of a method, and the    *)
(* class for a look up of one.                                               *)
CallRecord ==
  [is_jni |-> ctx.is_jni, name |-> ctx.name, x |-> ctx.x, ret |-> x0,
   class |-> IF JniNamed("CallObjectMethod") \/ JniNamed("GetMethodID")
             THEN ClassOfRef ELSE None,
   method |-> IF JniNamed("CallObjectMethod") THEN jni_methods[ctx.x[2]] ELSE None,
   method_class |-> IF JniNamed("CallObjectMethod") /\ jni_methods[ctx.x[2]] # None
                    THEN jni_methods_classes[ctx.x[2]] ELSE None]

(* Mutant: a handle keeps the first name it was given. *)
FirstName(name) == IF jni_classes[x0] = None THEN name ELSE jni_classes[x0]

(* Mutant: the name is taken from where GetMethodID has it. *)
NextRegister(name) == ctx.x[2]

FoundName(name) == name

(* FindClass: the handle it returned gets the name that was asked for; a    *)
(* name that read_string may not read changes nothing.                       *)
NoteClass(readable) ==
  IF JniNamed("FindClass") /\ readable
  THEN /\ jni_classes' = [jni_classes EXCEPT ![x0] = FoundName(ctx.x[1])]
       /\ entry' = [h \in Handles |-> IF h # x0 THEN entry[h]
                                     ELSE IF made.seen THEN "own" ELSE "unheard"]
  ELSE UNCHANGED <<jni_classes, entry>>

(* A set of ids after x0 was entered, well or not. *)
Entered(ids, well) == IF well THEN ids \ {x0} ELSE ids \cup ({x0} \cap Ids)

(* The class's handle has its own name. *)
OwnName(w) == w \in Handles /\ entry[w] = "own"

(* GetMethodID: the id it returned gets the method's name, and the name that*)
(* the class's handle has.  An id that a subclass looks up too is entered   *)
(* once more.                                                                *)
NoteMethod(readable) ==
  IF JniNamed("GetMethodID")
  THEN /\ IF readable
          THEN /\ jni_methods' = [jni_methods EXCEPT ![x0] = ctx.x[2]]
               /\ unheard' = Entered(unheard, made.seen)
          ELSE UNCHANGED <<jni_methods, unheard>>
       /\ IF jni_classes[ctx.x[1]] # None
          THEN /\ jni_methods_classes' = [jni_methods_classes EXCEPT ![x0] = jni_classes[ctx.x[1]]]
               /\ mistaken' = Entered(mistaken, made.seen /\ OwnName(ctx.x[1]))
          ELSE UNCHANGED <<jni_methods_classes, mistaken>>
  ELSE UNCHANGED <<jni_methods, jni_methods_classes, unheard, mistaken>>

PrintPending ==
  \E readable \in BOOLEAN :
    /\ records' = IF Pending THEN records + 1 ELSE records
    /\ NoteClass(readable)
    /\ NoteMethod(readable)

-----------------------------------------------------------------------------
(* The callout, second half: the instruction may be a call.                 *)

(* Mutant: the last register keeps its value. *)
ShiftedOnly(x) == [i \in 0..ARGS - 1 |-> IF i < ARGS - 1 THEN x[i + 1] ELSE x[i]]

(* shift_syscall_wrapper_args: the number goes, the arguments move up. *)
Shifted(x) == [i \in 0..ARGS - 1 |-> IF i < ARGS - 1 THEN x[i + 1] ELSE ZERO]

(* The mark is cleared with the record of a JNI call, and set by one. *)
IsJni(kind) == kind = "jni" \/ (ctx.is_jni /\ ~ctx.call)

(* The context of a call; the wrapper syscall() becomes the system call     *)
(* whose number it is given.                                                 *)
NoteCall(kind, name, x) ==
  /\ calls < MaxCalls
  /\ calls' = calls + 1
  /\ last_func_context' =
       [call |-> TRUE, is_jni |-> IsJni(kind), no |-> calls + 1,
        name |-> IF name = "syscall" THEN x[0] ELSE name,
        x |-> IF name = "syscall" THEN Shifted(x) ELSE x]
  /\ made' = [no |-> calls + 1, kind |-> kind, name |-> name, x |-> x,
              returned |-> FALSE, ret |-> ZERO, seen |-> FALSE]
  /\ where' = "callee"
  /\ UNCHANGED <<x0, refs>>

FuncCall ==
  /\ where = "traced"
  /\ PrintPending
  /\ \E f \in Funcs, x \in ArgLists : x[0] = x0 /\ NoteCall("func", f, x)

SvcCall ==
  /\ where = "traced"
  /\ PrintPending
  /\ \E nr \in Svcs, x \in ArgLists : x[0] = x0 /\ NoteCall("svc", nr, x)

(* What the JNI functions may be given: a class, a live reference, a method *)
(* that its class has, found through that class or through a base class.    *)
JniArgs(f, x) ==
  /\ x[0] = Env
  /\ f = "FindClass" => x[1] \in Classes
  /\ f # "FindClass" => RefOf(x[1]) # None
  /\ f = "GetMethodID" => RefOf(x[1]).isclass /\ x[2] \in Methods
  /\ f = "CallObjectMethod" => x[2] \in MethodsOf[RefOf(x[1]).of]

JniCall ==
  /\ where = "traced"
  /\ PrintPending
  /\ \E f \in JniFuncs, x \in JniArgLists :
       x[0] = x0 /\ JniArgs(f, x) /\ NoteCall("jni", f, x)

(* Any other instruction, a call of an unknown target included.  Name and   *)
(* registers of a printed call stay in the context, but nothing reads them.  *)
Plain ==
  /\ where = "traced"
  /\ PrintPending
  /\ last_func_context' = [NoContext EXCEPT !.is_jni = ctx.is_jni /\ ~ctx.call]
  /\ made' = NoneMade
  /\ x0' \in Values
  /\ UNCHANGED <<where, calls, refs>>

-----------------------------------------------------------------------------
(* External: what runs between two callouts.                                *)
Returned(w) ==
  /\ x0' = w
  /\ made' = [made EXCEPT !.returned = TRUE, !.ret = w, !.seen = TRUE]
  /\ where' = "traced"

Created(h, c, b) ==
  refs' = [refs EXCEPT ![h] = [of |-> c, isclass |-> b]] /\ UNCHANGED entry

Deleted(h) ==
  /\ refs' = [refs EXCEPT ![h] = None]
  /\ entry' = [entry EXCEPT ![h] = IF @ = "own" THEN "former" ELSE @]

(* Code that is not traced may create and delete references. *)
RefsMove ==
  \/ UNCHANGED vm
  \/ \E h \in Handles : Deleted(h)
  \/ \E h \in Handles, c \in Classes, b \in BOOLEAN : refs[h] = None /\ Created(h, c, b)

(* An excluded function or the kernel: it runs to its end. *)
NativeReturns ==
  /\ where = "callee" /\ made.kind # "jni"
  /\ \E w \in Values : Returned(w)
  /\ IF made.kind = "func" THEN RefsMove ELSE UNCHANGED vm
  /\ UNCHANGED <<last_func_context, counts, tables>>

(* A function of a traced module: the next callout is its first instruction.*)
EnterTraced ==
  /\ where = "callee" /\ made.kind = "func"
  /\ where' = "traced"
  /\ UNCHANGED <<x0, made, last_func_context, counts, tables, vm>>

JniReturns ==
  /\ where = "callee" /\ made.kind = "jni"
  /\ \/ /\ made.name \in {"FindClass", "CallObjectMethod"}
        /\ \E h \in Handles, c \in Classes :
             /\ refs[h] = None
             /\ made.name = "FindClass" => c = made.x[1]
             /\ Created(h, c, made.name = "FindClass") /\ Returned(h)
     \/ /\ made.name = "GetMethodID"
        /\ \E id \in MethodsOf[RefOf(made.x[1]).of] : NameOf[id] = made.x[2] /\ Returned(id)
        /\ UNCHANGED vm
     \/ /\ made.name = "DeleteLocalRef"
        /\ Deleted(made.x[1])
        /\ \E w \in Values : Returned(w)
     \/ /\ made.name # "DeleteLocalRef"
        /\ Returned(ZERO) /\ UNCHANGED vm
  /\ UNCHANGED <<last_func_context, counts, tables>>

(* Instructions without a callout: an exclusive sequence, or the end of the *)
(* session and whatever runs before the next one.  A pending call stays.    *)
Unseen ==
  /\ where = "traced"
  /\ x0' \in Values
  /\ made' = [made EXCEPT !.seen = FALSE]
  /\ RefsMove
  /\ UNCHANGED <<where, last_func_context, counts, tables>>

Next ==
  \/ FuncCall \/ SvcCall \/ JniCall \/ Plain
  \/ NativeReturns \/ EnterTraced \/ JniReturns \/ Unseen

Spec == Init /\ [][Next]_vars

-----------------------------------------------------------------------------
(* The next callout prints the record of the pending call. *)
Due == where = "traced" /\ ctx.call

(* One record for every call, in the order of the calls: the single slot    *)
(* last_func_context never loses one and never prints one twice.            *)
RecordsPaired ==
  /\ records = IF ctx.call THEN calls - 1 ELSE calls
  /\ ctx.call => ctx.no = calls /\ made.no = calls

(* A record is about the call that was made: its kind, its function (of     *)
(* syscall() the one that is meant), its arguments at the call and, if the  *)
(* callee returned straight to the next callout, the value it returned.     *)
RecordTrue ==
  Due =>
    LET p == CallRecord IN
    /\ p.is_jni <=> made.kind = "jni"
    /\ IF made.name = "syscall"
       THEN /\ p.name = made.x[0] /\ p.x[ARGS - 1] = ZERO
            /\ \A i \in 0..ARGS - 2 : p.x[i] = made.x[i + 1]
       ELSE p.name = made.name /\ p.x = made.x
    /\ made.returned /\ made.seen => p.ret = made.ret

(* What the tables say, though the VM uses its handles again, classes share *)
(* inherited methods and records miss returns.  A handle whose class was    *)
(* found by a printed FindClass has that class's name until the VM deletes  *)
(* the reference.  A method id has its method's name, whatever class it was *)
(* looked up in; and the class entered for it has the method, be it the base*)
(* or a subclass.  A bad entry spoils its own handle or id only, and until  *)
(* the next good one.                                                       *)
TablesTrue ==
  /\ \A h \in Handles :
       /\ entry[h] = "none" => jni_classes[h] = None
       /\ entry[h] = "own" => RefOf(h) # None /\ jni_classes[h] = RefOf(h).of
  /\ \A id \in Ids \ unheard : jni_methods[id] \in {NameOf[id], None}
  /\ \A id \in Ids \ mistaken :
       jni_methods_classes[id] # None => id \in MethodsOf[jni_methods_classes[id]]

(* What may be believed of the record of a method call: the receiver's      *)
(* class where FindClass gave the receiver and no entry or none where none  *)
(* was made for its handle, the name of the called method, and a class that *)
(* has this method.                                                         *)
NamesTrue ==
  Due /\ ctx.is_jni /\ made.seen /\ made.name = "CallObjectMethod" =>
    LET p == CallRecord
        receiver == made.x[1]
        id == made.x[2]
    IN  /\ entry[receiver] = "own" => p.class = RefOf(receiver).of
        /\ entry[receiver] = "none" => p.class = None
        /\ id \notin unheard => p.method \in {NameOf[id], None}
        /\ id \notin mistaken /\ p.method_class # None => id \in MethodsOf[p.method_class]

-----------------------------------------------------------------------------
(* What the README says, and the code does not do. *)

(* README.md:17, "parameters and return value are printed": the value in a  *)
(* record is the one that the callee returned.                              *)
ReturnsAreTrue ==
  Due => made.returned /\ CallRecord.ret = made.ret

(* README.md:19, "JNI calls are recognised, jclass and jmethodID resolved": *)
(* the class printed for a receiver is the receiver's, unless the return of *)
(* FindClass was missed.  A handle that is used again has a former name.    *)
ReceiverClassTrue ==
  Due /\ ctx.is_jni /\ made.seen /\ made.name = "CallObjectMethod" =>
    LET receiver == made.x[1]
    IN  entry[receiver] # "unheard" => CallRecord.class \in {RefOf(receiver).of, None}
=============================================================================
