--------------------------- MODULE Transform_proofs ---------------------------
(***************************************************************************)
(* For every pool size and every order of compilation, a callout's context *)
(* is its own until the pool has come round to it; and for every sequence  *)
(* of init calls and loads, the system modules that an init found loaded   *)
(* are left alone unless one of them was asked for.                        *)
(***************************************************************************)
EXTENDS Transform, TLAPS, WellFoundedInduction

USE PoolAssumption, AddrAssumption, RequestAssumption

(* Where a young context lies: its age behind the next one to hand out,    *)
(* counted round the pool.  Only this makes the promise inductive: the     *)
(* next slot is never that of a context younger than the pool is long.     *)
PoolInv ==
  /\ list = [i \in Slots |-> list[i]]
  /\ curr_index \in 0..CALLBACK_CTX_SIZE
  /\ code \in [Addrs -> Slots \cup {None, Plain}]
  /\ pulls \in Nat
  /\ born \in [Addrs -> Nat]
  /\ \A a \in Addrs : HasCallout(a) =>
       /\ born[a] <= pulls
       /\ Age(a) < CALLBACK_CTX_SIZE =>
            /\ list[code[a]].insn = a
            /\ \/ code[a] + Age(a) + 1 = curr_index
               \/ code[a] + Age(a) + 1 = curr_index + CALLBACK_CTX_SIZE

(* Handing out the next slot makes every young context one older, and is    *)
(* never that context's own slot.                                           *)
LEMMA SlotsAgeTogether ==
  ASSUME NEW S \in Nat \ {0}, NEW c \in 0..S, NEW x \in 0..S - 1, NEW k \in Nat,
         k + 1 < S, x + k + 1 = c \/ x + k + 1 = c + S
  PROVE  LET n == IF c >= S THEN 0 ELSE c
         IN  x # n /\ (x + (k + 1) + 1 = n + 1 \/ x + (k + 1) + 1 = n + 1 + S)
  <1>1. CASE c >= S
    <2>1. c = S
      BY <1>1
    <2>2. x + k + 1 # 2 * S
      OBVIOUS
    <2> QED BY <2>1, <2>2
  <1>2. CASE c < S
    BY <1>2
  <1> QED BY <1>1, <1>2

LEMMA PullKeepsPool ==
  ASSUME PoolInv, NEW a \in Addrs, NEW m, pull(a, m)
  PROVE  PoolInv'
  <1> USE DEF PoolInv, Slots, HasCallout, Age, None, Plain
  <1>1. NextSlot \in Slots /\ curr_index' = NextSlot + 1 /\ pulls' = pulls + 1
    BY DEF pull, NextSlot
  <1>2. /\ list' = [list EXCEPT ![NextSlot] = [insn |-> a, module |-> m]]
        /\ born' = [born EXCEPT ![a] = pulls + 1]
        /\ code' = [code EXCEPT ![a] = NextSlot]
    BY DEF pull
  <1>3. ASSUME NEW b \in Addrs, HasCallout(b)'
        PROVE  /\ born'[b] <= pulls'
               /\ (Age(b) < CALLBACK_CTX_SIZE)' =>
                    /\ list'[code'[b]].insn = b
                    /\ \/ code'[b] + Age(b)' + 1 = curr_index'
                       \/ code'[b] + Age(b)' + 1 = curr_index' + CALLBACK_CTX_SIZE
    <2>1. CASE b = a
      BY <1>1, <1>2, <2>1
    <2>2. CASE b # a
      <3>1. /\ HasCallout(b) /\ born'[b] = born[b] /\ code'[b] = code[b]
            /\ Age(b)' = Age(b) + 1
        BY <1>1, <1>2, <1>3, <2>2
      <3>2. ASSUME Age(b)' < CALLBACK_CTX_SIZE
            PROVE  /\ code[b] # NextSlot
                   /\ \/ code[b] + Age(b)' + 1 = curr_index'
                      \/ code[b] + Age(b)' + 1 = curr_index' + CALLBACK_CTX_SIZE
        <4>1. /\ code[b] \in 0..CALLBACK_CTX_SIZE - 1 /\ curr_index \in 0..CALLBACK_CTX_SIZE
              /\ Age(b) \in Nat /\ Age(b) + 1 < CALLBACK_CTX_SIZE
          BY <3>1, <3>2
        <4>2. \/ code[b] + Age(b) + 1 = curr_index
              \/ code[b] + Age(b) + 1 = curr_index + CALLBACK_CTX_SIZE
          BY <3>1, <4>1
        <4> HIDE DEF Age, PoolInv
        <4> QED BY <1>1, <3>1, <4>1, <4>2, SlotsAgeTogether DEF NextSlot
      <3>3. ASSUME Age(b)' < CALLBACK_CTX_SIZE
            PROVE  list'[code'[b]].insn = b
        BY <1>1, <1>2, <3>1, <3>2, <3>3
      <3> QED BY <1>1, <3>1, <3>2, <3>3
    <2> QED BY <2>1, <2>2
  <1>4. /\ list' = [i \in Slots |-> list'[i]]
        /\ curr_index' \in 0..CALLBACK_CTX_SIZE
        /\ code' \in [Addrs -> Slots \cup {None, Plain}]
        /\ pulls' \in Nat
        /\ born' \in [Addrs -> Nat]
    <2>1. list' = [i \in Slots |-> list'[i]]
      BY <1>2
    <2>2. curr_index' \in 0..CALLBACK_CTX_SIZE
      BY <1>1
    <2>3. code' \in [Addrs -> Slots \cup {None, Plain}]
      BY <1>1, <1>2
    <2>4. pulls' \in Nat /\ born' \in [Addrs -> Nat]
      BY <1>1, <1>2
    <2> QED BY <2>1, <2>2, <2>3, <2>4
  <1> QED BY <1>3, <1>4

LEMMA PoolStep == PoolInv /\ [Next]_vars => PoolInv'
  <1> SUFFICES ASSUME PoolInv, [Next]_vars PROVE PoolInv'
    OBVIOUS
  <1>1. ASSUME NEW names \in Requests, InitModules(names)
        PROVE  PoolInv'
    BY <1>1 DEF InitModules, PoolInv, HasCallout, Slots, None, Age
  <1>2. ASSUME NEW a \in Addrs, Instrument(a)
        PROVE  PoolInv'
    <2>1. CASE modules # {} /\ a \notin Exclusive
      <3>1. pull(a, in_range_module(a))
        BY <1>2, <2>1 DEF Instrument
      <3> QED BY <3>1, PullKeepsPool
    <2>2. CASE ~(modules # {} /\ a \notin Exclusive)
      <3>1. /\ code' = [code EXCEPT ![a] = Plain]
            /\ UNCHANGED <<list, curr_index, pulls, born>>
        BY <1>2, <2>2 DEF Instrument
      <3> QED BY <3>1 DEF PoolInv, HasCallout, Slots, Plain, Age
    <2> QED BY <2>1, <2>2
  <1>3. ASSUME NEW m \in Modules, Load(m)
        PROVE  PoolInv'
    BY <1>3 DEF Load, PoolInv, HasCallout, Age
  <1>4. CASE UNCHANGED vars
    BY <1>4 DEF vars, PoolInv, HasCallout, Age
  <1> QED BY <1>1, <1>2, <1>3, <1>4 DEF Next

(* A callout prints its own instruction while fewer than CALLBACK_CTX_SIZE *)
(* contexts have been handed out since it got its context.                 *)
THEOREM PoolIdentity == Spec => []RecentContextsIntact
  <1>1. Init => PoolInv
    <2> SUFFICES ASSUME Init PROVE PoolInv
      OBVIOUS
    <2>1. list = [i \in Slots |-> list[i]]
      BY DEF Init
    <2>2. curr_index \in 0..CALLBACK_CTX_SIZE /\ pulls \in Nat
      BY DEF Init
    <2>3. code \in [Addrs -> Slots \cup {None, Plain}] /\ born \in [Addrs -> Nat]
      BY DEF Init
    <2>4. \A a \in Addrs : ~HasCallout(a)
      BY DEF Init, HasCallout, None, Slots
    <2> QED BY <2>1, <2>2, <2>3, <2>4 DEF PoolInv
  <1>2. PoolInv => RecentContextsIntact
    BY DEF PoolInv, RecentContextsIntact, HasCallout, Age
  <1> QED BY <1>1, <1>2, PoolStep, PTL DEF Spec

-----------------------------------------------------------------------------
(* A module table that is not empty has a first module. *)
LEMMA FirstModule ==
  ASSUME NEW M \in SUBSET Modules, M # {}
  PROVE  \E k \in DOMAIN NameOrder :
           /\ NameOrder[k] \in M
           /\ \A j \in DOMAIN NameOrder : NameOrder[j] \in M => k <= j
  <1> DEFINE K == {k \in DOMAIN NameOrder : NameOrder[k] \in M}
  <1>1. K \subseteq Nat /\ K # {}
    BY NameAssumption DEF Modules
  <1>2. \E x \in K : \A y \in K : ~(<<y, x>> \in OpToRel(<, Nat))
    <2> HIDE DEF K
    <2> QED BY <1>1, NatLessThanWellFounded, WFMin
  <1>3. PICK x \in K : \A y \in K : ~(<<y, x>> \in OpToRel(<, Nat))
    BY <1>2
  <1>4. ASSUME NEW y \in K PROVE x <= y
    <2>1. x \in Nat /\ y \in Nat
      BY <1>1
    <2>2. <<y, x>> \in Nat \X Nat /\ <<y, x>>[1] = y /\ <<y, x>>[2] = x
      BY <2>1
    <2>3. y < x => <<y, x>> \in OpToRel(<, Nat)
      BY <2>2, Zenon DEF OpToRel
    <2>4. ~(y < x)
      BY <1>3, <2>3
    <2> QED BY <2>1, <2>4
  <1> QED BY <1>4

LEMMA TypeStep == TypeOK /\ [Next]_vars => TypeOK'
  <1> SUFFICES ASSUME TypeOK, [Next]_vars PROVE TypeOK'
    OBVIOUS
  <1>1. ASSUME NEW names \in Requests, InitModules(names)
        PROVE  TypeOK'
    <2>1. /\ loaded' = loaded /\ enumerated' = loaded
          /\ named' = named \cup (names \cap loaded)
          /\ modules' = Registered(names) /\ excluded' = loaded \ Registered(names)
      BY <1>1 DEF InitModules
    <2>2. /\ loaded' \subseteq Modules /\ enumerated' \subseteq loaded'
          /\ named' \subseteq modules' /\ modules' \subseteq loaded'
          /\ excluded' \subseteq enumerated'
      BY <2>1 DEF Registered, TypeOK
    <2>3. modules \subseteq modules'
      BY <2>1 DEF Registered
    <2>4. list' \in [Slots -> Context' \cup {Unused}]
      BY <1>1, <2>3 DEF InitModules, TypeOK, Context
    <2>5. code' \in [Addrs -> Slots \cup {None, Plain}] /\ session' \in Nat
      BY <1>1 DEF InitModules, TypeOK
    <2> QED BY <1>1, <2>2, <2>4, <2>5 DEF InitModules, TypeOK
  <1>2. ASSUME NEW a \in Addrs, Instrument(a), modules # {} /\ a \notin Exclusive
        PROVE  TypeOK'
    <2>1. /\ pull(a, in_range_module(a))
          /\ UNCHANGED <<loaded, enumerated, named, modules, excluded, session>>
      BY <1>2 DEF Instrument
    <2>2. in_range_module(a) \in modules
      <3>1. modules \in SUBSET Modules
        BY DEF TypeOK
      <3> QED BY <1>2, <3>1, FirstModule DEF in_range_module
    <2>3. NextSlot \in Slots /\ NextSlot + 1 \in 0..CALLBACK_CTX_SIZE
      BY DEF NextSlot, Slots, TypeOK
    <2>4. [insn |-> a, module |-> in_range_module(a)] \in Context
      BY <2>2 DEF Context
    <2>5. list' \in [Slots -> Context' \cup {Unused}] /\ curr_index' \in 0..CALLBACK_CTX_SIZE
      <3>1. list \in [Slots -> Context \cup {Unused}] /\ Context' = Context
        BY <2>1 DEF TypeOK, Context
      <3> QED BY <2>1, <2>3, <2>4, <3>1 DEF pull
    <2>6. /\ code' \in [Addrs -> Slots \cup {None, Plain}]
          /\ pulls' \in Nat /\ born' \in [Addrs -> Nat]
      BY <2>1, <2>3 DEF pull, TypeOK
    <2> QED BY <2>1, <2>5, <2>6 DEF TypeOK
  <1>3. ASSUME NEW a \in Addrs, Instrument(a), ~(modules # {} /\ a \notin Exclusive)
        PROVE  TypeOK'
    BY <1>3 DEF Instrument, TypeOK, Context
  <1>4. ASSUME NEW m \in Modules, Load(m)
        PROVE  TypeOK'
    BY <1>4 DEF Load, TypeOK, Context
  <1>5. CASE UNCHANGED vars
    BY <1>5 DEF vars, TypeOK, Context
  <1> QED BY <1>1, <1>2, <1>3, <1>4, <1>5 DEF Next

(* The pool is never indexed outside its bounds, and every context that was *)
(* handed out names a module that is in the table now.                      *)
THEOREM TransformTypeCorrect == Spec => []TypeOK
  <1>1. Init => TypeOK
    <2> SUFFICES ASSUME Init PROVE TypeOK
      OBVIOUS
    <2>1. list \in [Slots -> Context \cup {Unused}]
      BY DEF Init
    <2>2. code \in [Addrs -> Slots \cup {None, Plain}]
      BY DEF Init
    <2> QED BY <2>1, <2>2 DEF Init, TypeOK
  <1> QED BY <1>1, TypeStep, PTL DEF Spec

-----------------------------------------------------------------------------
(* What the table and the exclusions say of code that has callouts: it was  *)
(* compiled by a Stalker for which every module that was enumerated and is  *)
(* not in the table is excluded, and a system module is in the table only   *)
(* by its name.  Of modules loaded since, nothing is known.                 *)
TableInv ==
  /\ modules \cap SystemModules \subseteq named
  /\ enumerated \subseteq modules \cup excluded
  /\ \A a \in Addrs : HasCallout(a) => ModuleOf[a] \notin excluded

LEMMA TableStep == TypeOK /\ TableInv /\ [Next]_vars => TableInv'
  <1> SUFFICES ASSUME TypeOK, TableInv, [Next]_vars PROVE TableInv'
    OBVIOUS
  <1>1. ASSUME NEW names \in Requests, InitModules(names)
        PROVE  TableInv'
    <2>1. modules' \cap SystemModules \subseteq named'
      BY <1>1 DEF InitModules, Registered, TableInv
    <2>2. enumerated' \subseteq modules' \cup excluded'
      BY <1>1 DEF InitModules
    <2>3. ASSUME NEW a \in Addrs PROVE ~HasCallout(a)'
      BY <1>1 DEF InitModules, HasCallout, None, Slots
    <2> QED BY <2>1, <2>2, <2>3 DEF TableInv
  <1>2. ASSUME NEW a \in Addrs, Instrument(a)
        PROVE  TableInv'
    <2>1. UNCHANGED <<enumerated, named, modules, excluded>> /\ ModuleOf[a] \notin excluded
      BY <1>2 DEF Instrument
    <2>2. ASSUME NEW b \in Addrs, HasCallout(b)'
          PROVE  ModuleOf[b] \notin excluded
      <3>1. CASE b = a
        BY <2>1, <3>1
      <3>2. CASE b # a
        <4>1. HasCallout(b)
          BY <1>2, <2>2, <3>2 DEF Instrument, pull, HasCallout, TypeOK
        <4> QED BY <4>1, Zenon DEF TableInv
      <3> QED BY <3>1, <3>2
    <2> QED BY <2>1, <2>2 DEF TableInv
  <1>3. ASSUME NEW m \in Modules, Load(m)
        PROVE  TableInv'
    BY <1>3 DEF Load, TableInv, HasCallout
  <1>4. CASE UNCHANGED vars
    BY <1>4 DEF vars, TableInv, HasCallout
  <1> QED BY <1>1, <1>2, <1>3, <1>4 DEF Next

(* No instruction of a system module that was loaded at the session's init  *)
(* gets a callout unless some init named that module, whatever inits before *)
(* put into the table and whatever is loaded when.                          *)
THEOREM SystemNotInstrumented == Spec => []SystemExcluded
  <1>1. Init => TableInv
    BY SMT DEF Init, TableInv, HasCallout, None, Slots
  <1>2. TableInv => SystemExcluded
    BY DEF TableInv, SystemExcluded
  <1> QED BY <1>1, <1>2, TableStep, TransformTypeCorrect, PTL DEF Spec
=============================================================================
