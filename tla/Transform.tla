----------------------------- MODULE Transform -----------------------------
(***************************************************************************)
(* Which instructions the tracer instruments, and what their callouts will *)
(* say: the module table init fills, the modules it excludes from Stalker, *)
(* transform_callback, which compiles one instruction after another, and   *)
(* the fixed pool of callback contexts it hands to the callouts.           *)
(*                                                                         *)
(* Stalker is external: it compiles an address that is not excluded when   *)
(* it is first reached and may compile it again (trust threshold, code of  *)
(* a later session).  So is the loader: the process may load a module at   *)
(* any time, before, between and after the calls of init; a module that is *)
(* loaded stays where it is.                                               *)
(***************************************************************************)
EXTENDS Integers, FiniteSets

CONSTANTS
  CALLBACK_CTX_SIZE,   \* capacity of the pool
  Addrs,               \* instruction addresses
  ModuleOf,            \* the module each address lies in, or Anonymous memory
  Exclusive,           \* addresses inside a window from a load-exclusive to its
                       \* store-exclusive
  SystemModules,       \* modules whose path module_enumerate excludes by name
  NameOrder,           \* the modules as std::map orders their names
  Requests,            \* the sets of modules init may be asked for
  ANDROID,             \* PLATFORM_ANDROID
  MaxPulls,            \* bound: contexts handed out
  MaxSessions          \* bound: calls of init

Anonymous == ""
Modules == {NameOrder[k] : k \in DOMAIN NameOrder}
Slots == 0..CALLBACK_CTX_SIZE - 1
None == -1        \* not compiled
Plain == -2       \* compiled without a callout

ASSUME PoolAssumption == CALLBACK_CTX_SIZE \in Nat \ {0}
ASSUME RequestAssumption == Requests \subseteq SUBSET Modules
ASSUME AddrAssumption ==
  /\ Addrs \subseteq Nat
  /\ ModuleOf \in [Addrs -> Modules \cup {Anonymous}]
  /\ Exclusive \subseteq Addrs
ASSUME NameAssumption ==
  DOMAIN NameOrder \subseteq Nat /\ SystemModules \subseteq Modules

VARIABLES
  loaded,        \* external: the modules the process has loaded
  enumerated,    \* ghost: the modules that were loaded at the last init
  named,         \* ghost: the modules any init was asked for and found
  modules,       \* GumTrace::modules: the registered modules
  excluded,      \* modules excluded from the current Stalker
  list,          \* the pool: what each context describes
  curr_index,    \* the next context to hand out
  code,          \* Stalker's code: the context of the callout before each address
  pulls,         \* ghost: contexts handed out so far
  born,          \* ghost: pulls when the address got its context
  session        \* ghost: calls of init

vars == <<loaded, enumerated, named, modules, excluded, list, curr_index, code, pulls, born,
          session>>

(* What a context may say: it names a module of the table. *)
Context == [insn : Addrs, module : modules]
Unused == [insn |-> None, module |-> Anonymous]

TypeOK ==
  /\ loaded \subseteq Modules
  /\ enumerated \subseteq loaded
  /\ named \subseteq modules
  /\ modules \subseteq loaded
  /\ excluded \subseteq enumerated
  /\ list \in [Slots -> Context \cup {Unused}]
  /\ curr_index \in 0..CALLBACK_CTX_SIZE
  /\ code \in [Addrs -> Slots \cup {None, Plain}]
  /\ pulls \in Nat
  /\ born \in [Addrs -> Nat]
  /\ session \in Nat

Init ==
  /\ loaded \in SUBSET Modules
  /\ enumerated = {}
  /\ named = {}
  /\ modules = {}
  /\ excluded = {}
  /\ list = [i \in Slots |-> Unused]
  /\ curr_index = 0
  /\ code = [a \in Addrs |-> None]
  /\ pulls = 0
  /\ born = [a \in Addrs |-> 0]
  /\ session = 0

(* Mutant: the paths of the modules are not looked at. *)
RegisterAll(names) == modules \cup (names \cap loaded) \cup (IF ANDROID THEN loaded ELSE {})

(* The table after init: a name is looked for among the loaded modules, and *)
(* passed over if it is not there; on Android module_enumerate adds every   *)
(* loaded module that is not a system one.                                  *)
Registered(names) ==
  modules \cup (names \cap loaded) \cup (IF ANDROID THEN loaded \ SystemModules ELSE {})

(* init: a new Stalker starts without code, and module_enumerate excludes   *)
(* from it every loaded module that is not in the table; the table and the  *)
(* pool keep what earlier sessions put there.                               *)
InitModules(names) ==
  /\ session < MaxSessions
  /\ session' = session + 1
  /\ named' = named \cup (names \cap loaded)
  /\ enumerated' = loaded
  /\ modules' = Registered(names)
  /\ excluded' = loaded \ Registered(names)
  /\ code' = [a \in Addrs |-> None]
  /\ UNCHANGED <<loaded, list, curr_index, pulls, born>>

(* External: dlopen, from traced code or from any thread. *)
Load(m) ==
  /\ m \notin loaded
  /\ loaded' = loaded \cup {m}
  /\ UNCHANGED <<enumerated, named, modules, excluded, list, curr_index, code, pulls,
                 born, session>>

(* in_range_module: the first registered module, whatever the address. *)
in_range_module(a) ==
  NameOrder[CHOOSE k \in DOMAIN NameOrder :
    /\ NameOrder[k] \in modules
    /\ \A j \in DOMAIN NameOrder : NameOrder[j] \in modules => k <= j]

(* Mutants: never wraps; wraps one element early. *)
NoWrap == curr_index
LateSlot == IF curr_index > CALLBACK_CTX_SIZE - 2 THEN 0 ELSE curr_index

(* CallbackContext::pull: round the pool, over contexts still in use. *)
NextSlot == IF curr_index >= CALLBACK_CTX_SIZE THEN 0 ELSE curr_index

pull(a, m) ==
  /\ list' = [list EXCEPT ![NextSlot] = [insn |-> a, module |-> m]]
  /\ curr_index' = NextSlot + 1
  /\ pulls' = pulls + 1
  /\ born' = [born EXCEPT ![a] = pulls + 1]
  /\ code' = [code EXCEPT ![a] = NextSlot]

(* transform_callback, for one instruction of the block being compiled. *)
Instrument(a) ==
  /\ session > 0
  /\ ModuleOf[a] \in (loaded \cup {Anonymous}) \ excluded
  /\ pulls < MaxPulls
  /\ IF modules # {} /\ a \notin Exclusive
     THEN pull(a, in_range_module(a))
     ELSE /\ code' = [code EXCEPT ![a] = Plain]
          /\ UNCHANGED <<list, curr_index, pulls, born>>
  /\ UNCHANGED <<loaded, enumerated, named, modules, excluded, session>>

Next ==
  \/ \E names \in Requests : InitModules(names)
  \/ \E m \in Modules : Load(m)
  \/ \E a \in Addrs : Instrument(a)

Spec == Init /\ [][Next]_vars

-----------------------------------------------------------------------------
HasCallout(a) == code[a] \in Slots

(* How many contexts were handed out since a got its own. *)
Age(a) == pulls - born[a]

(* A callout speaks of its own instruction as long as fewer than            *)
(* CALLBACK_CTX_SIZE contexts have been handed out since, however often the *)
(* pool has wrapped and whatever was compiled again or in another session.  *)
RecentContextsIntact ==
  \A a \in Addrs : HasCallout(a) /\ Age(a) < CALLBACK_CTX_SIZE =>
    list[code[a]].insn = a

(* A system library that was there when init looked is instrumented only if *)
(* some init asked for it, however many sessions have added to the module   *)
(* table since and whatever else has been loaded.  One that is loaded later *)
(* is not excluded, though README.md:226 says that system modules are.      *)
SystemExcluded ==
  \A a \in Addrs : HasCallout(a) /\ ModuleOf[a] \in SystemModules \cap enumerated =>
    ModuleOf[a] \in named

-----------------------------------------------------------------------------
(* What the README says, and the code does not do. *)

(* README.md:14: for every instruction executed, its own mnemonic and       *)
(* operands.                                                                *)
CalloutIdentity ==
  \A a \in Addrs : HasCallout(a) => list[code[a]].insn = a
=============================================================================
