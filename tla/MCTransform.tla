--------------------------- MODULE MCTransform ----------------------------
(* Five instructions, in an application library, a target, anonymous memory *)
(* and a system library, any of the modules loaded from the start or later, *)
(* and a pool of two or three contexts, so that it wraps several times.     *)
EXTENDS Transform

MCAddrs == 1..5
MCModuleOf == <<"libapp", "libtarget", "", "libc", "libtarget">>
MCExclusive == {5}
MCNameOrder == <<"libapp", "libc", "libtarget">>
MCRequests == {{}, {"libtarget"}, {"libapp"}, {"libtarget", "libc"}}
MCSystemModules == {"libc"}
=============================================================================
