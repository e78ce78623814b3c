--------------------------- MODULE MCCallPrinter ---------------------------
(* One handle that the VM uses again and again; a class A with a method, and *)
(* a subclass B that inherits it and overloads it with one of its own.       *)
EXTENDS CallPrinter, TLC

CONSTANTS h, A, B, m, idA, idB

MCWords == {ZERO, Env, h, A, B, m, idA, idB}
MCNameOf == idA :> m @@ idB :> m
MCMethodsOf == A :> {idA} @@ B :> {idA, idB}
MCValues == {Env, h, idA}
Tails == {<<A, ZERO>>, <<B, ZERO>>, <<h, m>>, <<h, idA>>, <<h, idB>>}
ArgList(w, t) == [i \in 0..2 |-> IF i = 0 THEN w ELSE t[i]]
MCArgLists == {ArgList(w, <<A, m>>) : w \in MCValues \cup {ZERO}}
MCJniArgLists == {ArgList(Env, t) : t \in Tails}
=============================================================================
