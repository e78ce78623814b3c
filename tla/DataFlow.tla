------------------------------ MODULE DataFlow ------------------------------
(***************************************************************************)
(* What a taint analysis promises: line after line of its way through the  *)
(* trace, a location is tainted exactly if one of the locations its value  *)
(* comes from was.                                                         *)
(***************************************************************************)
EXTENDS Naturals, Sequences

CONSTANT Locs   \* registers and memory addresses

VARIABLES
  flow,     \* flow[k][y]: the locations y's value comes from on the k-th line
  behind,   \* lines whose flow has been followed
  tainted

vars == <<flow, behind, tainted>>

Image(f, T) == {y \in Locs : f[y] \cap T # {}}

Init == behind = 0

Follow ==
  /\ behind < Len(flow)
  /\ behind' = behind + 1
  /\ tainted' = Image(flow[behind + 1], tainted)
  /\ UNCHANGED flow

Spec == Init /\ [][Follow]_vars
=============================================================================
