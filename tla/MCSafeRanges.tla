---------------------------- MODULE MCSafeRanges ----------------------------
(* All memory maps of four addresses with at most two ranges. *)
EXTENDS SafeRanges

AllRanges == {r \in [base : 0..Top - 1, end : 1..Top] : r.base < r.end}
MCMaps ==
  {map \in SUBSET AllRanges :
     /\ Cardinality(map) <= 2
     /\ \A q, r \in map : q # r => q.end <= r.base \/ r.end <= q.base}
=============================================================================
