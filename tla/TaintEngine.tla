----------------------------- MODULE TaintEngine -----------------------------
(***************************************************************************)
(* The offline taint tracker's engine: the scan over the lines from the    *)
(* start line, with the lines it reports and the reasons for which it      *)
(* stops.  What a line does to the taint is in ParsedLine.                 *)
(*                                                                         *)
(* The register bitmap, its counter and tainted_mem_ are one set of        *)
(* locations.                                                              *)
(***************************************************************************)
EXTENDS ParsedLine

CONSTANTS
  Lines,               \* parsed lines
  TraceLength,         \* bound: lines of the trace
  max_scan_distance    \* lines without propagation after which a scan gives up

Modes == {"FORWARD", "BACKWARD"}
Reasons == {"END_OF_TRACE", "SCAN_LIMIT_REACHED", "ALL_TAINT_CLEARED"}

ASSUME ScanAssumption ==
  TraceLength \in Nat \ {0} /\ max_scan_distance \in Nat \ {0}

(* TraceParser shows that the parser makes only such lines. *)
ASSUME LineAssumption == Lines \subseteq LineType /\ \A l \in Lines : WellFormed(l)

-----------------------------------------------------------------------------
(* run *)
VARIABLES
  lines,         \* the parsed trace
  mode,          \* mode_
  start_index,
  pc,            \* "start", "scan", "out" of the loop, "done"
  i,             \* the line the loop comes to next
  tainted,       \* reg_taint_ and tainted_mem_
  since,         \* lines_since_last_propagation
  results,       \* results_: the recorded lines, each with the taint after it
  stop_reason

input == <<lines, mode, start_index>>
vars == <<input, pc, i, tainted, since, results, stop_reason>>

Entry == [index : 1..TraceLength, taint : SUBSET Locs]

TypeOK ==
  /\ lines \in [1..TraceLength -> Lines]
  /\ mode \in Modes
  /\ start_index \in 1..TraceLength
  /\ pc \in {"start", "scan", "out", "done"}
  /\ i \in 0..TraceLength + 1
  /\ tainted \subseteq Locs
  /\ since \in 0..max_scan_distance
  /\ results \in Seq(Entry)
  /\ stop_reason \in Reasons

(* set_source: one register, which taints nothing if it is xzr, or address. *)
Init ==
  /\ lines \in [1..TraceLength -> Lines]
  /\ mode \in Modes
  /\ start_index \in 1..TraceLength
  /\ pc = "start"
  /\ i = start_index
  /\ \/ \E r \in Regs : tainted = Normal({r})
     \/ \E a \in Addrs : tainted = {a}
  /\ since = 0
  /\ results = <<>>
  /\ stop_reason = "END_OF_TRACE"

(* Mutants: the snapshot is taken before the line's own effect; the loop's   *)
(* counter has moved on when the line is recorded.                           *)
EarlyRecord(k) == results' = Append(results, [index |-> k, taint |-> tainted])
NextRecord(k) == results' = Append(results, [index |-> k + 1, taint |-> tainted'])

record(k) == results' = Append(results, [index |-> k, taint |-> tainted'])

(* Forward, taint starts behind the start line; backward, in front of it. *)
Start ==
  /\ pc = "start"
  /\ tainted' = IF mode = "FORWARD" THEN tainted
                ELSE propagate_backward(lines[start_index], tainted)
  /\ record(start_index)
  /\ i' = IF mode = "FORWARD" THEN start_index + 1 ELSE start_index - 1
  /\ pc' = "scan"
  /\ UNCHANGED <<input, since, stop_reason>>

Involved ==
  IF mode = "FORWARD" THEN InvolvedForward(lines[i], tainted)
                      ELSE InvolvedBackward(lines[i], tainted)

(* A backward scan leaves the lines alone that are not involved. *)
Propagated ==
  CASE mode = "FORWARD" -> propagate_forward(lines[i], tainted)
    [] mode = "BACKWARD" /\ Involved -> propagate_backward(lines[i], tainted)
    [] OTHER -> tainted

(* Mutant: lines that propagate count as well. *)
GivesUpAnyway == since + 1 >= max_scan_distance

GivesUp == ~Involved /\ since + 1 >= max_scan_distance

(* One iteration of the loop. *)
Scan ==
  /\ pc = "scan"
  /\ i \in 1..TraceLength
  /\ tainted' = Propagated
  /\ IF Involved THEN record(i) /\ since' = 0
                 ELSE UNCHANGED results /\ since' = since + 1
  /\ stop_reason' = CASE GivesUp -> "SCAN_LIMIT_REACHED"
                      [] ~GivesUp /\ tainted' = {} -> "ALL_TAINT_CLEARED"
                      [] OTHER -> stop_reason
  /\ pc' = IF GivesUp \/ tainted' = {} THEN "out" ELSE "scan"
  /\ i' = IF mode = "FORWARD" THEN i + 1 ELSE i - 1
  /\ UNCHANGED input

LoopEnd ==
  /\ pc = "scan"
  /\ i \notin 1..TraceLength
  /\ pc' = "out"
  /\ UNCHANGED <<input, i, tainted, since, results, stop_reason>>

(* Mutant: the results of a backward scan are left as they were found. *)
ReturnAsFound ==
  /\ pc = "out"
  /\ pc' = "done"
  /\ UNCHANGED <<input, i, tainted, since, results, stop_reason>>

(* A backward scan found its results in reverse. *)
Return ==
  /\ pc = "out"
  /\ results' = IF mode = "BACKWARD" THEN Reverse(results) ELSE results
  /\ pc' = "done"
  /\ UNCHANGED <<input, i, tainted, since, stop_reason>>

Next == Start \/ Scan \/ LoopEnd \/ Return

Spec == Init /\ [][Next]_vars

-----------------------------------------------------------------------------
Way ==
  IF mode = "FORWARD"
  THEN [k \in 1..TraceLength - start_index |-> From(lines[start_index + k])]
  ELSE [k \in 1..start_index |-> Into(lines[start_index + 1 - k])]

Behind ==
  CASE pc = "start" -> 0
    [] pc # "start" /\ mode = "FORWARD" -> i - start_index - 1
    [] pc # "start" /\ mode = "BACKWARD" -> start_index - i

(* Forward and backward, the taint at every line is the image of the source *)
(* under one and the same data flow, whatever lines the scan skips or       *)
(* leaves out of its report.                                                *)
DF == INSTANCE DataFlow WITH flow <- Way, behind <- Behind
ImplementsDataFlow == DF!Spec

Latest == IF pc = "done" /\ mode = "BACKWARD" THEN results[1] ELSE results[Len(results)]

(* The taint printed with the latest reported line is still the engine's    *)
(* (backward), or misses nothing it has tainted since (forward: lines that  *)
(* only clear a register are not reported).                                 *)
ReportsAreCurrent ==
  pc # "start" =>
    IF mode = "FORWARD" THEN tainted \subseteq Latest.taint ELSE tainted = Latest.taint

(* Lines looked at after the latest reported one. *)
Distance ==
  IF mode = "FORWARD" THEN i - 1 - Latest.index ELSE Latest.index - (i + 1)

(* The stop reason is the reason: the limit counts exactly the lines since  *)
(* the latest report, and only a scan that ran out of lines says so.        *)
StopReasonTrue ==
  pc \in {"out", "done"} =>
    CASE stop_reason = "SCAN_LIMIT_REACHED" -> Distance = max_scan_distance
      [] stop_reason = "ALL_TAINT_CLEARED" -> tainted = {}
      [] stop_reason = "END_OF_TRACE" -> i \notin 1..TraceLength

(* The report names every line once, in the order of the trace, the start   *)
(* line among them.                                                         *)
ResultsInOrder ==
  pc = "done" =>
    /\ \A j, k \in 1..Len(results) : j < k => results[j].index < results[k].index
    /\ \E k \in 1..Len(results) : results[k].index = start_index
=============================================================================
