------------------------- MODULE TaintEngine_proofs -------------------------
(***************************************************************************)
(* For every register file, set of lines and trace: the scan implements    *)
(* DataFlow, what it reports is current and in order, and it stops for the *)
(* reason it gives.                                                        *)
(***************************************************************************)
EXTENDS TaintEngine, ParsedLine_proofs

(* DataFlow asks of a line what ParsedLine_proofs shows of it. *)
LEMMA LineFlow ==
  ASSUME NEW l \in Lines, NEW T, T \subseteq Locs
  PROVE  /\ propagate_forward(l, T) = DF!Image(From(l), T)
         /\ propagate_backward(l, T) = DF!Image(Into(l), T)
  <1>1. l \in LineType /\ WellFormed(l)
    BY LineAssumption
  <1>2. /\ propagate_forward(l, T) = Image(From(l), T)
        /\ propagate_backward(l, T) = Image(Into(l), T)
    BY <1>1, ForwardExact, BackwardExact
  <1> QED BY <1>2 DEF Image, DF!Image

(* A backward scan loses nothing by leaving uninvolved lines alone. *)
LEMMA UninvolvedFlow ==
  ASSUME NEW l \in Lines, NEW T, T \subseteq Locs, ~InvolvedBackward(l, T)
  PROVE  T = DF!Image(Into(l), T)
  <1>1. l \in LineType /\ WellFormed(l)
    BY LineAssumption
  <1>2. T = Image(Into(l), T)
    BY <1>1, UninvolvedUnchanged
  <1> QED BY <1>2 DEF Image, DF!Image

-----------------------------------------------------------------------------
(* A line never taints anything that is not a location. *)
LEMMA PropagationTyped ==
  ASSUME NEW l \in Lines, NEW T, T \subseteq Locs
  PROVE  propagate_forward(l, T) \subseteq Locs /\ propagate_backward(l, T) \subseteq Locs
  BY LineFlow DEF DF!Image

LEMMA NormalLoc ==
  ASSUME NEW r \in Regs
  PROVE  Normal({r}) \subseteq Locs
  <1>1. {r} \subseteq Regs
    OBVIOUS
  <1> QED BY <1>1, NormalType DEF Locs

(* The inductive invariant: where the scan is, and that it counts the lines *)
(* since the latest report and has room for one more while it runs.         *)
Walked ==
  pc # "start" =>
    /\ i \in (IF mode = "FORWARD" THEN start_index + 1..TraceLength + 1
                                 ELSE 0..start_index - 1)
    /\ results # <<>>

Running ==
  /\ pc = "start" => since = 0 /\ results = <<>>
  /\ pc \in {"start", "scan"} => since < max_scan_distance /\ stop_reason = "END_OF_TRACE"

IInv == TypeOK /\ Walked /\ Running

LEMMA InitInv == Init => IInv
  <1> SUFFICES ASSUME Init PROVE IInv
    OBVIOUS
  <1>1. tainted \subseteq Locs
    BY NormalLoc DEF Init, Locs
  <1>2. results \in Seq(Entry)
    BY EmptySeq DEF Init
  <1>3. i \in 0..TraceLength + 1 /\ since \in 0..max_scan_distance
    BY ScanAssumption DEF Init
  <1>4. TypeOK
    BY <1>1, <1>2, <1>3 DEF Init, TypeOK, Reasons
  <1> QED BY <1>4, ScanAssumption DEF Init, IInv, Walked, Running

(* What a line of the scan does to the taint is the line's propagation. *)
LEMMA PropagatedTyped ==
  ASSUME TypeOK, i \in 1..TraceLength
  PROVE  lines[i] \in Lines /\ Propagated \subseteq Locs
  <1>1. lines[i] \in Lines /\ tainted \subseteq Locs
    BY DEF TypeOK
  <1> QED BY <1>1, PropagationTyped DEF Propagated

LEMMA RecordTyped ==
  ASSUME NEW k \in 1..TraceLength, results \in Seq(Entry), tainted' \subseteq Locs, record(k)
  PROVE  /\ results' \in Seq(Entry)
         /\ results' # <<>>
         /\ Len(results') = Len(results) + 1
         /\ results'[Len(results')] = [index |-> k, taint |-> tainted']
         /\ \A j \in 1..Len(results) : results'[j] = results[j]
  <1>1. [index |-> k, taint |-> tainted'] \in Entry
    BY DEF Entry
  <1> QED BY <1>1 DEF record

LEMMA ReverseTyped ==
  ASSUME NEW s \in Seq(Entry)
  PROVE  /\ Reverse(s) \in Seq(Entry)
         /\ Len(Reverse(s)) = Len(s)
         /\ \A j \in 1..Len(s) : Reverse(s)[j] = s[Len(s) - j + 1]
  BY DEF Reverse

LEMMA StartInv == IInv /\ Start => IInv'
  <1> SUFFICES ASSUME IInv, Start PROVE IInv'
    OBVIOUS
  <1>0. TraceLength \in Nat \ {0} /\ max_scan_distance \in Nat \ {0}
    BY ScanAssumption
  <1>1. /\ lines[start_index] \in Lines /\ tainted \subseteq Locs
        /\ start_index \in 1..TraceLength
    BY DEF IInv, TypeOK
  <1>2. tainted' \subseteq Locs
    BY <1>1, PropagationTyped DEF Start
  <1>3. results' \in Seq(Entry) /\ results' # <<>>
    BY <1>1, <1>2, RecordTyped DEF IInv, TypeOK, Start
  <1>4. i' \in 0..TraceLength + 1
    BY <1>0, <1>1 DEF Start
  <1>5. TypeOK'
    BY <1>2, <1>3, <1>4 DEF Start, IInv, TypeOK, input
  <1>6. Walked'
    BY <1>0, <1>1, <1>3 DEF Start, Walked, input
  <1>7. Running'
    BY DEF Start, IInv, Running
  <1> QED BY <1>5, <1>6, <1>7 DEF IInv

LEMMA ScanInv == IInv /\ Scan => IInv'
  <1> SUFFICES ASSUME IInv, Scan PROVE IInv'
    OBVIOUS
  <1>0. TraceLength \in Nat \ {0} /\ max_scan_distance \in Nat \ {0}
    BY ScanAssumption
  <1>1. i \in 1..TraceLength /\ start_index \in 1..TraceLength /\ tainted' \subseteq Locs
    BY PropagatedTyped DEF Scan, IInv, TypeOK
  <1>2. results' \in Seq(Entry) /\ results' # <<>>
    BY <1>1, RecordTyped DEF IInv, Walked, TypeOK, Scan
  <1>3. i' \in 0..TraceLength + 1
    BY <1>0, <1>1 DEF Scan
  <1>4. /\ since \in 0..max_scan_distance /\ since < max_scan_distance
        /\ stop_reason = "END_OF_TRACE"
    BY DEF Scan, IInv, TypeOK, Running
  <1>5. since' = IF Involved THEN 0 ELSE since + 1
    BY DEF Scan
  <1>6. since' \in 0..max_scan_distance
    BY <1>0, <1>4, <1>5
  <1>7. TypeOK'
    BY <1>1, <1>2, <1>3, <1>4, <1>6 DEF Scan, IInv, TypeOK, input, Reasons
  <1>8. Walked'
    BY <1>0, <1>1, <1>2 DEF Scan, IInv, Walked, input
  <1>9. Running'
    <2> SUFFICES ASSUME pc' = "scan"
                 PROVE  since' < max_scan_distance /\ stop_reason' = "END_OF_TRACE"
      BY DEF Scan, Running
    <2>1. ~GivesUp /\ tainted' # {}
      BY DEF Scan
    <2>2. stop_reason' = stop_reason
      BY <2>1 DEF Scan
    <2>3. since' < max_scan_distance
      BY <1>0, <1>4, <1>5, <2>1 DEF GivesUp
    <2> QED BY <1>4, <2>2, <2>3
  <1> QED BY <1>7, <1>8, <1>9 DEF IInv

LEMMA ReturnInv == IInv /\ Return => IInv'
  <1> SUFFICES ASSUME IInv, Return PROVE IInv'
    OBVIOUS
  <1>1. results' \in Seq(Entry)
    BY ReverseTyped DEF Return, IInv, TypeOK
  <1>2. results # <<>> /\ results \in Seq(Entry)
    BY DEF Return, IInv, Walked, TypeOK
  <1>3. results' # <<>>
    <2>1. Len(results') = Len(results)
      BY <1>2, ReverseTyped DEF Return
    <2> QED BY <1>1, <1>2, <2>1
  <1>4. TypeOK'
    BY <1>1 DEF Return, IInv, TypeOK, input
  <1> QED BY <1>3, <1>4 DEF Return, IInv, Walked, Running, input

LEMMA NextInv == IInv /\ [Next]_vars => IInv'
  <1> SUFFICES ASSUME IInv, [Next]_vars PROVE IInv'
    OBVIOUS
  <1>1. CASE LoopEnd
    BY <1>1 DEF LoopEnd, IInv, Walked, Running, TypeOK, input
  <1>2. CASE UNCHANGED vars
    BY <1>2 DEF vars, input, IInv, Walked, Running, TypeOK
  <1> QED BY <1>1, <1>2, StartInv, ScanInv, ReturnInv DEF Next

LEMMA Invariant == Spec => []IInv
  BY InitInv, NextInv, PTL DEF Spec

(* The scan never leaves its types: in particular the distance since the    *)
(* last report never passes max_scan_distance.                              *)
THEOREM TaintTypeCorrect == Spec => []TypeOK
  <1>1. IInv => TypeOK
    BY DEF IInv
  <1> QED BY <1>1, Invariant, PTL

-----------------------------------------------------------------------------
(* The way through the trace and the lines behind the scan. *)
WayLength == IF mode = "FORWARD" THEN TraceLength - start_index ELSE start_index

LEMMA WayParts ==
  ASSUME TypeOK
  PROVE  /\ Len(Way) = WayLength
         /\ \A k \in 1..WayLength :
              Way[k] = IF mode = "FORWARD" THEN From(lines[start_index + k])
                                           ELSE Into(lines[start_index + 1 - k])
  <1>1. start_index \in 1..TraceLength /\ TraceLength \in Nat /\ mode \in Modes
    BY ScanAssumption DEF TypeOK
  <1>2. CASE mode = "FORWARD"
    <2>1. Way = [k \in 1..TraceLength - start_index |-> From(lines[start_index + k])]
      BY <1>2 DEF Way
    <2>2. TraceLength - start_index \in Nat
      BY <1>1
    <2> QED BY <1>2, <2>1, <2>2 DEF WayLength
  <1>3. CASE mode # "FORWARD"
    <2>1. Way = [k \in 1..start_index |-> Into(lines[start_index + 1 - k])]
      BY <1>3 DEF Way
    <2> QED BY <1>1, <1>3, <2>1 DEF WayLength
  <1> QED BY <1>2, <1>3

LEMMA StutterFlow ==
  ASSUME UNCHANGED <<input, tainted>>, Behind' = Behind
  PROVE  UNCHANGED DF!vars
  <1>1. Way' = Way
    BY DEF Way, input
  <1> QED BY <1>1 DEF DF!vars

(* A line that the scan passes is one more line of the way. *)
LEMMA FollowFlow ==
  ASSUME TypeOK, UNCHANGED input, Behind \in Nat, Behind < WayLength, Behind' = Behind + 1,
         mode = "FORWARD" => tainted' = DF!Image(From(lines[start_index + Behind + 1]), tainted),
         mode = "BACKWARD" => tainted' = DF!Image(Into(lines[start_index - Behind]), tainted)
  PROVE  DF!Follow
  <1>1. Way' = Way
    BY DEF Way, input
  <1>2. start_index \in 1..TraceLength /\ TraceLength \in Nat /\ mode \in Modes
    BY ScanAssumption DEF TypeOK
  <1>3. Behind + 1 \in 1..WayLength
    BY <1>2 DEF WayLength
  <1>4. /\ Len(Way) = WayLength
        /\ Way[Behind + 1] = IF mode = "FORWARD"
                             THEN From(lines[start_index + (Behind + 1)])
                             ELSE Into(lines[start_index + 1 - (Behind + 1)])
    BY <1>3, WayParts
  <1>5. /\ start_index + (Behind + 1) = start_index + Behind + 1
        /\ start_index + 1 - (Behind + 1) = start_index - Behind
    BY <1>2
  <1>6. tainted' = DF!Image(Way[Behind + 1], tainted)
    BY <1>2, <1>4, <1>5 DEF Modes
  <1> QED BY <1>1, <1>4, <1>6 DEF DF!Follow

LEMMA StartFollows == IInv /\ Start => [DF!Follow]_(DF!vars)
  <1> SUFFICES ASSUME IInv, Start PROVE [DF!Follow]_(DF!vars)
    OBVIOUS
  <1>1. /\ start_index \in 1..TraceLength /\ TraceLength \in Nat /\ mode \in Modes
        /\ lines[start_index] \in Lines /\ tainted \subseteq Locs /\ TypeOK
    BY ScanAssumption DEF IInv, TypeOK
  <1>2. Behind = 0
    BY DEF Behind, Start
  <1>3. UNCHANGED input /\ pc' = "scan" /\ mode' = mode /\ start_index' = start_index
    BY DEF Start, input
  <1>4. CASE mode = "FORWARD"
    <2>1. i' = start_index + 1 /\ tainted' = tainted
      BY <1>4 DEF Start
    <2>2. Behind' = 0
      BY <1>1, <1>3, <1>4, <2>1 DEF Behind
    <2> QED BY <1>2, <1>3, <2>1, <2>2, StutterFlow
  <1>5. CASE mode = "BACKWARD"
    <2>1. i' = start_index - 1 /\ tainted' = propagate_backward(lines[start_index], tainted)
      BY <1>5 DEF Start
    <2>2. Behind' = 1
      BY <1>1, <1>3, <1>5, <2>1 DEF Behind
    <2>3. tainted' = DF!Image(Into(lines[start_index - Behind]), tainted)
      BY <1>1, <1>2, <2>1, LineFlow
    <2>4. Behind < WayLength
      BY <1>1, <1>2, <1>5 DEF WayLength
    <2> QED BY <1>1, <1>2, <1>3, <1>5, <2>2, <2>3, <2>4, FollowFlow
  <1> QED BY <1>1, <1>4, <1>5 DEF Modes

LEMMA ScanFollows == IInv /\ Scan => [DF!Follow]_(DF!vars)
  <1> SUFFICES ASSUME IInv, Scan PROVE DF!Follow
    OBVIOUS
  <1>1. /\ start_index \in 1..TraceLength /\ TraceLength \in Nat /\ mode \in Modes
        /\ lines[i] \in Lines /\ tainted \subseteq Locs /\ TypeOK /\ i \in 1..TraceLength
    BY ScanAssumption DEF IInv, TypeOK, Scan
  <1>2. /\ UNCHANGED input /\ mode' = mode /\ start_index' = start_index
        /\ pc = "scan" /\ pc' # "start" /\ tainted' = Propagated
    BY DEF Scan, input
  <1>3. CASE mode = "FORWARD"
    <2>1. i' = i + 1 /\ i >= start_index + 1
      <3>1. i \in start_index + 1..TraceLength + 1
        BY <1>2, <1>3 DEF IInv, Walked
      <3>2. i' = i + 1
        BY <1>3 DEF Scan
      <3> QED BY <1>1, <3>1, <3>2
    <2>2. Behind = i - start_index - 1 /\ Behind' = i' - start_index - 1
      BY <1>2, <1>3 DEF Behind
    <2>3. /\ Behind \in Nat /\ Behind < WayLength /\ Behind' = Behind + 1
          /\ start_index + Behind + 1 = i
      BY <1>1, <1>3, <2>1, <2>2 DEF WayLength
    <2>4. tainted' = DF!Image(From(lines[i]), tainted)
      BY <1>1, <1>2, <1>3, LineFlow DEF Propagated
    <2> QED BY <1>1, <1>2, <1>3, <2>3, <2>4, FollowFlow
  <1>4. CASE mode = "BACKWARD"
    <2>1. i' = i - 1 /\ i <= start_index - 1
      BY <1>1, <1>2, <1>4 DEF Scan, IInv, Walked
    <2>2. Behind = start_index - i /\ Behind' = start_index - (i - 1)
      BY <1>2, <1>4, <2>1 DEF Behind
    <2>3. /\ Behind \in Nat /\ Behind < WayLength /\ Behind' = Behind + 1
          /\ start_index - Behind = i
      BY <1>1, <1>4, <2>1, <2>2 DEF WayLength
    <2>4. tainted' = DF!Image(Into(lines[i]), tainted)
      <3>1. CASE Involved
        BY <1>1, <1>2, <1>4, <3>1, LineFlow DEF Propagated
      <3>2. CASE ~Involved
        <4>1. ~InvolvedBackward(lines[i], tainted)
          BY <1>4, <3>2 DEF Involved
        <4>2. tainted' = tainted
          BY <1>2, <1>4, <3>2 DEF Propagated
        <4> QED BY <1>1, <4>1, <4>2, UninvolvedFlow
      <3> QED BY <3>1, <3>2
    <2> QED BY <1>1, <1>2, <1>4, <2>3, <2>4, FollowFlow
  <1> QED BY <1>1, <1>3, <1>4 DEF Modes

LEMMA NextFollows == IInv /\ [Next]_vars => [DF!Follow]_(DF!vars)
  <1> SUFFICES ASSUME IInv, [Next]_vars PROVE [DF!Follow]_(DF!vars)
    OBVIOUS
  <1>1. CASE LoopEnd \/ Return \/ UNCHANGED vars
    <2>1. /\ UNCHANGED <<input, tainted>> /\ i' = i /\ mode' = mode
          /\ start_index' = start_index /\ (pc' = "start" <=> pc = "start")
      BY <1>1 DEF LoopEnd, Return, vars, input
    <2>2. Behind' = Behind
      BY <2>1 DEF Behind
    <2> QED BY <2>1, <2>2, StutterFlow
  <1> QED BY <1>1, StartFollows, ScanFollows DEF Next

(* In either direction, for every trace, source and scan limit: the engine's *)
(* taint is the image of the source under the data flow of the lines behind  *)
(* it, although a backward scan passes over the lines it takes for           *)
(* uninvolved and a line is propagated by category.                          *)
THEOREM EngineFollowsFlow == Spec => ImplementsDataFlow
  <1>1. Init => DF!Init
    BY DEF Init, DF!Init, Behind
  <1> QED BY <1>1, Invariant, NextFollows, PTL DEF Spec, ImplementsDataFlow, DF!Spec

-----------------------------------------------------------------------------
(* The latest report. *)
LEMMA LatestTyped ==
  ASSUME IInv, pc # "start"
  PROVE  /\ Latest \in Entry
         /\ Latest.index \in 1..TraceLength
  <1>1. results \in Seq(Entry) /\ results # <<>>
    BY DEF IInv, TypeOK, Walked
  <1>2. results[1] \in Entry /\ results[Len(results)] \in Entry
    BY <1>1
  <1> QED BY <1>2 DEF Latest, Entry

LEMMA RecordedLatest ==
  ASSUME NEW k \in 1..TraceLength, results \in Seq(Entry), tainted' \subseteq Locs, record(k),
         pc' # "done"
  PROVE  Latest' = [index |-> k, taint |-> tainted']
  BY RecordTyped DEF Latest

LEMMA ReturnedLatest ==
  ASSUME IInv, Return
  PROVE  Latest' = Latest
  <1>1. results \in Seq(Entry) /\ results # <<>> /\ mode' = mode /\ pc = "out" /\ pc' = "done"
    BY DEF IInv, TypeOK, Walked, Return, input
  <1>2. CASE mode = "BACKWARD"
    <2>1. results' = Reverse(results)
      BY <1>2 DEF Return
    <2>2. Len(results) \in Nat /\ Len(results) >= 1
      BY <1>1
    <2>3. Reverse(results)[1] = results[Len(results)]
      BY <1>1, <2>2, ReverseTyped
    <2> QED BY <1>1, <1>2, <2>1, <2>3 DEF Latest
  <1>3. CASE mode # "BACKWARD"
    <2>1. results' = results
      BY <1>3 DEF Return
    <2> QED BY <1>1, <1>3, <2>1 DEF Latest
  <1> QED BY <1>2, <1>3

(* A forward line that is not involved only clears taint. *)
LEMMA UninvolvedClears ==
  ASSUME NEW l \in Lines, NEW T, T \subseteq Locs, ~InvolvedForward(l, T)
  PROVE  propagate_forward(l, T) \subseteq T
  <1>1. SrcsOf(l) \cap T = {}
    BY DEF InvolvedForward, any_src_tainted
  <1>2. FirstSrc(l) \subseteq RegsOf(l.src)
    BY LineAssumption, LineParts DEF FirstSrc, RegsOf, Normal, LineType, Range
  <1>3. IsPairStore(l) =>
          Normal({l.src[1]}) \subseteq RegsOf(l.src) /\ Normal({l.src[2]}) \subseteq RegsOf(l.src)
    <2> SUFFICES ASSUME IsPairStore(l)
                 PROVE  /\ Normal({l.src[1]}) \subseteq RegsOf(l.src)
                        /\ Normal({l.src[2]}) \subseteq RegsOf(l.src)
      OBVIOUS
    <2>1. l.src \in Seq(Regs) /\ Len(l.src) >= 2
      BY LineAssumption, LineParts DEF IsPairStore, LineType
    <2>2. l.src[1] \in Range(l.src) /\ l.src[2] \in Range(l.src)
      BY <2>1 DEF Range
    <2> QED BY <2>2 DEF RegsOf, Normal
  <1>4. \A y \in Writes(l) : WrittenFrom(l, y) \subseteq SrcsOf(l)
    <2> TAKE y \in Writes(l)
    <2>1. RegsOf(l.src) \subseteq SrcsOf(l) /\ AddrsOf({l.mem_read, l.mem_read2}) \subseteq SrcsOf(l)
      BY DEF SrcsOf
    <2>2. AddrsOf({l.mem_read}) \subseteq SrcsOf(l) /\ AddrsOf({l.mem_read2}) \subseteq SrcsOf(l)
      BY <2>1 DEF AddrsOf
    <2>3. CASE l.category = "LOAD"
      BY <2>2, <2>3 DEF WrittenFrom, IsPairStore
    <2>4. CASE l.category = "STORE" /\ IsPairStore(l)
      BY <1>3, <2>1, <2>4 DEF WrittenFrom, IsPairLoad
    <2>5. CASE l.category = "STORE" /\ ~IsPairStore(l)
      BY <1>2, <2>1, <2>5 DEF WrittenFrom, IsPairLoad
    <2>6. CASE l.category \notin {"LOAD", "STORE"}
      BY <2>6 DEF WrittenFrom, IsPairLoad, IsPairStore
    <2> QED BY <2>3, <2>4, <2>5, <2>6
  <1>5. \A y \in Locs : From(l)[y] \cap T # {} => y \in T
    <2> SUFFICES ASSUME NEW y \in Locs, From(l)[y] \cap T # {} PROVE y \in T
      OBVIOUS
    <2>1. y \notin Writes(l)
      BY <1>1, <1>4 DEF From
    <2>2. From(l)[y] = {y}
      BY <2>1 DEF From
    <2> QED BY <2>2
  <1> QED BY <1>5, LineFlow DEF DF!Image

(* The report is current and the distance to it is what the engine counts. *)
Reported ==
  pc # "start" =>
    /\ since = Distance
    /\ mode = "FORWARD" => tainted \subseteq Latest.taint
    /\ mode = "BACKWARD" => tainted = Latest.taint

LEMMA StartReports == IInv /\ Start => Reported'
  <1> SUFFICES ASSUME IInv, Start PROVE Reported'
    OBVIOUS
  <1>1. /\ start_index \in 1..TraceLength /\ TraceLength \in Nat /\ mode \in Modes
        /\ lines[start_index] \in Lines /\ tainted \subseteq Locs /\ results \in Seq(Entry)
    BY ScanAssumption DEF IInv, TypeOK
  <1>2. since' = 0 /\ mode' = mode /\ start_index' = start_index /\ pc' = "scan"
    BY DEF Start, IInv, Running, input
  <1>3. tainted' \subseteq Locs
    BY <1>1, PropagationTyped DEF Start
  <1>4. Latest' = [index |-> start_index, taint |-> tainted']
    BY <1>1, <1>2, <1>3, RecordedLatest DEF Start
  <1>5. i' = IF mode = "FORWARD" THEN start_index + 1 ELSE start_index - 1
    BY DEF Start
  <1>6. Distance' = 0
    <2>1. Distance' = IF mode = "FORWARD" THEN i' - 1 - start_index ELSE start_index - (i' + 1)
      BY <1>2, <1>4 DEF Distance
    <2> QED BY <1>1, <1>5, <2>1
  <1> QED BY <1>2, <1>4, <1>6 DEF Reported

LEMMA ScanReports == IInv /\ Reported /\ Scan => Reported'
  <1> SUFFICES ASSUME IInv, Reported, Scan PROVE Reported'
    OBVIOUS
  <1>1. /\ i \in 1..TraceLength /\ TraceLength \in Nat /\ mode \in Modes
        /\ lines[i] \in Lines /\ tainted \subseteq Locs /\ tainted' \subseteq Locs
        /\ results \in Seq(Entry) /\ since \in Nat
    BY ScanAssumption, PropagatedTyped DEF IInv, TypeOK, Scan
  <1>2. /\ mode' = mode /\ pc = "scan" /\ pc' \in {"scan", "out"} /\ tainted' = Propagated
        /\ i' = IF mode = "FORWARD" THEN i + 1 ELSE i - 1
    BY DEF Scan, input
  <1>3. CASE Involved
    <2>1. record(i) /\ since' = 0
      BY <1>3 DEF Scan
    <2>2. Latest' = [index |-> i, taint |-> tainted']
      BY <1>1, <1>2, <2>1, RecordedLatest
    <2>3. Distance' = IF mode = "FORWARD" THEN i' - 1 - i ELSE i - (i' + 1)
      BY <1>2, <2>2 DEF Distance
    <2>4. Distance' = 0
      BY <1>1, <1>2, <2>3
    <2> QED BY <1>2, <2>1, <2>2, <2>4 DEF Reported
  <1>4. CASE ~Involved
    <2>1. results' = results /\ since' = since + 1
      BY <1>4 DEF Scan
    <2>2. Latest' = Latest
      BY <1>2, <2>1 DEF Latest
    <2>3. Latest.index \in 1..TraceLength
      BY <1>2, LatestTyped
    <2>4. Distance' = Distance + 1
      <3>1. Distance' = IF mode = "FORWARD" THEN i' - 1 - Latest.index ELSE Latest.index - (i' + 1)
        BY <1>2, <2>2 DEF Distance
      <3>2. Distance = IF mode = "FORWARD" THEN i - 1 - Latest.index ELSE Latest.index - (i + 1)
        BY DEF Distance
      <3>3. CASE mode = "FORWARD"
        BY <1>1, <1>2, <2>3, <3>1, <3>2, <3>3
      <3>4. CASE mode # "FORWARD"
        BY <1>1, <1>2, <2>3, <3>1, <3>2, <3>4
      <3> QED BY <3>3, <3>4
    <2>5. tainted' \subseteq tainted
      <3>1. CASE mode = "FORWARD"
        BY <1>1, <1>2, <1>4, <3>1, UninvolvedClears DEF Propagated, Involved
      <3>2. CASE mode = "BACKWARD"
        BY <1>2, <1>4, <3>2 DEF Propagated
      <3> QED BY <1>1, <3>1, <3>2 DEF Modes
    <2>6. mode = "BACKWARD" => tainted' = tainted
      BY <1>2, <1>4 DEF Propagated
    <2> QED BY <1>2, <2>1, <2>2, <2>4, <2>5, <2>6 DEF Reported
  <1> QED BY <1>3, <1>4

LEMMA NextReports == IInv /\ Reported /\ [Next]_vars => Reported'
  <1> SUFFICES ASSUME IInv, Reported, [Next]_vars PROVE Reported'
    OBVIOUS
  <1>1. CASE LoopEnd
    <2>1. /\ UNCHANGED <<results, mode, i, since, tainted>>
          /\ pc = "scan" /\ pc' = "out"
      BY <1>1 DEF LoopEnd, input
    <2>2. Latest' = Latest
      BY <2>1 DEF Latest
    <2> QED BY <2>1, <2>2 DEF Reported, Distance
  <1>2. CASE Return
    <2>1. UNCHANGED <<mode, i, since, tainted>> /\ pc = "out"
      BY <1>2 DEF Return, input
    <2>2. Latest' = Latest
      BY <1>2, ReturnedLatest
    <2> QED BY <2>1, <2>2 DEF Reported, Distance
  <1>3. CASE UNCHANGED vars
    BY <1>3 DEF vars, input, Reported, Distance, Latest
  <1> QED BY <1>1, <1>2, <1>3, StartReports, ScanReports DEF Next

LEMMA AlwaysReported == Spec => []Reported
  <1>1. Init => Reported
    BY DEF Init, Reported
  <1> QED BY <1>1, Invariant, NextReports, PTL DEF Spec

(* At every moment of every scan the taint printed with the latest report   *)
(* is what the engine still tracks, or includes it: the lines left out of   *)
(* the report hide no taint.                                                *)
THEOREM TaintReportsCurrent == Spec => []ReportsAreCurrent
  <1>1. IInv /\ Reported => ReportsAreCurrent
    BY DEF IInv, TypeOK, Modes, Reported, ReportsAreCurrent
  <1> QED BY <1>1, Invariant, AlwaysReported, PTL

-----------------------------------------------------------------------------
(* The reason for which a scan stops, in terms of the counter. *)
Stopped ==
  pc \in {"out", "done"} =>
    /\ stop_reason = "SCAN_LIMIT_REACHED" => since = max_scan_distance
    /\ stop_reason = "ALL_TAINT_CLEARED" => tainted = {}
    /\ stop_reason = "END_OF_TRACE" => i \notin 1..TraceLength

LEMMA NextStops == IInv /\ Stopped /\ [Next]_vars => Stopped'
  <1> SUFFICES ASSUME IInv, Stopped, [Next]_vars PROVE Stopped'
    OBVIOUS
  <1>1. CASE Start
    BY <1>1 DEF Start, Stopped
  <1>2. CASE Scan
    <2> SUFFICES ASSUME pc' = "out"
                 PROVE  /\ stop_reason' = "SCAN_LIMIT_REACHED" => since' = max_scan_distance
                        /\ stop_reason' = "ALL_TAINT_CLEARED" => tainted' = {}
                        /\ stop_reason' # "END_OF_TRACE"
      BY <1>2 DEF Scan, Stopped
    <2>1. GivesUp \/ tainted' = {}
      BY <1>2 DEF Scan
    <2>2. since \in Nat /\ since < max_scan_distance /\ max_scan_distance \in Nat
          /\ stop_reason = "END_OF_TRACE"
      BY <1>2, ScanAssumption DEF Scan, IInv, TypeOK, Running
    <2>3. CASE GivesUp
      <3>1. stop_reason' = "SCAN_LIMIT_REACHED"
        BY <1>2, <2>3 DEF Scan
      <3>2. ~Involved /\ since + 1 >= max_scan_distance
        BY <2>3 DEF GivesUp
      <3>3. since' = since + 1
        BY <1>2, <3>2 DEF Scan
      <3>4. since' = max_scan_distance
        BY <2>2, <3>2, <3>3
      <3> QED BY <3>1, <3>4
    <2>4. CASE ~GivesUp
      <3>1. tainted' = {}
        BY <2>1, <2>4
      <3>2. stop_reason' = "ALL_TAINT_CLEARED"
        BY <1>2, <2>4, <3>1 DEF Scan
      <3> QED BY <3>1, <3>2
    <2> QED BY <2>3, <2>4
  <1>3. CASE LoopEnd
    <2>1. stop_reason = "END_OF_TRACE" /\ i \notin 1..TraceLength
      BY <1>3 DEF LoopEnd, IInv, Running
    <2> QED BY <1>3, <2>1 DEF LoopEnd, Stopped
  <1>4. CASE Return
    BY <1>4 DEF Return, Stopped
  <1>5. CASE UNCHANGED vars
    BY <1>5 DEF vars, Stopped
  <1> QED BY <1>1, <1>2, <1>3, <1>4, <1>5 DEF Next

(* Whatever the limit and the order of the checks: a scan that reports the  *)
(* limit has looked at exactly max_scan_distance lines since the latest     *)
(* report, one that reports cleared taint has none left, and only one that  *)
(* ran out of lines says so.                                                *)
THEOREM TaintStopReasonTrue == Spec => []StopReasonTrue
  <1>1. Init => Stopped
    BY DEF Init, Stopped
  <1>2. IInv /\ Reported /\ Stopped => StopReasonTrue
    <2> SUFFICES ASSUME IInv, Reported, Stopped, pc \in {"out", "done"}
                 PROVE  CASE stop_reason = "SCAN_LIMIT_REACHED" -> Distance = max_scan_distance
                          [] stop_reason = "ALL_TAINT_CLEARED" -> tainted = {}
                          [] stop_reason = "END_OF_TRACE" -> i \notin 1..TraceLength
      BY DEF StopReasonTrue
    <2>1. since = Distance /\ stop_reason \in Reasons
      BY DEF Reported, IInv, TypeOK
    <2>2. CASE stop_reason = "SCAN_LIMIT_REACHED"
      BY <2>1, <2>2 DEF Stopped
    <2>3. CASE stop_reason = "ALL_TAINT_CLEARED"
      BY <2>3 DEF Stopped
    <2>4. CASE stop_reason = "END_OF_TRACE"
      BY <2>4 DEF Stopped
    <2> QED BY <2>1, <2>2, <2>3, <2>4 DEF Reasons
  <1> QED BY <1>1, <1>2, NextStops, Invariant, AlwaysReported, PTL DEF Spec

-----------------------------------------------------------------------------
(* The lines of a report, in the order they were recorded. *)
Rising(s) == \A j, k \in 1..Len(s) : j < k => s[j].index < s[k].index
Falling(s) == \A j, k \in 1..Len(s) : j < k => s[j].index > s[k].index

Ordered ==
  /\ pc \in {"scan", "out"} =>
       /\ results[1].index = start_index
       /\ mode = "FORWARD" => Rising(results) /\ \A j \in 1..Len(results) : results[j].index < i
       /\ mode = "BACKWARD" => Falling(results) /\ \A j \in 1..Len(results) : results[j].index > i
  /\ pc = "done" => ResultsInOrder

LEMMA EntryIndex ==
  ASSUME NEW s \in Seq(Entry), NEW j \in 1..Len(s)
  PROVE  s[j].index \in Int
  <1>1. s[j] \in Entry
    OBVIOUS
  <1> QED BY <1>1, ScanAssumption DEF Entry

LEMMA StartOrders == IInv /\ Start => Ordered'
  <1> SUFFICES ASSUME IInv, Start PROVE Ordered'
    OBVIOUS
  <1>1. /\ start_index \in 1..TraceLength /\ TraceLength \in Nat
        /\ lines[start_index] \in Lines /\ tainted \subseteq Locs /\ results = <<>>
        /\ mode' = mode /\ start_index' = start_index /\ pc' = "scan"
    BY ScanAssumption DEF IInv, TypeOK, Start, Running, input
  <1>2. results' = <<[index |-> start_index, taint |-> tainted']>>
    BY <1>1 DEF Start, record
  <1>3. Len(results') = 1 /\ results'[1].index = start_index
    BY <1>2
  <1>4. i' = IF mode = "FORWARD" THEN start_index + 1 ELSE start_index - 1
    BY DEF Start
  <1>5. Rising(results') /\ Falling(results')
    BY <1>3 DEF Rising, Falling
  <1>6. mode = "FORWARD" => \A j \in 1..Len(results') : results'[j].index < i'
    BY <1>1, <1>3, <1>4
  <1>7. mode = "BACKWARD" => \A j \in 1..Len(results') : results'[j].index > i'
    BY <1>1, <1>3, <1>4
  <1> QED BY <1>1, <1>3, <1>5, <1>6, <1>7 DEF Ordered

LEMMA ScanOrders == IInv /\ Ordered /\ Scan => Ordered'
  <1> SUFFICES ASSUME IInv, Ordered, Scan PROVE Ordered'
    OBVIOUS
  <1>1. /\ i \in 1..TraceLength /\ TraceLength \in Nat
        /\ tainted' \subseteq Locs /\ results \in Seq(Entry) /\ results # <<>>
        /\ mode' = mode /\ start_index' = start_index /\ pc = "scan" /\ pc' \in {"scan", "out"}
        /\ i' = IF mode = "FORWARD" THEN i + 1 ELSE i - 1
    BY ScanAssumption, PropagatedTyped DEF IInv, TypeOK, Walked, Scan, input
  <1>2. /\ results[1].index = start_index
        /\ mode = "FORWARD" => Rising(results) /\ \A j \in 1..Len(results) : results[j].index < i
        /\ mode = "BACKWARD" => Falling(results) /\ \A j \in 1..Len(results) : results[j].index > i
    BY <1>1 DEF Ordered
  <1>3. \A j \in 1..Len(results) : results[j].index \in Int
    BY <1>1, EntryIndex
  <1>4. Len(results) \in Nat /\ Len(results) >= 1
    BY <1>1
  <1>5. CASE ~Involved
    <2>1. results' = results
      BY <1>5 DEF Scan
    <2>2. mode = "FORWARD" => \A j \in 1..Len(results) : results[j].index < i'
      BY <1>1, <1>2, <1>3
    <2>3. mode = "BACKWARD" => \A j \in 1..Len(results) : results[j].index > i'
      BY <1>1, <1>2, <1>3
    <2> QED BY <1>1, <1>2, <2>1, <2>2, <2>3 DEF Ordered
  <1>6. CASE Involved
    <2>1. record(i)
      BY <1>6 DEF Scan
    <2>2. /\ Len(results') = Len(results) + 1
          /\ results'[Len(results) + 1].index = i
          /\ \A j \in 1..Len(results) : results'[j] = results[j]
      <3>1. /\ Len(results') = Len(results) + 1
            /\ results'[Len(results')] = [index |-> i, taint |-> tainted']
            /\ \A j \in 1..Len(results) : results'[j] = results[j]
        BY <1>1, <2>1, RecordTyped
      <3>2. results'[Len(results) + 1].index = i
        BY <3>1
      <3> QED BY <3>1, <3>2
    <2>3. results'[1].index = start_index
      BY <1>2, <1>4, <2>2
    <2>4. \A j \in 1..Len(results') : j \in 1..Len(results) \/ j = Len(results) + 1
      BY <1>4, <2>2
    <2>5. ASSUME mode = "FORWARD"
          PROVE  Rising(results') /\ \A j \in 1..Len(results') : results'[j].index < i'
      <3>1. i' = i + 1 /\ Rising(results) /\ \A j \in 1..Len(results) : results[j].index < i
        BY <1>1, <1>2, <2>5
      <3>2. \A j \in 1..Len(results') : results'[j].index < i'
        BY <1>1, <1>3, <2>2, <2>4, <3>1
      <3>3. \A j, k \in 1..Len(results') : j < k => results'[j].index < results'[k].index
        <4> SUFFICES ASSUME NEW j \in 1..Len(results'), NEW k \in 1..Len(results'), j < k
                     PROVE  results'[j].index < results'[k].index
          OBVIOUS
        <4>1. j \in 1..Len(results)
          BY <1>4, <2>2
        <4>2. CASE k \in 1..Len(results)
          BY <2>2, <3>1, <4>1, <4>2 DEF Rising
        <4>3. CASE k = Len(results) + 1
          BY <2>2, <3>1, <4>1, <4>3
        <4> QED BY <2>4, <4>2, <4>3
      <3> QED BY <3>2, <3>3 DEF Rising
    <2>6. ASSUME mode = "BACKWARD"
          PROVE  Falling(results') /\ \A j \in 1..Len(results') : results'[j].index > i'
      <3>1. i' = i - 1 /\ Falling(results) /\ \A j \in 1..Len(results) : results[j].index > i
        BY <1>1, <1>2, <2>6
      <3>2. \A j \in 1..Len(results') : results'[j].index > i'
        BY <1>1, <1>3, <2>2, <2>4, <3>1
      <3>3. \A j, k \in 1..Len(results') : j < k => results'[j].index > results'[k].index
        <4> SUFFICES ASSUME NEW j \in 1..Len(results'), NEW k \in 1..Len(results'), j < k
                     PROVE  results'[j].index > results'[k].index
          OBVIOUS
        <4>1. j \in 1..Len(results)
          BY <1>4, <2>2
        <4>2. CASE k \in 1..Len(results)
          BY <2>2, <3>1, <4>1, <4>2 DEF Falling
        <4>3. CASE k = Len(results) + 1
          BY <2>2, <3>1, <4>1, <4>3
        <4> QED BY <2>4, <4>2, <4>3
      <3> QED BY <3>2, <3>3 DEF Falling
    <2> QED BY <1>1, <2>3, <2>5, <2>6 DEF Ordered
  <1> QED BY <1>5, <1>6

(* Reversing what a backward scan found puts it in the order of the trace. *)
LEMMA ReturnOrders == IInv /\ Ordered /\ Return => Ordered'
  <1> SUFFICES ASSUME IInv, Ordered, Return PROVE Ordered'
    OBVIOUS
  <1>1. /\ results \in Seq(Entry) /\ results # <<>> /\ mode \in Modes
        /\ start_index' = start_index /\ pc = "out" /\ pc' = "done"
    BY DEF IInv, TypeOK, Walked, Return, input
  <1>2. /\ results[1].index = start_index
        /\ mode = "FORWARD" => Rising(results)
        /\ mode = "BACKWARD" => Falling(results)
    BY <1>1 DEF Ordered
  <1>3. Len(results) \in Nat /\ Len(results) >= 1
    BY <1>1
  <1>4. Rising(results') /\ \E k \in 1..Len(results') : results'[k].index = start_index
    <2>1. CASE mode = "FORWARD"
      <3>1. results' = results
        BY <2>1 DEF Return
      <3> QED BY <1>2, <1>3, <2>1, <3>1
    <2>2. CASE mode = "BACKWARD"
      <3>1. results' = Reverse(results)
        BY <2>2 DEF Return
      <3>2. /\ Len(results') = Len(results)
            /\ \A j \in 1..Len(results) : results'[j] = results[Len(results) - j + 1]
        BY <1>1, <3>1, ReverseTyped
      <3>3. ASSUME NEW j \in 1..Len(results), NEW k \in 1..Len(results), j < k
            PROVE  results'[j].index < results'[k].index
        <4>1. /\ Len(results) - j + 1 \in 1..Len(results)
              /\ Len(results) - k + 1 \in 1..Len(results)
              /\ Len(results) - k + 1 < Len(results) - j + 1
          BY <1>3, <3>3
        <4>2. results[Len(results) - k + 1].index > results[Len(results) - j + 1].index
          BY <1>2, <2>2, <4>1 DEF Falling
        <4>3. /\ results[Len(results) - k + 1].index \in Int
              /\ results[Len(results) - j + 1].index \in Int
          BY <1>1, <4>1, EntryIndex
        <4> QED BY <3>2, <4>2, <4>3
      <3>4. results'[Len(results)].index = start_index /\ Len(results) \in 1..Len(results')
        <4>1. Len(results) \in 1..Len(results) /\ Len(results) - Len(results) + 1 = 1
          BY <1>3
        <4> QED BY <1>2, <3>2, <4>1
      <3> QED BY <3>2, <3>3, <3>4 DEF Rising
    <2> QED BY <1>1, <2>1, <2>2 DEF Modes
  <1> QED BY <1>1, <1>4 DEF Ordered, ResultsInOrder, Rising

LEMMA NextOrders == IInv /\ Ordered /\ [Next]_vars => Ordered'
  <1> SUFFICES ASSUME IInv, Ordered, [Next]_vars PROVE Ordered'
    OBVIOUS
  <1>1. CASE LoopEnd
    BY <1>1 DEF LoopEnd, Ordered, input
  <1>2. CASE UNCHANGED vars
    BY <1>2 DEF vars, input, Ordered, ResultsInOrder
  <1> QED BY <1>1, <1>2, StartOrders, ScanOrders, ReturnOrders DEF Next

(* For every trace and start line: the finished report names every line at  *)
(* most once and in the order of the trace, in both directions, and the     *)
(* start line is in it.                                                     *)
THEOREM TaintResultsInOrder == Spec => []ResultsInOrder
  <1>1. Init => Ordered
    BY DEF Init, Ordered
  <1>2. Ordered => ResultsInOrder
    BY DEF Ordered, ResultsInOrder
  <1> QED BY <1>1, <1>2, NextOrders, Invariant, PTL DEF Spec
=============================================================================
