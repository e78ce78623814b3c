--------------------------- MODULE TraceIndex_proofs ---------------------------
(***************************************************************************)
(* For every file and every buffer size, the loaded lines are in order and *)
(* in place, and the bisection finds the first line that was asked for, or *)
(* says rightly that there is none.  Where all lines fit the buffer, this  *)
(* line is the one in the file that the user meant.                        *)
(***************************************************************************)
EXTENDS TraceIndex, SequenceTheorems, FiniteSetTheorems, WellFoundedInduction, TLAPS

USE SizeAssumption

(* Every loaded line lies before the position in the file, in bytes and in  *)
(* lines: so the next one is behind all of them.                            *)
PositionInv ==
  /\ Contiguous(file)
  /\ n <= Len(file) => cur_offset = file[n].at + done
  /\ \A k \in DOMAIN lines_ :
       lines_[k].line_number <= line_number /\ lines_[k].file_offset < cur_offset

(* Bisection: what is left of lo is too small, what is right of hi too      *)
(* large.                                                                   *)
SearchInv ==
  pc = "search" =>
    /\ args.addr = None /\ lo <= hi + 1
    /\ \A k \in DOMAIN lines_ :
         /\ k - 1 < lo => lines_[k].line_number < start_line
         /\ k - 1 > hi => lines_[k].line_number > start_line

IInv ==
  /\ TypeOK /\ PositionInv /\ LoadedInPlace /\ SearchInv /\ SearchExact
  /\ pc \in {"loaded", "search"} => lines_ # <<>>
  /\ pc \in {"offset", "load"} => lo = 0 /\ hi = -1 /\ start_index = -1
  /\ pc = "offset" => lines_ = <<>>

LEMMA StartInv == Start(Files, Args) => IInv
  <1> SUFFICES ASSUME Start(Files, Args) PROVE IInv
    OBVIOUS
  <1>1. file \in Seq(FileLine) /\ Contiguous(file)
    <2>1. PICK m \in 0..MaxLines : file \in [1..m -> FileLine]
      BY DEF Start, Files
    <2> QED BY <2>1 DEF Start, Files
  <1>2. /\ lines_ = <<>> /\ lines_ \in Seq(Loaded) /\ Len(lines_) = 0 /\ DOMAIN lines_ = {}
        /\ Len(file) \in Nat
    BY <1>1, EmptySeq DEF Start
  <1>3. n <= Len(file) => file[1] \in FileLine
    BY <1>1, <1>2 DEF Start
  <1>4. TypeOK
    <2>1. args \in Args /\ args.line \in Int
      BY DEF Start, Args
    <2>2. n <= Len(file) => done < file[n].size
      <3>1. n <= Len(file) => file[1].size \in Nat \ {0}
        BY <1>3 DEF FileLine
      <3> QED BY <3>1 DEF Start
    <2>3. n \in 1..Len(file) + 1 /\ lo \in 0..Len(lines_) /\ hi \in -1..Len(lines_) - 1
      BY <1>2 DEF Start
    <2> QED BY <1>1, <1>2, <2>1, <2>2, <2>3 DEF Start, TypeOK
  <1>5. n <= Len(file) => cur_offset = file[n].at + done
    <2> SUFFICES ASSUME n <= Len(file) PROVE cur_offset = file[n].at + done
      OBVIOUS
    <2>1. n = 1 /\ n \in DOMAIN file /\ cur_offset = 0 /\ done = 0
      BY <1>1, <1>2 DEF Start
    <2>2. file[1].at = 0
      BY <1>1, <2>1 DEF Contiguous
    <2> QED BY <2>1, <2>2
  <1> QED
    BY <1>1, <1>2, <1>4, <1>5
    DEF Start, IInv, PositionInv, LoadedInPlace, SearchInv, SearchExact

LEMMA ConvertInv == IInv /\ ConvertOffset => IInv'
  <1> SUFFICES ASSUME IInv, ConvertOffset PROVE IInv'
    OBVIOUS
  <1> USE DEF ConvertOffset, input, position
  <1>1. start_line' \in Int
    <2>1. args.line \in Int
      BY DEF IInv, TypeOK, Args
    <2>2. Cardinality(NewlinesBefore(args.offset)) \in Int
      <3>1. NewlinesBefore(args.offset) \subseteq 1..Len(file) /\ Len(file) \in Nat
        BY DEF NewlinesBefore, IInv, TypeOK
      <3>2. IsFiniteSet(1..Len(file))
        BY <3>1, FS_Interval
      <3>3. IsFiniteSet(NewlinesBefore(args.offset))
        BY <3>1, <3>2, FS_Subset
      <3> QED BY <3>3, FS_CardinalityType
    <2> HIDE DEF input
    <2> QED BY <2>1, <2>2
  <1> QED
    BY <1>1 DEF IInv, TypeOK, PositionInv, LoadedInPlace, SearchInv, SearchExact

(* A piece of the file: the position moves on, what was there may be loaded.*)
LEMMA ReadInv == IInv /\ ReadChunk => IInv'
  <1> SUFFICES ASSUME IInv, ReadChunk PROVE IInv'
    OBVIOUS
  <1> DEFINE rest == file[n].size - done
             size == IF rest <= CHUNK THEN rest ELSE CHUNK
             new == [line_number |-> line_number + 1, file_offset |-> cur_offset,
                     line_len |-> IF rest <= CHUNK THEN size - 1 ELSE size,
                     rel_addr |-> file[n].rel, of |-> n]
             loads == file[n].insn /\ done = 0
  <1>1. /\ pc = "load" /\ n <= Len(file)
        /\ line_number' = line_number + 1 /\ cur_offset' = cur_offset + size
        /\ lines_' = IF loads THEN Append(lines_, new) ELSE lines_
        /\ IF size = rest THEN n' = n + 1 /\ done' = 0 ELSE n' = n /\ done' = done + size
        /\ file' = file /\ args' = args /\ pc' = pc /\ start_line' = start_line
        /\ lo' = lo /\ hi' = hi /\ start_index' = start_index
    BY DEF ReadChunk, Advance, input
  <1>2. /\ file \in Seq(FileLine) /\ n \in DOMAIN file /\ n \in Nat \ {0}
        /\ Len(file) \in Nat /\ line_number \in Nat /\ cur_offset \in Nat /\ done \in Nat
        /\ lines_ \in Seq(Loaded) /\ Len(lines_) \in Nat
        /\ done < file[n].size /\ cur_offset = file[n].at + done
    <2>1. /\ file \in Seq(FileLine) /\ n \in 1..Len(file) + 1 /\ Len(file) \in Nat
          /\ line_number \in Nat /\ cur_offset \in Nat /\ done \in Nat
          /\ lines_ \in Seq(Loaded) /\ Len(lines_) \in Nat
      BY DEF IInv, TypeOK
    <2>2. n \in DOMAIN file /\ n \in Nat \ {0}
      BY <1>1, <2>1
    <2>3. done < file[n].size
      BY <1>1 DEF IInv, TypeOK
    <2>4. cur_offset = file[n].at + done
      BY <1>1 DEF IInv, PositionInv
    <2> QED BY <2>1, <2>2, <2>3, <2>4
  <1>3. file[n].at \in Nat /\ file[n].size \in Nat \ {0} /\ file[n].rel \in RelAddrs
    <2>1. file[n] \in FileLine
      BY <1>2
    <2> QED BY <2>1 DEF FileLine
  <1>4. rest \in Nat \ {0} /\ size \in Nat \ {0} /\ size <= rest
    BY <1>2, <1>3
  <1>5. new \in Loaded
    BY <1>2, <1>3, <1>4 DEF Loaded
  <1>6. /\ loads => new.line_len = IF file[n].size <= CHUNK THEN file[n].size - 1 ELSE CHUNK
        /\ loads => cur_offset = file[n].at
    BY <1>2, <1>3
  <1>7. /\ new.line_number = line_number + 1 /\ new.file_offset = cur_offset
        /\ new.rel_addr = file[n].rel /\ new.of = n
    OBVIOUS
  <1>8. size # rest => done + size < file[n].size
    BY <1>2, <1>3, <1>4
  <1>9. size = rest => cur_offset' = file[n].at + file[n].size
    <2>1. \A a, d, z \in Nat : (a + d) + (z - d) = a + z
      OBVIOUS
    <2>2. cur_offset' = (file[n].at + done) + size
      BY <1>1, <1>2
    <2>3. (file[n].at + done) + (file[n].size - done) = file[n].at + file[n].size
      <3>1. file[n].at \in Nat /\ done \in Nat /\ file[n].size \in Nat
        BY <1>2, <1>3
      <3> HIDE DEF rest, size, new, loads
      <3> QED BY <2>1, <3>1, Zenon
    <2>4. size = rest => (file[n].at + done) + size = (file[n].at + done) + (file[n].size - done)
      OBVIOUS
    <2> HIDE DEF rest, size, new
    <2> QED BY <2>2, <2>3, <2>4
  <1> HIDE DEF rest, size, new
  <1>10. /\ lines_' \in Seq(Loaded) /\ Len(lines_') \in Nat
         /\ \A k \in DOMAIN lines_' :
              \/ k \in DOMAIN lines_ /\ lines_'[k] = lines_[k]
              \/ loads /\ k = Len(lines_) + 1 /\ lines_'[k] = new
         /\ Len(lines_') >= Len(lines_)
    <2>1. CASE loads
      <3>1. lines_' = Append(lines_, new)
        BY <1>1, <2>1
      <3>2. /\ lines_' \in Seq(Loaded) /\ Len(lines_') = Len(lines_) + 1
            /\ lines_'[Len(lines_) + 1] = new
            /\ \A k \in 1..Len(lines_) : lines_'[k] = lines_[k]
        BY <1>2, <1>5, <3>1
      <3> QED BY <1>2, <2>1, <3>2
    <2>2. CASE ~loads
      BY <1>1, <1>2, <2>2
    <2> QED BY <2>1, <2>2
  <1>11. (n' <= Len(file) => cur_offset' = file[n'].at + done' /\ done' < file[n'].size)
         /\ n' \in 1..Len(file) + 1 /\ done' \in Nat
    <2>1. CASE size = rest
      <3>1. n' = n + 1 /\ done' = 0
        BY <1>1, <2>1
      <3>2. ASSUME n + 1 <= Len(file)
            PROVE  file[n + 1].at = file[n].at + file[n].size /\ file[n + 1].size \in Nat \ {0}
        <4>1. n + 1 \in DOMAIN file /\ n + 1 # 1 /\ (n + 1) - 1 = n
          BY <1>2, <3>2
        <4>2. file[n + 1].at = file[(n + 1) - 1].at + file[(n + 1) - 1].size
          BY <4>1 DEF IInv, PositionInv, Contiguous
        <4>3. file[n + 1].at = file[n].at + file[n].size
          BY <4>1, <4>2
        <4>4. file[n + 1] \in FileLine
          BY <1>2, <4>1
        <4>5. file[n + 1].size \in Nat \ {0}
          BY <4>4 DEF FileLine
        <4> QED BY <4>3, <4>5
      <3> QED BY <1>2, <1>3, <1>9, <2>1, <3>1, <3>2
    <2>2. CASE size # rest
      BY <1>1, <1>2, <1>3, <1>4, <1>8, <2>2
    <2> QED BY <2>1, <2>2
  <1>12. \A k \in DOMAIN lines_ :
           /\ lines_[k].line_number \in Nat /\ lines_[k].file_offset \in Nat
           /\ lines_[k].line_number <= line_number /\ lines_[k].file_offset < cur_offset
    <2> SUFFICES ASSUME NEW k \in DOMAIN lines_
                 PROVE  /\ lines_[k].line_number \in Nat /\ lines_[k].file_offset \in Nat
                        /\ lines_[k].line_number <= line_number
                        /\ lines_[k].file_offset < cur_offset
      OBVIOUS
    <2>1. lines_[k] \in Loaded
      BY <1>2
    <2>2. lines_[k].line_number \in Nat /\ lines_[k].file_offset \in Nat
      BY <2>1 DEF Loaded
    <2>3. lines_[k].line_number <= line_number /\ lines_[k].file_offset < cur_offset
      BY DEF IInv, PositionInv
    <2> QED BY <2>2, <2>3
  <1>13. PositionInv'
    <2>1. Contiguous(file)'
      BY <1>1 DEF IInv, PositionInv, Contiguous
    <2>2. ASSUME NEW k \in DOMAIN lines_'
          PROVE  /\ lines_'[k].line_number <= line_number'
                 /\ lines_'[k].file_offset < cur_offset'
      <3>1. CASE k \in DOMAIN lines_ /\ lines_'[k] = lines_[k]
        BY <1>1, <1>2, <1>4, <1>12, <3>1
      <3>2. CASE lines_'[k] = new
        BY <1>1, <1>2, <1>4, <1>7, <3>2
      <3> QED BY <1>10, <3>1, <3>2
    <2> QED BY <1>1, <1>11, <2>1, <2>2 DEF PositionInv
  <1>14. TypeOK'
    <2>1. lo \in 0..Len(lines_') /\ hi \in -1..Len(lines_') - 1
          /\ start_index \in -1..Len(lines_') - 1
      BY <1>1, <1>10 DEF IInv
    <2> QED BY <1>1, <1>2, <1>4, <1>10, <1>11, <2>1 DEF IInv, TypeOK
  <1>15. LoadedInPlace'
    <2>1. ASSUME NEW k \in DOMAIN lines_'
          PROVE  LET l == lines_'[k] IN
                 /\ l.of \in DOMAIN file /\ file[l.of].insn
                 /\ l.file_offset = file[l.of].at /\ l.rel_addr = file[l.of].rel
                 /\ l.line_len = IF file[l.of].size <= CHUNK THEN file[l.of].size - 1 ELSE CHUNK
      BY <1>2, <1>6, <1>7, <1>10 DEF IInv, LoadedInPlace
    <2>2. ASSUME NEW j \in DOMAIN lines_', NEW k \in DOMAIN lines_', j < k
          PROVE  /\ lines_'[j].line_number < lines_'[k].line_number
                 /\ lines_'[j].file_offset < lines_'[k].file_offset
      <3>1. j \in DOMAIN lines_ /\ lines_'[j] = lines_[j]
        BY <1>2, <1>10, <2>2
      <3>2. CASE k \in DOMAIN lines_ /\ lines_'[k] = lines_[k]
        BY <2>2, <3>1, <3>2 DEF IInv, LoadedInPlace
      <3>3. CASE lines_'[k] = new
        BY <1>2, <1>7, <1>12, <3>1, <3>3
      <3> QED BY <1>10, <3>2, <3>3
    <2> QED BY <1>1, <2>1, <2>2 DEF LoadedInPlace
  <1>16. (SearchInv /\ SearchExact)'
    BY <1>1 DEF SearchInv, SearchExact
  <1> QED BY <1>1, <1>13, <1>14, <1>15, <1>16 DEF IInv

LEMMA FindInv == IInv /\ (LoadEnd \/ find_by_rel_addr \/ find_by_line) => IInv'
  <1> SUFFICES ASSUME IInv, LoadEnd \/ find_by_rel_addr \/ find_by_line PROVE IInv'
    OBVIOUS
  <1>1. CASE LoadEnd
    BY <1>1 DEF LoadEnd, input, position, IInv, TypeOK, PositionInv, LoadedInPlace,
                SearchInv, SearchExact
  <1>2. CASE find_by_rel_addr
    <2>1. /\ pc = "loaded" /\ args.addr # None /\ UNCHANGED <<input, start_line, position, lo, hi>>
          /\ \/ \E k \in DOMAIN lines_ : start_index' = k - 1 /\ pc' = "found"
             \/ start_index' = -1 /\ pc' = "error"
      BY <1>2 DEF find_by_rel_addr, AtAddr
    <2>2. Len(lines_) \in Nat /\ DOMAIN lines_ = 1..Len(lines_)
      BY DEF IInv, TypeOK
    <2>3. start_index' \in -1..Len(lines_) - 1 /\ pc' \in {"found", "error"}
      BY <2>1, <2>2
    <2> QED
      BY <2>1, <2>3 DEF input, position, IInv, TypeOK,
                        PositionInv, LoadedInPlace, SearchInv, SearchExact
  <1>3. CASE find_by_line
    <2>1. lines_ \in Seq(Loaded) /\ lines_ # <<>> /\ Len(lines_) \in Nat \ {0}
      BY <1>3 DEF find_by_line, IInv, TypeOK
    <2> QED
      BY <1>3, <2>1 DEF find_by_line, input, position, IInv, TypeOK, PositionInv,
                        LoadedInPlace, SearchInv, SearchExact
  <1> QED BY <1>1, <1>2, <1>3

LEMMA BisectInv == IInv /\ (Bisect \/ BisectEnd) => IInv'
  <1> SUFFICES ASSUME IInv, Bisect \/ BisectEnd PROVE IInv'
    OBVIOUS
  <1>0. /\ pc = "search" /\ args.addr = None /\ lo <= hi + 1
        /\ lines_ \in Seq(Loaded) /\ Len(lines_) \in Nat /\ lines_ # <<>>
        /\ lo \in 0..Len(lines_) /\ hi \in -1..Len(lines_) - 1 /\ start_line \in Int
        /\ \A k \in DOMAIN lines_ :
             /\ lines_[k].line_number \in Nat
             /\ k - 1 < lo => lines_[k].line_number < start_line
             /\ k - 1 > hi => lines_[k].line_number > start_line
    <2>1. pc = "search" /\ args.addr = None /\ lo <= hi + 1 /\ lines_ # <<>>
      BY DEF IInv, SearchInv, Bisect, BisectEnd
    <2>2. /\ lines_ \in Seq(Loaded) /\ Len(lines_) \in Nat
          /\ lo \in 0..Len(lines_) /\ hi \in -1..Len(lines_) - 1 /\ start_line \in Int
      BY DEF IInv, TypeOK
    <2>3. \A k \in DOMAIN lines_ : lines_[k].line_number \in Nat
      <3>1. \A k \in DOMAIN lines_ : lines_[k] \in Loaded
        BY <2>2
      <3> QED BY <3>1 DEF Loaded
    <2>4. \A k \in DOMAIN lines_ :
            /\ k - 1 < lo => lines_[k].line_number < start_line
            /\ k - 1 > hi => lines_[k].line_number > start_line
      BY <2>1 DEF IInv, SearchInv
    <2> QED BY <2>1, <2>2, <2>3, <2>4
  <1>1. \A j, k \in DOMAIN lines_ : j < k => lines_[j].line_number < lines_[k].line_number
    BY DEF IInv, LoadedInPlace
  <1>2. /\ input' = input /\ start_line' = start_line /\ position' = position
    BY DEF Bisect, BisectEnd
  <1>3. (PositionInv /\ LoadedInPlace)'
    BY <1>2 DEF input, position, IInv, PositionInv, LoadedInPlace
  <1>4. CASE Bisect
    <2>1. mid \in lo..hi /\ mid \in Nat /\ mid + 1 \in DOMAIN lines_
      BY <1>0, <1>4 DEF Bisect, mid
    <2>2. CASE Middle < start_line /\ lo' = mid + 1 /\ UNCHANGED <<hi, pc, start_index>>
      <3>1. \A k \in DOMAIN lines_ : k - 1 < mid + 1 => lines_[k].line_number < start_line
        <4> SUFFICES ASSUME NEW k \in DOMAIN lines_, k - 1 < mid + 1
                     PROVE  lines_[k].line_number < start_line
          OBVIOUS
        <4>1. k = mid + 1 \/ k < mid + 1
          BY <1>0, <2>1
        <4>2. lines_[k].line_number <= lines_[mid + 1].line_number
          BY <1>0, <1>1, <2>1, <4>1
        <4> QED BY <1>0, <2>1, <2>2, <4>2 DEF Middle
      <3>2. SearchInv'
        BY <1>0, <1>2, <2>1, <2>2, <3>1 DEF SearchInv, input, position
      <3>3. TypeOK'
        BY <1>0, <1>2, <2>1, <2>2 DEF IInv, TypeOK, input, position
      <3> QED BY <1>0, <1>2, <1>3, <2>2, <3>2, <3>3 DEF IInv, SearchExact, input, position
    <2>3. CASE Middle > start_line /\ hi' = LowerEnd /\ UNCHANGED <<lo, pc, start_index>>
      <3>1. \A k \in DOMAIN lines_ : k - 1 > mid - 1 => lines_[k].line_number > start_line
        <4> SUFFICES ASSUME NEW k \in DOMAIN lines_, k - 1 > mid - 1
                     PROVE  lines_[k].line_number > start_line
          OBVIOUS
        <4>1. k = mid + 1 \/ k > mid + 1
          BY <1>0, <2>1
        <4>2. lines_[k].line_number >= lines_[mid + 1].line_number
          BY <1>0, <1>1, <2>1, <4>1
        <4> QED BY <1>0, <2>1, <2>3, <4>2 DEF Middle
      <3>2. SearchInv'
        BY <1>0, <1>2, <2>1, <2>3, <3>1 DEF SearchInv, LowerEnd, input, position
      <3>3. TypeOK'
        BY <1>0, <1>2, <2>1, <2>3 DEF IInv, TypeOK, LowerEnd, input, position
      <3> QED BY <1>0, <1>2, <1>3, <2>3, <3>2, <3>3 DEF IInv, SearchExact, input, position
    <2>4. CASE /\ Middle = start_line /\ start_index' = mid /\ pc' = "found"
               /\ UNCHANGED <<lo, hi>>
      <3>1. \A k \in 1..mid : lines_[k].line_number < start_line
        BY <1>0, <1>1, <2>1, <2>4 DEF Middle
      <3>2. lines_[mid + 1].line_number >= start_line
        BY <1>0, <2>1, <2>4 DEF Middle
      <3>3. SearchExact'
        BY <1>2, <2>1, <2>4, <3>1, <3>2 DEF SearchExact, input, position
      <3>4. TypeOK'
        BY <1>0, <1>2, <2>1, <2>4 DEF IInv, TypeOK, input, position
      <3> QED BY <1>0, <1>2, <1>3, <2>4, <3>3, <3>4 DEF IInv, SearchInv, input, position
    <2> QED BY <1>4, <2>2, <2>3, <2>4 DEF Bisect
  <1>5. CASE BisectEnd
    <2>1. /\ lo > hi /\ lo' = lo /\ hi' = hi
          /\ start_index' = IF lo < Len(lines_) THEN lo ELSE -1
          /\ pc' = IF lo < Len(lines_) THEN "found" ELSE "error"
      BY <1>5 DEF BisectEnd, NearestFound, Nearest
    <2>2. lo = hi + 1
      BY <1>0, <2>1
    <2>3. /\ lo < Len(lines_) => lines_[lo + 1].line_number > start_line
          /\ \A k \in DOMAIN lines_ : k <= lo => lines_[k].line_number < start_line
      BY <1>0, <2>2
    <2>4. SearchExact'
      <3>1. CASE lo < Len(lines_)
        BY <1>0, <1>2, <2>1, <2>3, <3>1 DEF SearchExact, input, position
      <3>2. CASE ~(lo < Len(lines_))
        BY <1>0, <1>2, <2>1, <2>3, <3>2 DEF SearchExact, input, position
      <3> QED BY <3>1, <3>2
    <2>5. TypeOK'
      BY <1>0, <1>2, <2>1 DEF IInv, TypeOK, input, position
    <2> QED BY <1>0, <1>2, <1>3, <2>1, <2>4, <2>5 DEF IInv, SearchInv, input, position
  <1> QED BY <1>4, <1>5

LEMMA InvInductive == Spec => []IInv
  <1>1. IInv /\ [Next]_vars => IInv'
    <2> SUFFICES ASSUME IInv, [Next]_vars PROVE IInv'
      OBVIOUS
    <2>1. CASE UNCHANGED vars
      BY <2>1 DEF vars, input, position, IInv, TypeOK, PositionInv, LoadedInPlace, SearchInv,
                  SearchExact
    <2> QED BY <2>1, ConvertInv, ReadInv, FindInv, BisectInv DEF Next
  <1> QED BY <1>1, StartInv, PTL DEF Spec

(* No index leaves the loaded lines, whatever the file and the arguments,   *)
(* and the search has come to a line exactly if it says so.                 *)
THEOREM IndexTypeCorrect == Spec => []TypeOK
  <1>1. IInv => TypeOK
    BY DEF IInv
  <1> QED BY <1>1, InvInductive, PTL

(* Lines are loaded in order and in place, whatever lines are read in pieces*)
THEOREM LinesInPlace == Spec => []LoadedInPlace
  <1>1. IInv => LoadedInPlace
    BY DEF IInv
  <1> QED BY <1>1, InvInductive, PTL

(* The bisection by line number is exact. *)
THEOREM SearchIsExact == Spec => []SearchExact
  <1>1. IInv => SearchExact
    BY DEF IInv
  <1> QED BY <1>1, InvInductive, PTL

(* The least of a set of numbers. *)
LEMMA Least ==
  ASSUME NEW K \in SUBSET Nat, K # {}
  PROVE  \E x \in K : \A y \in K : x <= y
  <1>1. PICK x \in K : \A y \in K : ~(<<y, x>> \in OpToRel(<, Nat))
    BY NatLessThanWellFounded, WFMin
  <1>2. ASSUME NEW y \in K PROVE x <= y
    <2>1. x \in Nat /\ y \in Nat
      OBVIOUS
    <2>2. <<y, x>> \in Nat \X Nat /\ <<y, x>>[1] = y /\ <<y, x>>[2] = x
      BY <2>1
    <2>3. y < x => <<y, x>> \in OpToRel(<, Nat)
      BY <2>2, Zenon DEF OpToRel
    <2>4. ~(y < x)
      BY <1>1, <2>3
    <2> QED BY <2>1, <2>4
  <1> QED BY <1>2

(* The newlines before an offset are those of the first lines, up to one:   *)
(* counting them gives the number of the line that holds the offset.        *)
LEMMA CountedIsAsked ==
  ASSUME file \in Seq(FileLine), Contiguous(file), args.line < 0,
         args.offset \in Nat, args.line \in Int
  PROVE  AskedLine = 1 + Cardinality(NewlinesBefore(args.offset))
  <1> DEFINE o == args.offset
             NB == NewlinesBefore(o)
             L == Len(file)
             Holds(m) == /\ m <= L => o < file[m].at + file[m].size
                         /\ m > 1 => o >= file[m - 1].at + file[m - 1].size
  <1>1. L \in Nat /\ DOMAIN file = 1..L
    OBVIOUS
  <1>2. \A m \in 1..L : file[m].at \in Nat /\ file[m].size \in Nat \ {0}
    <2> SUFFICES ASSUME NEW m \in 1..L PROVE file[m].at \in Nat /\ file[m].size \in Nat \ {0}
      OBVIOUS
    <2>1. file[m] \in FileLine
      BY <1>1
    <2> QED BY <2>1 DEF FileLine
  <1>3. \A m \in 1..L : m \in NB <=> o >= file[m].at + file[m].size
    <2> SUFFICES ASSUME NEW m \in 1..L PROVE m \in NB <=> o >= file[m].at + file[m].size
      OBVIOUS
    <2>1. m \in NB <=> file[m].at + file[m].size - 1 < o
      BY <1>1 DEF NewlinesBefore
    <2>2. file[m].at \in Nat /\ file[m].size \in Nat
      BY <1>2
    <2> QED BY <2>1, <2>2
  <1>4. ASSUME NEW m \in 1..L, m + 1 \in 1..L, m + 1 \in NB PROVE m \in NB
    <2>1. \A k \in 1..L : k # 1 => file[k].at = file[k - 1].at + file[k - 1].size
      BY <1>1 DEF Contiguous
    <2>2. (m + 1) - 1 = m /\ m + 1 # 1 /\ m + 1 \in 1..L
      BY <1>4
    <2>3. file[m + 1].at = file[m].at + file[m].size
      BY <2>1, <2>2
    <2>4. o >= file[m + 1].at + file[m + 1].size
      BY <1>3, <1>4
    <2>5. file[m + 1].size \in Nat /\ file[m].at \in Nat /\ file[m].size \in Nat
      BY <1>2, <1>4
    <2> QED BY <1>3, <2>3, <2>4, <2>5
  <1>5. PICK q \in 1..L + 1 : q \notin NB /\ \A m \in 1..L + 1 : m \notin NB => q <= m
    <2> DEFINE K == {m \in 1..L + 1 : m \notin NB}
    <2>1. K \in SUBSET Nat
      OBVIOUS
    <2>2. L + 1 \in K
      BY <1>1 DEF NewlinesBefore
    <2>3. \E x \in K : \A y \in K : x <= y
      <3> HIDE DEF K
      <3> QED BY <2>1, <2>2, Least
    <2> QED BY <2>3
  <1>6. ASSUME NEW m \in 1..L, m \in NB PROVE m < q
    <2> SUFFICES ASSUME m >= q PROVE FALSE
      BY <1>1
    <2> DEFINE B == {x \in 1..L : x >= q /\ x \in NB}
    <2>1. B \in SUBSET Nat /\ m \in B
      BY <1>6
    <2>2. PICK x \in B : \A y \in B : x <= y
      <3> HIDE DEF B
      <3> QED BY <2>1, Least
    <2>3. x # q /\ x > q /\ x \in 1..L /\ x \in NB
      BY <1>5, <2>2
    <2>4. x - 1 \in 1..L /\ x - 1 >= q /\ (x - 1) + 1 = x
      BY <1>1, <2>3
    <2>5. x - 1 \in NB
      BY <1>4, <2>3, <2>4
    <2>6. x - 1 \in B
      BY <2>4, <2>5
    <2> QED BY <2>2, <2>3, <2>6
  <1>7. NB = 1..q - 1
    <2>1. \A m \in 1..q - 1 : m \in NB
      BY <1>1, <1>5
    <2>2. NB \subseteq 1..L
      BY <1>1 DEF NewlinesBefore
    <2>3. \A m \in NB : m \in 1..q - 1
      BY <1>1, <1>6, <2>2
    <2> HIDE DEF NB
    <2> QED BY <2>1, <2>3
  <1>8. Cardinality(NB) = q - 1
    <2>1. q - 1 \in Int /\ 1 \in Int /\ q - 1 >= 0
      BY <1>1
    <2>2. Cardinality(1..q - 1) = IF 1 > q - 1 THEN 0 ELSE (q - 1) - 1 + 1
      BY <2>1, FS_Interval
    <2> HIDE DEF NB
    <2> QED BY <1>7, <2>1, <2>2
  <1>9. Holds(q)
    <2>1. q <= L => o < file[q].at + file[q].size
      <3> SUFFICES ASSUME q <= L PROVE o < file[q].at + file[q].size
        OBVIOUS
      <3>1. q \in 1..L
        BY <1>1
      <3>2. file[q].at \in Nat /\ file[q].size \in Nat
        BY <1>2, <3>1
      <3> QED BY <1>3, <1>5, <3>1, <3>2
    <2>2. q > 1 => o >= file[q - 1].at + file[q - 1].size
      <3> SUFFICES ASSUME q > 1 PROVE o >= file[q - 1].at + file[q - 1].size
        OBVIOUS
      <3>1. q - 1 \in 1..L /\ q - 1 \in NB
        BY <1>1, <1>7
      <3> QED BY <1>3, <3>1
    <2> QED BY <2>1, <2>2
  <1>10. ASSUME NEW m \in 1..L + 1, Holds(m) PROVE m = q
    <2>1. ~(m < q)
      <3> SUFFICES ASSUME m < q PROVE FALSE
        OBVIOUS
      <3>1. m \in 1..L /\ m \in NB
        BY <1>1, <1>7
      <3>2. file[m].at \in Nat /\ file[m].size \in Nat
        BY <1>2, <3>1
      <3> QED BY <1>3, <1>10, <3>1, <3>2
    <2>2. ~(m > q)
      <3> SUFFICES ASSUME m > q PROVE FALSE
        OBVIOUS
      <3>1. m - 1 \in 1..L /\ m > 1 /\ m - 1 >= q
        BY <1>1
      <3>2. m - 1 \in NB
        BY <1>3, <1>10, <3>1
      <3> QED BY <1>1, <1>6, <3>1, <3>2
    <2> QED BY <1>1, <2>1, <2>2
  <1>11. AskedLine = CHOOSE m \in 1..L + 1 : Holds(m)
    BY DEF AskedLine
  <1>12. AskedLine = q
    <2> HIDE DEF Holds
    <2>1. AskedLine \in 1..L + 1 /\ Holds(AskedLine)
      BY <1>9, <1>11, Zenon
    <2> QED BY <1>10, <2>1
  <1>13. Cardinality(NewlinesBefore(args.offset)) = q - 1
    BY <1>8, Zenon
  <1> QED BY <1>1, <1>12, <1>13

Short == \A m \in DOMAIN file : file[m].size <= CHUNK

AllLoaded == n > Len(file) \/ (~Unlimited /\ AskedLine < n)

(* Where every line fits the buffer, line numbers are the file's: the lines *)
(* loaded are exactly the instructions before the position, which stops at  *)
(* the end of the file or behind the line that was asked for.               *)
ShortInv ==
  Short =>
    /\ done = 0 /\ line_number = n - 1
    /\ \A k \in DOMAIN lines_ : lines_[k].line_number = lines_[k].of
    /\ \A m \in DOMAIN file :
         m < n /\ file[m].insn => \E k \in DOMAIN lines_ : lines_[k].of = m
    /\ pc = "offset" => start_line = args.line /\ n = 1
    /\ pc # "offset" /\ (args.line >= 0 \/ args.offset >= 0) => start_line = AskedLine
    /\ pc # "offset" /\ args.line < 0 /\ args.offset < 0 => start_line = args.line
    /\ pc # "offset" /\ ~Unlimited => AskedLine > 0 /\ n - 1 <= AskedLine
    /\ pc \notin {"offset", "load"} => AllLoaded

(* How a search ended. *)
AddrInv ==
  /\ pc = "search" => args.addr = None
  /\ pc \in {"found", "error"} /\ args.addr # None =>
       IF pc = "found"
       THEN /\ start_index >= 0 /\ lines_[start_index + 1].rel_addr = args.addr
            /\ \A k \in 1..start_index : lines_[k].rel_addr # args.addr
       ELSE \A k \in DOMAIN lines_ : lines_[k].rel_addr # args.addr
  /\ pc = "found" => lines_ # <<>>

AskedInv == IInv /\ ShortInv /\ AddrInv

LEMMA ArgTypes ==
  ASSUME TypeOK
  PROVE  /\ args.line \in Int /\ args.offset \in Int /\ args.mode \in Modes
         /\ args.line >= 0 \/ args.offset >= 0 \/ args.addr # None
  <1>1. args \in Args
    BY DEF TypeOK
  <1>2. args \in [mode : Modes, line : Int, offset : Int, addr : RelAddrs \cup {None}]
    BY <1>1, Zenon DEF Args
  <1>3. args.line >= 0 \/ args.offset >= 0 \/ args.addr # None
    BY <1>1 DEF Args
  <1>4. args.line \in Int /\ args.offset \in Int /\ args.mode \in Modes
    BY <1>2
  <1> QED BY <1>3, <1>4

LEMMA StartAsked == Start(Files, Args) => AskedInv
  <1> SUFFICES ASSUME Start(Files, Args) PROVE AskedInv
    OBVIOUS
  <1>1. IInv
    BY StartInv
  <1>2. ShortInv
    <2>1. DOMAIN lines_ = {} /\ DOMAIN file = 1..Len(file) /\ Len(file) \in Nat
      BY <1>1 DEF Start, IInv, TypeOK
    <2> QED BY <2>1 DEF Start, ShortInv
  <1> QED BY <1>1, <1>2 DEF AskedInv, AddrInv, Start

LEMMA ConvertAsked == AskedInv /\ ConvertOffset => ShortInv'
  <1> SUFFICES ASSUME AskedInv, ConvertOffset, Short PROVE ShortInv'
    BY DEF ShortInv, Short, ConvertOffset, input
  <1>1. /\ pc = "offset" /\ pc' = "load" /\ file' = file /\ args' = args
        /\ n' = n /\ done' = done /\ line_number' = line_number /\ lines_' = lines_
        /\ start_line' = IF args.offset >= 0 /\ args.line < 0
                         THEN 1 + Cardinality(NewlinesBefore(args.offset)) ELSE args.line
    BY DEF ConvertOffset, input, position
  <1>2. /\ TypeOK /\ file \in Seq(FileLine) /\ Contiguous(file)
        /\ n = 1 /\ done = 0 /\ line_number = n - 1
        /\ \A k \in DOMAIN lines_ : lines_[k].line_number = lines_[k].of
        /\ \A m \in DOMAIN file :
             m < n /\ file[m].insn => \E k \in DOMAIN lines_ : lines_[k].of = m
    BY <1>1 DEF AskedInv, IInv, TypeOK, PositionInv, ShortInv
  <1>3. args.line \in Int /\ args.offset \in Int
    BY <1>2, ArgTypes
  <1>4. args.line >= 0 => AskedLine = args.line
    BY <1>3 DEF AskedLine
  <1>5. args.line < 0 /\ args.offset >= 0 =>
          /\ AskedLine = 1 + Cardinality(NewlinesBefore(args.offset))
          /\ Cardinality(NewlinesBefore(args.offset)) \in Nat
    <2> SUFFICES ASSUME args.line < 0, args.offset >= 0
                 PROVE  /\ AskedLine = 1 + Cardinality(NewlinesBefore(args.offset))
                        /\ Cardinality(NewlinesBefore(args.offset)) \in Nat
      OBVIOUS
    <2>1. args.offset \in Nat
      BY <1>3
    <2>2. NewlinesBefore(args.offset) \subseteq 1..Len(file) /\ Len(file) \in Nat
      BY <1>2 DEF NewlinesBefore
    <2>3. IsFiniteSet(1..Len(file))
      BY <2>2, FS_Interval
    <2>4. Cardinality(NewlinesBefore(args.offset)) \in Nat
      BY <2>2, <2>3, FS_Subset, FS_CardinalityType
    <2> QED BY <1>2, <1>3, <2>1, <2>4, CountedIsAsked
  <1>6. AskedLine' = AskedLine /\ Unlimited' = Unlimited /\ Short' = Short
    BY <1>1 DEF AskedLine, Unlimited, Short
  <1>7. args.line >= 0 \/ args.offset >= 0 => start_line' = AskedLine
    BY <1>1, <1>3, <1>4, <1>5
  <1>8. args.line < 0 /\ args.offset < 0 => start_line' = args.line
    BY <1>1, <1>3
  <1>9. ~Unlimited => AskedLine > 0 /\ n - 1 <= AskedLine
    BY <1>2, <1>3, <1>4, <1>5 DEF Unlimited
  <1> QED BY <1>1, <1>2, <1>6, <1>7, <1>8, <1>9 DEF ShortInv

(* What limits loading is the line that was asked for. *)
LEMMA Wanted ==
  ASSUME TypeOK, ShortInv, Short, pc = "load"
  PROVE  MoreWanted <=> (Unlimited \/ n <= AskedLine)
  <1>1. args.line \in Int /\ args.offset \in Int /\ args.mode \in Modes /\ n \in Int
    BY ArgTypes DEF TypeOK
  <1>2. /\ line_number = n - 1
        /\ args.line >= 0 \/ args.offset >= 0 => start_line = AskedLine
        /\ args.line < 0 /\ args.offset < 0 => start_line = args.line
        /\ ~Unlimited => AskedLine > 0 /\ n - 1 <= AskedLine
    BY DEF ShortInv
  <1>3. args.line >= 0 => AskedLine = args.line
    BY <1>1 DEF AskedLine
  <1>4. start_line \in Int
    BY DEF TypeOK
  <1>5. CASE Unlimited
    <2>1. args.mode = "FORWARD" \/ start_line <= 0
      BY <1>1, <1>2, <1>3, <1>5 DEF Unlimited
    <2>2. MoreWanted
      BY <1>4, <2>1 DEF MoreWanted
    <2> QED BY <1>5, <2>2
  <1>6. CASE ~Unlimited
    <2>1. args.mode = "BACKWARD" /\ start_line = AskedLine
      BY <1>1, <1>2, <1>6 DEF Unlimited, Modes
    <2>2. start_line > 0
      BY <1>2, <1>6, <2>1
    <2> QED BY <1>1, <1>2, <1>4, <1>6, <2>1, <2>2 DEF MoreWanted
  <1> QED BY <1>5, <1>6

LEMMA ReadAsked == AskedInv /\ ReadChunk => ShortInv'
  <1> SUFFICES ASSUME AskedInv, ReadChunk, Short PROVE ShortInv'
    BY DEF ShortInv, Short, ReadChunk, input
  <1>1. /\ pc = "load" /\ pc' = "load" /\ n <= Len(file) /\ MoreWanted
        /\ file' = file /\ args' = args /\ start_line' = start_line
    BY DEF ReadChunk, input
  <1>2. /\ TypeOK /\ ShortInv /\ file \in Seq(FileLine) /\ lines_ \in Seq(Loaded)
        /\ n \in Nat \ {0} /\ Len(file) \in Nat /\ Len(lines_) \in Nat
        /\ done = 0 /\ line_number = n - 1 /\ n \in DOMAIN file
    <2>1. TypeOK /\ ShortInv
      BY DEF AskedInv, IInv
    <2>2. /\ file \in Seq(FileLine) /\ lines_ \in Seq(Loaded) /\ n \in Nat \ {0}
          /\ Len(file) \in Nat /\ Len(lines_) \in Nat
      BY <2>1 DEF TypeOK
    <2> QED BY <1>1, <2>1, <2>2 DEF ShortInv
  <1>3. file[n].size - done <= CHUNK /\ file[n].size \in Nat \ {0}
    <2>1. file[n] \in FileLine
      BY <1>2
    <2>2. file[n].size \in Nat \ {0}
      BY <2>1 DEF FileLine
    <2>3. file[n].size <= CHUNK
      BY <1>2 DEF Short
    <2> QED BY <1>2, <2>2, <2>3
  <1>4. /\ n' = n + 1 /\ done' = 0 /\ line_number' = n
        /\ IF file[n].insn
           THEN \E t : lines_' = Append(lines_, t) /\ t.line_number = n /\ t.of = n
           ELSE lines_' = lines_
    <2>1. line_number + 1 = n /\ done = 0
      BY <1>2
    <2>2. line_number' = line_number + 1 /\ n' = n + 1 /\ done' = 0
      BY <1>3 DEF ReadChunk
    <2>3. CASE file[n].insn
      <3> DEFINE t == [line_number |-> line_number + 1, file_offset |-> cur_offset,
                       line_len |-> IF file[n].size - done <= CHUNK
                                    THEN (IF file[n].size - done <= CHUNK
                                          THEN file[n].size - done ELSE CHUNK) - 1
                                    ELSE (IF file[n].size - done <= CHUNK
                                          THEN file[n].size - done ELSE CHUNK),
                       rel_addr |-> file[n].rel, of |-> n]
      <3>1. lines_' = Append(lines_, t)
        BY <2>1, <2>3 DEF ReadChunk
      <3>2. t.line_number = n /\ t.of = n
        BY <2>1
      <3> QED BY <2>1, <2>2, <2>3, <3>1, <3>2
    <2>4. CASE ~file[n].insn
      BY <2>1, <2>2, <2>4 DEF ReadChunk
    <2> QED BY <2>3, <2>4
  <1>5. /\ \A k \in DOMAIN lines_ : k \in DOMAIN lines_' /\ lines_'[k] = lines_[k]
        /\ \A k \in DOMAIN lines_' : k \in DOMAIN lines_ \/ lines_'[k].line_number = lines_'[k].of
        /\ file[n].insn => \E k \in DOMAIN lines_' : lines_'[k].of = n
    <2>1. CASE file[n].insn
      <3>1. PICK t : lines_' = Append(lines_, t) /\ t.line_number = n /\ t.of = n
        BY <1>4, <2>1
      <3>2. /\ DOMAIN lines_' = 1..Len(lines_) + 1 /\ DOMAIN lines_ = 1..Len(lines_)
            /\ lines_'[Len(lines_) + 1] = t
            /\ \A k \in 1..Len(lines_) : lines_'[k] = lines_[k]
        BY <1>2, <3>1
      <3> QED BY <1>2, <3>1, <3>2
    <2>2. CASE ~file[n].insn
      BY <1>4, <2>2
    <2> QED BY <2>1, <2>2
  <1>6. \A k \in DOMAIN lines_' : lines_'[k].line_number = lines_'[k].of
    BY <1>2, <1>5 DEF ShortInv
  <1>7. ASSUME NEW m \in DOMAIN file, m < n + 1, file[m].insn
        PROVE  \E k \in DOMAIN lines_' : lines_'[k].of = m
    <2>1. m = n \/ m < n
      BY <1>2, <1>7
    <2>2. CASE m < n
      <3>1. PICK k \in DOMAIN lines_ : lines_[k].of = m
        BY <1>2, <1>7, <2>2 DEF ShortInv
      <3> QED BY <1>5, <3>1
    <2> QED BY <1>5, <1>7, <2>1, <2>2
  <1>8. ~Unlimited => AskedLine > 0 /\ n <= AskedLine
    <2>1. MoreWanted <=> (Unlimited \/ n <= AskedLine)
      BY <1>1, <1>2, Wanted
    <2> QED BY <1>1, <1>2, <2>1 DEF ShortInv
  <1>9. AskedLine' = AskedLine /\ Unlimited' = Unlimited /\ Short' = Short
    BY <1>1 DEF AskedLine, Unlimited, Short
  <1>10. line_number' = n' - 1 /\ n' - 1 = n
    BY <1>2, <1>4
  <1> QED BY <1>1, <1>2, <1>4, <1>6, <1>7, <1>8, <1>9, <1>10 DEF ShortInv

(* Every other step leaves the position and the lines alone. *)
LEMMA RestAsked ==
  AskedInv /\ (LoadEnd \/ find_by_rel_addr \/ find_by_line \/ Bisect \/ BisectEnd) => ShortInv'
  <1> SUFFICES ASSUME AskedInv, LoadEnd \/ find_by_rel_addr \/ find_by_line \/ Bisect \/ BisectEnd
               PROVE  ShortInv'
    OBVIOUS
  <1>1. /\ input' = input /\ start_line' = start_line /\ position' = position
        /\ pc # "offset" /\ pc' \notin {"offset", "load"}
    BY DEF LoadEnd, find_by_rel_addr, find_by_line, Bisect, BisectEnd
  <1>2. TypeOK /\ ShortInv
    BY DEF AskedInv, IInv
  <1>3. /\ AskedLine' = AskedLine /\ Unlimited' = Unlimited /\ Short' = Short
        /\ AllLoaded' = AllLoaded /\ n' = n
    BY <1>1 DEF AskedLine, Unlimited, Short, AllLoaded, input, position
  <1>4. Short => AllLoaded
    <2>1. CASE LoadEnd
      <3> SUFFICES ASSUME Short PROVE AllLoaded
        OBVIOUS
      <3>1. pc = "load" /\ ~(MoreWanted /\ n <= Len(file))
        BY <2>1 DEF LoadEnd
      <3>2. MoreWanted <=> (Unlimited \/ n <= AskedLine)
        BY <1>2, <3>1, Wanted
      <3>3. n \in Nat /\ Len(file) \in Nat
        BY <1>2 DEF TypeOK
      <3>4. ~Unlimited => AskedLine \in Int
        <4>1. ~Unlimited => AskedLine = start_line
          <5>1. args.line \in Int /\ args.offset \in Int
            BY <1>2, ArgTypes
          <5> QED BY <1>2, <3>1, <5>1 DEF ShortInv, Unlimited
        <4> QED BY <1>2, <4>1 DEF TypeOK
      <3> QED BY <3>1, <3>2, <3>3, <3>4 DEF AllLoaded
    <2>2. CASE ~LoadEnd
      <3>1. pc \notin {"offset", "load"}
        BY <2>2 DEF find_by_rel_addr, find_by_line, Bisect, BisectEnd
      <3> QED BY <1>2, <3>1 DEF ShortInv
    <2> QED BY <2>1, <2>2
  <1> QED BY <1>1, <1>2, <1>3, <1>4 DEF ShortInv, input, position

LEMMA AddrStep == AskedInv /\ [Next]_vars => AddrInv'
  <1> SUFFICES ASSUME AskedInv, [Next]_vars PROVE AddrInv'
    OBVIOUS
  <1>0. /\ AddrInv /\ lines_ \in Seq(Loaded) /\ Len(lines_) \in Nat
        /\ DOMAIN lines_ = 1..Len(lines_)
    BY DEF AskedInv, IInv, TypeOK
  <1>1. CASE ConvertOffset \/ ReadChunk
    <2>1. pc' = "load"
      BY <1>1 DEF ConvertOffset, ReadChunk
    <2> QED BY <2>1 DEF AddrInv
  <1>2. CASE LoadEnd
    <2>1. /\ args' = args /\ lines_' = lines_ /\ DOMAIN lines_' = DOMAIN lines_
          /\ pc' = IF lines_ = <<>> THEN "error" ELSE "loaded"
      BY <1>2 DEF LoadEnd, input, position
    <2>2. lines_ = <<>> => DOMAIN lines_ = {}
      BY <1>0
    <2> QED BY <2>1, <2>2 DEF AddrInv
  <1>3. CASE find_by_rel_addr
    <2>1. /\ args' = args /\ lines_' = lines_ /\ pc = "loaded" /\ lines_ # <<>>
          /\ \/ \E k \in AtAddr :
                  (\A j \in AtAddr : k <= j) /\ start_index' = k - 1 /\ pc' = "found"
             \/ AtAddr = {} /\ pc' = "error"
      BY <1>3 DEF find_by_rel_addr, input, position, AskedInv, IInv
    <2>2. ASSUME NEW k \in AtAddr, \A j \in AtAddr : k <= j, start_index' = k - 1, pc' = "found"
          PROVE  AddrInv'
      <3>1. k \in 1..Len(lines_) /\ lines_[k].rel_addr = args.addr
        BY <1>0, <2>2 DEF AtAddr
      <3>2. \A j \in 1..k - 1 : j \in DOMAIN lines_ /\ ~(k <= j)
        BY <1>0, <3>1
      <3>3. \A j \in 1..k - 1 : lines_[j].rel_addr # args.addr
        BY <2>2, <3>2 DEF AtAddr
      <3>4. start_index' >= 0 /\ start_index' + 1 = k
        BY <2>2, <3>1
      <3> QED BY <2>1, <2>2, <3>1, <3>3, <3>4 DEF AddrInv
    <2>3. CASE AtAddr = {} /\ pc' = "error"
      BY <2>1, <2>3 DEF AddrInv, AtAddr
    <2> QED BY <2>1, <2>2, <2>3
  <1>4. CASE find_by_line
    BY <1>4 DEF find_by_line, input, AddrInv
  <1>5. CASE Bisect \/ BisectEnd
    <2>1. /\ pc = "search" /\ args' = args /\ lines_' = lines_ /\ args.addr = None
          /\ lines_ # <<>> /\ pc' \in {"search", "found", "error"}
      BY <1>0, <1>5 DEF Bisect, BisectEnd, input, position, AskedInv, AddrInv, IInv
    <2> QED BY <2>1 DEF AddrInv
  <1>6. CASE UNCHANGED vars
    BY <1>0, <1>6 DEF vars, input, position, AddrInv
  <1> QED BY <1>1, <1>2, <1>3, <1>4, <1>5, <1>6 DEF Next

LEMMA AskedInductive == Spec => []AskedInv
  <1>1. AskedInv /\ [Next]_vars => ShortInv'
    <2>1. AskedInv /\ UNCHANGED vars => ShortInv'
      BY DEF AskedInv, vars, input, position, ShortInv, Short, AllLoaded, AskedLine, Unlimited
    <2> QED BY <2>1, ConvertAsked, ReadAsked, RestAsked DEF Next
  <1>2. AskedInv /\ IInv' /\ [Next]_vars => AskedInv'
    BY <1>1, AddrStep DEF AskedInv
  <1> QED BY <1>2, StartAsked, InvInductive, PTL DEF Spec

(* At the end of a search the loaded lines and the candidates agree. *)
LEMMA AskedAtEnd == AskedInv => StartIsAsked
  <1> SUFFICES ASSUME AskedInv, pc \in {"found", "error"}, Short
               PROVE  IF pc = "found"
                      THEN /\ lines_[start_index + 1].of \in Candidates
                           /\ \A m \in Candidates : lines_[start_index + 1].of <= m
                      ELSE Candidates = {}
    BY DEF StartIsAsked, Short
  <1>1. /\ TypeOK /\ ShortInv /\ AddrInv /\ LoadedInPlace /\ SearchExact
        /\ file \in Seq(FileLine) /\ lines_ \in Seq(Loaded) /\ n \in Nat
        /\ DOMAIN lines_ = 1..Len(lines_) /\ Len(lines_) \in Nat
        /\ DOMAIN file = 1..Len(file) /\ Len(file) \in Nat
        /\ start_index \in -1..Len(lines_) - 1
    BY DEF AskedInv, IInv, TypeOK
  <1>2. AllLoaded /\ line_number = n - 1
    BY <1>1 DEF ShortInv
  <1>3. \A k \in DOMAIN lines_ :
          /\ lines_[k].line_number = lines_[k].of /\ lines_[k].of \in DOMAIN file
          /\ file[lines_[k].of].insn /\ lines_[k].rel_addr = file[lines_[k].of].rel
          /\ lines_[k].of <= n - 1
    <2> SUFFICES ASSUME NEW k \in DOMAIN lines_
                 PROVE  /\ lines_[k].line_number = lines_[k].of /\ lines_[k].of \in DOMAIN file
                        /\ file[lines_[k].of].insn
                        /\ lines_[k].rel_addr = file[lines_[k].of].rel
                        /\ lines_[k].of <= n - 1
      OBVIOUS
    <2>1. lines_[k].line_number = lines_[k].of
      BY <1>1 DEF ShortInv
    <2>2. /\ lines_[k].of \in DOMAIN file /\ file[lines_[k].of].insn
          /\ lines_[k].rel_addr = file[lines_[k].of].rel
      BY <1>1 DEF LoadedInPlace
    <2>3. lines_[k].line_number <= line_number
      BY DEF AskedInv, IInv, PositionInv
    <2> QED BY <1>2, <2>1, <2>2, <2>3
  <1>4. \A j, k \in DOMAIN lines_ : j < k => lines_[j].of < lines_[k].of
    BY <1>1, <1>3 DEF LoadedInPlace
  <1>5. args.addr = None => start_line = AskedLine /\ AskedLine \in Int
    <2>1. args.addr = None => args.line >= 0 \/ args.offset >= 0
      BY <1>1, ArgTypes
    <2>2. args.addr = None => start_line = AskedLine
      BY <1>1, <2>1 DEF ShortInv
    <2> QED BY <1>1, <2>2 DEF TypeOK
  <1>6. ~Unlimited => n - 1 <= AskedLine /\ AskedLine \in Int
    <2>1. args.line \in Int /\ args.offset \in Int
      BY <1>1, ArgTypes
    <2>2. ~Unlimited => n - 1 <= AskedLine /\ start_line = AskedLine
      BY <1>1, <2>1 DEF ShortInv, Unlimited
    <2> QED BY <1>1, <2>2 DEF TypeOK
  <1>7. ASSUME NEW m \in Candidates
        PROVE  /\ \E k \in DOMAIN lines_ : lines_[k].of = m
               /\ IF args.addr # None THEN file[m].rel = args.addr ELSE m >= AskedLine
    <2>1. /\ m \in DOMAIN file /\ file[m].insn
          /\ Unlimited \/ m <= AskedLine
          /\ IF args.addr # None THEN file[m].rel = args.addr ELSE m >= AskedLine
      BY DEF Candidates
    <2>2. m < n
      BY <1>1, <1>2, <1>6, <2>1 DEF AllLoaded
    <2> QED BY <1>1, <2>1, <2>2 DEF ShortInv
  <1>8. ASSUME NEW k \in DOMAIN lines_,
               IF args.addr # None THEN lines_[k].rel_addr = args.addr
                                   ELSE lines_[k].of >= AskedLine
        PROVE  lines_[k].of \in Candidates
    <2>1. Unlimited \/ lines_[k].of <= AskedLine
      BY <1>1, <1>3, <1>6
    <2> QED BY <1>3, <1>8, <2>1 DEF Candidates
  <1>9. CASE pc = "found"
    <2> DEFINE s == start_index + 1
    <2>1. /\ s \in DOMAIN lines_
          /\ IF args.addr # None THEN lines_[s].rel_addr = args.addr
                                 ELSE lines_[s].of >= AskedLine
          /\ \A k \in 1..start_index :
               IF args.addr # None THEN lines_[k].rel_addr # args.addr
                                   ELSE lines_[k].of < AskedLine
      <3>1. CASE args.addr # None
        BY <1>1, <1>9, <3>1 DEF AddrInv
      <3>2. CASE args.addr = None
        <4>1. /\ start_index >= 0 /\ lines_[s].line_number >= start_line
              /\ \A k \in 1..start_index : lines_[k].line_number < start_line
          BY <1>1, <1>9, <3>2 DEF SearchExact, AddrInv
        <4> QED BY <1>1, <1>3, <1>5, <3>2, <4>1
      <3> QED BY <3>1, <3>2
    <2>2. lines_[s].of \in Candidates
      BY <1>8, <2>1
    <2>3. ASSUME NEW m \in Candidates PROVE lines_[s].of <= m
      <3>1. PICK k \in DOMAIN lines_ : lines_[k].of = m
        BY <1>7
      <3>2. k \notin 1..start_index
        <4> SUFFICES ASSUME k \in 1..start_index PROVE FALSE
          OBVIOUS
        <4>1. CASE args.addr # None
          BY <1>3, <1>7, <2>1, <3>1, <4>1
        <4>2. CASE args.addr = None
          BY <1>1, <1>3, <1>5, <1>7, <2>1, <3>1, <4>2
        <4> QED BY <4>1, <4>2
      <3>3. k = s \/ s < k
        BY <1>1, <2>1, <3>2
      <3> QED BY <1>1, <1>3, <1>4, <2>1, <3>1, <3>3
    <2> QED BY <1>9, <2>2, <2>3
  <1>10. CASE pc = "error"
    <2>1. ASSUME NEW m \in Candidates PROVE FALSE
      <3>1. PICK k \in DOMAIN lines_ : lines_[k].of = m
        BY <1>7
      <3>2. lines_ # <<>>
        BY <1>1, <3>1
      <3>3. CASE args.addr # None
        BY <1>1, <1>3, <1>7, <1>10, <3>1, <3>3 DEF AddrInv
      <3>4. CASE args.addr = None
        <4>1. lines_[k].line_number < start_line
          BY <1>1, <1>10, <3>2, <3>4 DEF SearchExact
        <4> QED BY <1>1, <1>3, <1>5, <1>7, <3>1, <3>4, <4>1
      <3> QED BY <3>3, <3>4
    <2> QED BY <1>10, <2>1
  <1> QED BY <1>9, <1>10

(* A scan starts at the line that was asked for, by number, by offset or by *)
(* address, and fails only where there is none, for files of any length     *)
(* whose lines fit the buffer.                                              *)
THEOREM ScanStartsWhereAsked == Spec => []StartIsAsked
  BY AskedInductive, AskedAtEnd, PTL
=============================================================================
