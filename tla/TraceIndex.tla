----------------------------- MODULE TraceIndex -----------------------------
(***************************************************************************)
(* Where a taint scan starts: main of the offline tracker turns a byte     *)
(* offset into a line number, loads the instruction lines of the trace (up *)
(* to the start line for a backward scan) and looks the start line up,     *)
(* bisecting by line number or searching by relative address.              *)
(*                                                                         *)
(* A line of the file is its first byte, its size with the newline, whether*)
(* it is an instruction, and the relative address of one.                  *)
(***************************************************************************)
EXTENDS Integers, Sequences, FiniteSets

CONSTANTS
  CHUNK,       \* bytes that one fgets takes: BUF_SIZE - 1
  MaxLines,    \* bound: lines of the file
  Sizes,       \* sizes of lines
  RelAddrs,
  None

Modes == {"FORWARD", "BACKWARD"}

ASSUME SizeAssumption ==
  CHUNK \in Nat \ {0} /\ MaxLines \in Nat /\ Sizes \subseteq Nat \ {0}

FileLine == [at : Nat, size : Sizes, insn : BOOLEAN, rel : RelAddrs]

(* The lines lie one behind the other. *)
Contiguous(f) ==
  \A n \in DOMAIN f : f[n].at = IF n = 1 THEN 0 ELSE f[n - 1].at + f[n - 1].size

Files == {f \in UNION {[1..n -> FileLine] : n \in 0..MaxLines} : Contiguous(f)}

(* Of -l and -p, -1 is an option that is not given; of -a it is None. *)
Args == {a \in [mode : Modes, line : Int, offset : Int, addr : RelAddrs \cup {None}] :
           a.line >= 0 \/ a.offset >= 0 \/ a.addr # None}

VARIABLES
  file, args,
  pc,            \* "offset", "load", "loaded", "search", "found", "error"
  start_line,
  n, done,       \* the file position: line n, of which done bytes are read
  line_number, cur_offset,
  lines_,        \* the loaded lines; "of" is the line of the file
  lo, hi,
  start_index

input == <<file, args>>
position == <<n, done, line_number, cur_offset, lines_>>
vars == <<input, pc, start_line, position, lo, hi, start_index>>

Loaded == [line_number : Nat, file_offset : Nat, line_len : Nat, rel_addr : RelAddrs, of : Nat]

TypeOK ==
  /\ file \in Seq(FileLine)
  /\ args \in Args
  /\ pc \in {"offset", "load", "loaded", "search", "found", "error"}
  /\ start_line \in Int
  /\ n \in 1..Len(file) + 1 /\ done \in Nat
  /\ n <= Len(file) => done < file[n].size
  /\ line_number \in Nat /\ cur_offset \in Nat
  /\ lines_ \in Seq(Loaded)
  /\ lo \in 0..Len(lines_) /\ hi \in -1..Len(lines_) - 1
  /\ start_index \in -1..Len(lines_) - 1
  /\ pc = "found" <=> start_index >= 0

Start(files, arguments) ==
  /\ file \in files
  /\ args \in arguments
  /\ pc = "offset"
  /\ start_line = args.line
  /\ n = 1 /\ done = 0
  /\ line_number = 0 /\ cur_offset = 0
  /\ lines_ = <<>>
  /\ lo = 0 /\ hi = -1
  /\ start_index = -1

(* Mutant: the newline at the offset itself is counted. *)
NewlinesUpTo(offset) == {m \in DOMAIN file : file[m].at + file[m].size - 1 <= offset}

(* The lines whose newline is before the offset. *)
NewlinesBefore(offset) == {m \in DOMAIN file : file[m].at + file[m].size - 1 < offset}

ConvertOffset ==
  /\ pc = "offset"
  /\ start_line' = IF args.offset >= 0 /\ args.line < 0
                   THEN 1 + Cardinality(NewlinesBefore(args.offset)) ELSE args.line
  /\ pc' = "load"
  /\ UNCHANGED <<input, position, lo, hi, start_index>>

(* A backward scan needs nothing behind its start line. *)
MoreWanted == args.mode = "BACKWARD" /\ start_line > 0 => line_number < start_line

(* Mutant: the offset counts what is left of the line without its newline. *)
StripFirst(size) == IF done + size = file[n].size THEN cur_offset + size - 1 ELSE cur_offset + size

Advance(size) == cur_offset + size

(* One fgets: of a line longer than the buffer the rest is read, and        *)
(* counted, as lines of their own, which are no instructions.               *)
ReadChunk ==
  /\ pc = "load" /\ MoreWanted /\ n <= Len(file)
  /\ LET rest == file[n].size - done
         size == IF rest <= CHUNK THEN rest ELSE CHUNK
     IN  /\ line_number' = line_number + 1
         /\ cur_offset' = Advance(size)
         /\ lines_' = IF file[n].insn /\ done = 0
                      THEN Append(lines_, [line_number |-> line_number + 1,
                                           file_offset |-> cur_offset,
                                           line_len |-> IF rest <= CHUNK THEN size - 1 ELSE size,
                                           rel_addr |-> file[n].rel,
                                           of |-> n])
                      ELSE lines_
         /\ IF size = rest THEN n' = n + 1 /\ done' = 0
                           ELSE n' = n /\ done' = done + size
  /\ UNCHANGED <<input, pc, start_line, lo, hi, start_index>>

LoadEnd ==
  /\ pc = "load" /\ ~(MoreWanted /\ n <= Len(file))
  /\ pc' = IF lines_ = <<>> THEN "error" ELSE "loaded"
  /\ UNCHANGED <<input, start_line, position, lo, hi, start_index>>

AtAddr == {k \in DOMAIN lines_ : lines_[k].rel_addr = args.addr}

find_by_rel_addr ==
  /\ pc = "loaded" /\ args.addr # None
  /\ \/ \E k \in AtAddr :
          (\A j \in AtAddr : k <= j) /\ start_index' = k - 1 /\ pc' = "found"
     \/ AtAddr = {} /\ start_index' = -1 /\ pc' = "error"
  /\ UNCHANGED <<input, start_line, position, lo, hi>>

find_by_line ==
  /\ pc = "loaded" /\ args.addr = None
  /\ lo' = 0 /\ hi' = Len(lines_) - 1
  /\ pc' = "search"
  /\ UNCHANGED <<input, start_line, position, start_index>>

mid == lo + (hi - lo) \div 2
Middle == lines_[mid + 1].line_number

(* Mutant: the middle is looked at again. *)
StillMiddle == mid

LowerEnd == mid - 1

Bisect ==
  /\ pc = "search" /\ lo <= hi
  /\ \/ Middle < start_line /\ lo' = mid + 1 /\ UNCHANGED <<hi, pc, start_index>>
     \/ Middle > start_line /\ hi' = LowerEnd /\ UNCHANGED <<lo, pc, start_index>>
     \/ Middle = start_line /\ start_index' = mid /\ pc' = "found" /\ UNCHANGED <<lo, hi>>
  /\ UNCHANGED <<input, start_line, position>>

(* Mutant: the nearest line is taken from the other end. *)
NearestBefore == hi

Nearest == lo

(* Mutant: whatever the search came to. *)
AnyFound == TRUE

NearestFound == Nearest < Len(lines_)

BisectEnd ==
  /\ pc = "search" /\ lo > hi
  /\ start_index' = IF NearestFound THEN Nearest ELSE -1
  /\ pc' = IF NearestFound THEN "found" ELSE "error"
  /\ UNCHANGED <<input, start_line, position, lo, hi>>

Next ==
  \/ ConvertOffset \/ ReadChunk \/ LoadEnd
  \/ find_by_rel_addr \/ find_by_line \/ Bisect \/ BisectEnd

(* For the proofs: any file, any arguments. *)
Spec == Start(Files, Args) /\ [][Next]_vars

-----------------------------------------------------------------------------
(* The lines are loaded in order, and each says where it is: the text that  *)
(* write_result reads back from the file is the line that was parsed, even  *)
(* behind lines that were read in pieces.                                   *)
LoadedInPlace ==
  /\ \A k \in DOMAIN lines_ :
       LET l == lines_[k] IN
       /\ l.of \in DOMAIN file /\ file[l.of].insn
       /\ l.file_offset = file[l.of].at /\ l.rel_addr = file[l.of].rel
       /\ l.line_len = IF file[l.of].size <= CHUNK THEN file[l.of].size - 1 ELSE CHUNK
  /\ \A j, k \in DOMAIN lines_ :
       j < k => /\ lines_[j].line_number < lines_[k].line_number
                /\ lines_[j].file_offset < lines_[k].file_offset

(* What the search by line number returns: the first loaded line with that  *)
(* number or a higher one, and nothing exactly if there is none.            *)
SearchExact ==
  args.addr = None /\ lines_ # <<>> =>
    /\ pc = "found" =>
         /\ start_index >= 0
         /\ lines_[start_index + 1].line_number >= start_line
         /\ \A k \in 1..start_index : lines_[k].line_number < start_line
    /\ pc = "error" => \A k \in DOMAIN lines_ : lines_[k].line_number < start_line

(* The line of the file that was asked for. *)
AskedLine ==
  IF args.line >= 0 THEN args.line
  ELSE CHOOSE m \in 1..Len(file) + 1 :
         /\ m <= Len(file) => args.offset < file[m].at + file[m].size
         /\ m > 1 => args.offset >= file[m - 1].at + file[m - 1].size

Unlimited == args.mode = "FORWARD" \/ (args.line < 0 /\ args.offset < 0) \/ args.line = 0

(* The instructions among which the first one is to start at. *)
Candidates ==
  {m \in DOMAIN file :
     /\ file[m].insn
     /\ IF args.addr # None THEN file[m].rel = args.addr ELSE m >= AskedLine
     /\ Unlimited \/ m <= AskedLine}

(* Where no line is longer than the buffer, the scan starts at the line that*)
(* was asked for, by number and by offset alike: forward at the first       *)
(* instruction from there, backward at no other line, with -a at the first  *)
(* instruction of that address; and it fails only where there is none.      *)
StartIsAsked ==
  pc \in {"found", "error"} /\ (\A m \in DOMAIN file : file[m].size <= CHUNK) =>
    IF pc = "found"
    THEN /\ lines_[start_index + 1].of \in Candidates
         /\ \A m \in Candidates : lines_[start_index + 1].of <= m
    ELSE Candidates = {}

(* The search ends, found or not. *)
Terminates == <>(pc \in {"found", "error"})
=============================================================================
