------------------------------ MODULE GumTrace ------------------------------
(***************************************************************************)
(* The tracer: the sessions opened by the exported init / run / unrun, the *)
(* callout that runs before every traced instruction, its shared buffer,   *)
(* the trace file's stream, and the background flusher threads.            *)
(*                                                                         *)
(* A record of the log is a token [kind, insn]: the "line" printed before  *)
(* instruction insn executes, the "post" values ("-> x0=...") printed for  *)
(* it at the next callout, and the "call" and "ret" records of the symbol, *)
(* system call or JNI function it called.  Text is abstracted to tokens;   *)
(* sizes are counted in tokens.                                            *)
(***************************************************************************)
EXTENDS Integers, Sequences, FiniteSets, SequencesExt

CONSTANTS
  BUFFER_SIZE,     \* capacity of the buffer
  MARGIN,          \* room the callout leaves before it appends (1024 bytes)
  REG_LIST_SIZE,   \* capacity of REG_LIST.regs
  Insns,           \* the traced instructions: [writes, call]
  Modes,           \* GUM_OPTIONS_MODE values in use
  FlushLimit,      \* callouts between two flushes, per mode (20; 100000)
  REMOTE,          \* trace_thread_id > 0: another thread is traced
  RACY,            \* stream operations of two threads may overlap
  OpenResults,     \* outcomes of opening the trace file
  MaxInsns,        \* bound: instructions executed in all
  MaxSessions      \* bound: calls of init

CalloutTokens == 2   \* a callout appends at most a "post" and a "line"
Controllers == {"ready", "inited", "tracing", "unfollowed", "reset", "close"}
TracedStates == {"app", "post", "ret", "line", "flush"}
FlusherStates == {"none", "check", "open", "flushing", "sleep", "done"}
Sessions == 1..MaxSessions

ASSUME BoundsAssumption == MaxInsns \in Nat /\ MaxSessions \in Nat
ASSUME BufferAssumption ==
  /\ BUFFER_SIZE \in Nat
  /\ MARGIN \in CalloutTokens..BUFFER_SIZE
ASSUME RegListAssumption == REG_LIST_SIZE \in Nat
ASSUME InsnAssumption ==
  Insns \subseteq [writes : 0..REG_LIST_SIZE, call : {"none", "func", "jni"}]
ASSUME ModeAssumption == FlushLimit \in [Modes -> Nat]
ASSUME SwitchAssumption ==
  REMOTE \in BOOLEAN /\ RACY \in BOOLEAN /\ OpenResults \subseteq BOOLEAN

VARIABLES
  session,            \* ghost: number of init calls so far
  mode,               \* options.mode
  cpc,                \* where the controlling thread is in init/run/unrun
  stalker,            \* "off", "on", or "pending": unfollow asked, not done
  tpc,                \* where the traced thread is in callout_callback
  cur,                \* the instruction whose callout is running
  hist,               \* ghost: instructions whose line was printed, with session
  buffer,             \* the first buffer_offset bytes of buffer
  write_reg_list,     \* owners of the registers to print at the next callout
  last_func_context,  \* the call waiting for its return
  trace_flush,        \* callouts since the last forced flush
  open,               \* trace_file.is_open()
  stream,             \* what trace_file holds and has not passed to the file
  disk,               \* the trace file's contents
  fpc                 \* the flusher thread each run() started

traceVars == <<tpc, cur, hist, write_reg_list, last_func_context, trace_flush>>
fileVars == <<open, stream, disk>>
vars == <<session, mode, cpc, stalker, buffer, fpc, traceVars, fileVars>>

Token(k, n) == [kind |-> k, insn |-> n]
Tokens == [kind : {"line", "post", "call", "ret"}, insn : Nat]
NoCall == [call |-> FALSE, is_jni |-> FALSE, owner |-> 0, info |-> <<>>]

TypeOK ==
  /\ session \in 0..MaxSessions
  /\ mode \in Modes
  /\ cpc \in Controllers
  /\ stalker \in {"off", "on", "pending"}
  /\ tpc \in TracedStates
  /\ cur \in Insns
  /\ hist \in Seq([session : 0..MaxSessions, insn : Insns])
  /\ buffer \in Seq(Tokens)
  /\ write_reg_list \in Seq(Nat)
  /\ last_func_context \in
       [call : BOOLEAN, is_jni : BOOLEAN, owner : Nat, info : Seq(Tokens)]
  /\ trace_flush \in Nat
  /\ \E m \in Modes : trace_flush <= FlushLimit[m]
  /\ open \in BOOLEAN
  /\ stream \in Seq(Tokens)
  /\ disk \in Seq(Tokens)
  /\ fpc \in [Sessions -> FlusherStates]

Init ==
  /\ session = 0
  /\ mode \in Modes
  /\ cpc = "ready"
  /\ stalker = "off"
  /\ tpc = "app"
  /\ cur \in Insns
  /\ hist = <<>>
  /\ buffer = <<>>
  /\ write_reg_list = <<>>
  /\ last_func_context = NoCall
  /\ trace_flush = 0
  /\ open = FALSE
  /\ stream = <<>>
  /\ disk = <<>>
  /\ fpc = [f \in Sessions |-> "none"]

-----------------------------------------------------------------------------
(* The trace file.  A write to a closed stream is dropped.  While a flusher *)
(* is inside flush() another thread's write on the same ofstream is a data  *)
(* race: the chunk may arrive, be lost, or be written twice.                *)
Racing == RACY /\ \E f \in Sessions : fpc[f] = "flushing"

Written(s, toks) ==
  IF ~open THEN {s}
  ELSE {s \o toks} \cup (IF Racing THEN {s, s \o toks \o toks} ELSE {})

Write(toks) == stream' \in Written(stream, toks)

(* Mutant: flush what was written before and forget the buffer. *)
FlushOnly(toks) ==
  IF open THEN disk' = disk \o stream /\ stream' = <<>>
          ELSE UNCHANGED <<stream, disk>>

(* trace_file.write(toks); trace_file.flush(); flushing a closed stream does *)
(* nothing.                                                                  *)
WriteAndFlush(toks) ==
  IF open THEN /\ \E s \in Written(stream, toks) : disk' = disk \o s
               /\ stream' = <<>>
          ELSE UNCHANGED <<stream, disk>>

(* External: the stream passes data on when its own buffer fills up. *)
Spill ==
  /\ open
  /\ \E k \in 1..Len(stream) :
       /\ disk' = disk \o SubSeq(stream, 1, k)
       /\ stream' = SubSeq(stream, k + 1, Len(stream))
  /\ UNCHANGED <<session, mode, cpc, stalker, buffer, fpc, traceVars, open>>

-----------------------------------------------------------------------------
(* The exported functions.  With trace_thread_id = 0 they run on the traced *)
(* thread itself, so never inside a callout.                                *)
ControllerMayRun == REMOTE \/ tpc = "app"

(* init: options and the trace file are replaced; buffer, write_reg_list,   *)
(* last_func_context and trace_flush keep what the last session left.       *)
InitCall(m, opens) ==
  /\ cpc = "ready"
  /\ session < MaxSessions
  /\ ControllerMayRun
  /\ session' = session + 1
  /\ mode' = m
  /\ open' = opens
  /\ stream' = <<>>
  /\ disk' = <<>>
  /\ cpc' = "inited"
  /\ UNCHANGED <<stalker, buffer, fpc, traceVars>>

(* run: start a flusher thread, then follow, whether or not the Stalker of  *)
(* an earlier session has let go of the thread.                             *)
RunCall ==
  /\ cpc = "inited"
  /\ ControllerMayRun
  /\ fpc' = [fpc EXCEPT ![session] = "check"]
  /\ stalker' = "on"
  /\ cpc' = "tracing"
  /\ UNCHANGED <<session, mode, buffer, traceVars, fileVars>>

(* unrun: gum_stalker_unfollow_me stops the calling thread at once;         *)
(* gum_stalker_unfollow only asks the other thread to stop.                 *)
UnrunCall ==
  /\ cpc = "tracing"
  /\ ControllerMayRun
  /\ stalker' = IF REMOTE THEN "pending" ELSE "off"
  /\ cpc' = "unfollowed"
  /\ UNCHANGED <<session, mode, buffer, fpc, traceVars, fileVars>>

(* Mutant: the file is closed without the buffer. *)
UnfollowNoWrite ==
  /\ cpc = "unfollowed"
  /\ cpc' = IF open THEN "reset" ELSE "ready"
  /\ UNCHANGED <<session, mode, stalker, buffer, fpc, traceVars, fileVars>>

UnfollowWrite ==
  /\ cpc = "unfollowed"
  /\ IF open THEN Write(buffer) /\ cpc' = "reset"
             ELSE UNCHANGED stream /\ cpc' = "ready"
  /\ UNCHANGED <<session, mode, stalker, buffer, fpc, traceVars, open, disk>>

(* Mutant: buffer_offset keeps its value after the last write. *)
UnfollowNoReset ==
  /\ cpc = "reset"
  /\ cpc' = "close"
  /\ UNCHANGED <<session, mode, stalker, buffer, fpc, traceVars, fileVars>>

UnfollowReset ==
  /\ cpc = "reset"
  /\ buffer' = <<>>
  /\ cpc' = "close"
  /\ UNCHANGED <<session, mode, stalker, fpc, traceVars, fileVars>>

UnfollowClose ==
  /\ cpc = "close"
  /\ disk' = disk \o stream
  /\ stream' = <<>>
  /\ open' = FALSE
  /\ cpc' = "ready"
  /\ UNCHANGED <<session, mode, stalker, buffer, fpc, traceVars>>

(* External: the traced thread reaches a point where Stalker lets go of it. *)
Detach ==
  /\ stalker = "pending"
  /\ tpc = "app"
  /\ stalker' = "off"
  /\ UNCHANGED <<session, mode, cpc, buffer, fpc, traceVars, fileVars>>

-----------------------------------------------------------------------------
(* callout_callback, one step per part of its body. *)

(* Mutant: written out only once there is no room left at all. *)
NoRoom == Len(buffer) >= BUFFER_SIZE

BufferFull == Len(buffer) > BUFFER_SIZE - MARGIN

CalloutEnter(i) ==
  /\ tpc = "app"
  /\ stalker \in {"on", "pending"}
  /\ Len(hist) < MaxInsns
  /\ cur' = i
  /\ IF BufferFull
     THEN Write(buffer) /\ buffer' = <<>>
     ELSE UNCHANGED <<stream, buffer>>
  /\ tpc' = "post"
  /\ UNCHANGED <<session, mode, cpc, stalker, fpc, hist, write_reg_list,
                 last_func_context, trace_flush, open, disk>>

(* The registers the previous instruction wrote, read before this one runs. *)
CalloutPost ==
  /\ tpc = "post"
  /\ buffer' = IF write_reg_list = <<>> THEN buffer
               ELSE Append(buffer, Token("post", Head(write_reg_list)))
  /\ write_reg_list' = <<>>
  /\ tpc' = "ret"
  /\ UNCHANGED <<session, mode, cpc, stalker, fpc, cur, hist,
                 last_func_context, trace_flush, fileVars>>

(* Mutant: the JNI case falls through to after(), with nothing printed yet. *)
AfterInfo ==
  last_func_context.info \o <<Token("ret", last_func_context.owner)>>

(* FuncPrinter::after adds the return value to what before() printed at the *)
(* call; FuncPrinter::jni_after prints the whole record now.                *)
ReturnInfo ==
  LET n == last_func_context.owner IN
  IF last_func_context.is_jni THEN <<Token("call", n), Token("ret", n)>>
  ELSE last_func_context.info \o <<Token("ret", n)>>

(* Mutant: is_jni stays for the next call. *)
CallOnlyDone ==
  [last_func_context EXCEPT !.call = FALSE, !.info = ReturnInfo]

CallDone ==
  [last_func_context EXCEPT !.call = FALSE, !.is_jni = FALSE, !.info = ReturnInfo]

CalloutRet ==
  /\ tpc = "ret"
  /\ IF last_func_context.call
     THEN /\ \E s \in Written(stream, buffer) : stream' \in Written(s, ReturnInfo)
          /\ buffer' = <<>>
          /\ last_func_context' = CallDone
     ELSE UNCHANGED <<stream, buffer, last_func_context>>
  /\ tpc' = "line"
  /\ UNCHANGED <<session, mode, cpc, stalker, fpc, cur, hist, write_reg_list,
                 trace_flush, open, disk>>

(* Registers written by an instruction, a base register that is written     *)
(* back included: their new values are printed at the next callout.         *)
RegsWritten(i, n) == [k \in 1..i.writes |-> n]

(* What FuncPrinter::before prints of a call into info; jni_before nothing. *)
BeforeInfo(n) == <<Token("call", n)>>

(* A system call, or a branch to a known symbol or JNI function, overwrites *)
(* what waits for its return.                                               *)
NoteCall(i, n) ==
  CASE i.call = "none" -> last_func_context
    [] i.call = "func" -> [last_func_context EXCEPT
         !.call = TRUE, !.owner = n, !.info = BeforeInfo(n)]
    [] i.call = "jni" -> [last_func_context EXCEPT
         !.call = TRUE, !.is_jni = TRUE, !.owner = n, !.info = <<>>]

CalloutLine ==
  LET n == Len(hist) + 1 IN
  /\ tpc = "line"
  /\ hist' = Append(hist, [session |-> session, insn |-> cur])
  /\ buffer' = Append(buffer, Token("line", n))
  /\ write_reg_list' = write_reg_list \o RegsWritten(cur, n)
  /\ last_func_context' = NoteCall(cur, n)
  /\ tpc' = "flush"
  /\ UNCHANGED <<session, mode, cpc, stalker, fpc, cur, trace_flush, fileVars>>

(* Mutant: the counter is compared before it is raised. *)
LateFlush == trace_flush > FlushLimit[mode]

FlushDue == trace_flush + 1 > FlushLimit[mode]

CalloutFlush ==
  /\ tpc = "flush"
  /\ IF FlushDue
     THEN /\ WriteAndFlush(buffer)
          /\ buffer' = <<>>
          /\ trace_flush' = 0
     ELSE /\ trace_flush' = trace_flush + 1
          /\ UNCHANGED <<buffer, stream, disk>>
  /\ tpc' = "app"
  /\ UNCHANGED <<session, mode, cpc, stalker, fpc, cur, hist, write_reg_list,
                 last_func_context, open>>

-----------------------------------------------------------------------------
(* thread_function: the flusher that run() number f started. *)
(* Mutant: is_open() is not looked at. *)
FlusherNoCheck(f) ==
  /\ fpc[f] = "check"
  /\ fpc' = [fpc EXCEPT ![f] = "open"]
  /\ UNCHANGED <<session, mode, cpc, stalker, buffer, traceVars, fileVars>>

FlusherCheck(f) ==
  /\ fpc[f] = "check"
  /\ fpc' = [fpc EXCEPT ![f] = IF open THEN "open" ELSE "done"]
  /\ UNCHANGED <<session, mode, cpc, stalker, buffer, traceVars, fileVars>>

(* Where overlapping is modelled, flush() takes two steps. *)
FlusherBegin(f) ==
  /\ RACY
  /\ fpc[f] = "open"
  /\ fpc' = [fpc EXCEPT ![f] = "flushing"]
  /\ UNCHANGED <<session, mode, cpc, stalker, buffer, traceVars, fileVars>>

FlusherFlush(f) ==
  /\ fpc[f] = IF RACY THEN "flushing" ELSE "open"
  /\ disk' = disk \o stream
  /\ stream' = <<>>
  /\ fpc' = [fpc EXCEPT ![f] = "sleep"]
  /\ UNCHANGED <<session, mode, cpc, stalker, buffer, traceVars, open>>

(* Mutant: one flush instead of a loop. *)
FlusherOnce(f) ==
  /\ fpc[f] = "sleep"
  /\ fpc' = [fpc EXCEPT ![f] = "done"]
  /\ UNCHANGED <<session, mode, cpc, stalker, buffer, traceVars, fileVars>>

FlusherWake(f) ==
  /\ fpc[f] = "sleep"
  /\ fpc' = [fpc EXCEPT ![f] = "check"]
  /\ UNCHANGED <<session, mode, cpc, stalker, buffer, traceVars, fileVars>>

-----------------------------------------------------------------------------
ControllerSteps == UnfollowWrite \/ UnfollowReset \/ UnfollowClose
CalloutSteps == CalloutPost \/ CalloutRet \/ CalloutLine \/ CalloutFlush
Flusher(f) ==
  FlusherCheck(f) \/ FlusherBegin(f) \/ FlusherFlush(f) \/ FlusherWake(f)

Next ==
  \/ \E m \in Modes, opens \in OpenResults : InitCall(m, opens)
  \/ RunCall
  \/ UnrunCall
  \/ ControllerSteps
  \/ Detach
  \/ \E i \in Insns : CalloutEnter(i)
  \/ CalloutSteps
  \/ \E f \in Sessions : Flusher(f)
  \/ Spill

(* Threads that are inside the tracer keep being scheduled, flushers return *)
(* from sleep, and Stalker lets go of an unfollowed thread.  Nothing obliges *)
(* the application to execute another instruction or to call run or unrun.  *)
Fairness ==
  /\ WF_vars(ControllerSteps)
  /\ WF_vars(CalloutSteps)
  /\ WF_vars(Detach)
  /\ \A f \in Sessions : WF_vars(Flusher(f))

Spec == Init /\ [][Next]_vars
FairSpec == Spec /\ Fairness
-----------------------------------------------------------------------------
(* What the file holds or is about to: the buffer counts until unfollow has *)
(* handed it to the stream.                                                 *)
Unsaved == stream \o (IF cpc = "reset" THEN <<>> ELSE buffer)
Log == disk \o Unsaved

Own == {n \in 1..Len(hist) : hist[n].session = session}
FirstOwn == Len(hist) - Cardinality(Own) + 1

(* Everything instruction n has made the tracer print so far. *)
Records(n) ==
  LET i == hist[n].insn IN
  <<Token("line", n)>>
  \o (IF i.writes > 0 /\ n \notin ToSet(write_reg_list)
      THEN <<Token("post", n)>> ELSE <<>>)
  \o (IF i.call # "none" /\ ~(last_func_context.call /\ last_func_context.owner = n)
      THEN <<Token("call", n), Token("ret", n)>> ELSE <<>>)

Execution == FlattenSeq([k \in 1..Cardinality(Own) |-> Records(FirstOwn + k - 1)])

(* The records of this session's instructions are in the log exactly once   *)
(* each, in execution order, the register values and the call record of an  *)
(* instruction right behind its line, whichever of the four places that     *)
(* write the buffer out moved them.  In front of them there is only what    *)
(* instructions of earlier sessions left.                                   *)
LogIsExecution ==
  \E k \in 0..Len(Log) :
    /\ \A j \in 1..k : Log[j].insn < FirstOwn
    /\ Log = SubSeq(Log, 1, k) \o Execution

(* With another thread traced the same holds from init up to unrun's write. *)
TracingLogIsExecution ==
  cpc \in {"inited", "tracing", "unfollowed"} => LogIsExecution

(* What a session can inherit from the one before is only what its last     *)
(* instruction still owed (init does not clear it), and it comes first.     *)
StaleOnlyAtHead ==
  \E k \in 0..3 :
    /\ k <= Len(Log)
    /\ \A j \in 1..k : Log[j].insn = FirstOwn - 1 /\ Log[j].kind # "line"
    /\ \A j \in k + 1..Len(Log) : Log[j].insn >= FirstOwn

(* What waits to be printed belongs to the last instruction, and is_jni     *)
(* never outlives the call it describes, even over init and unrun.          *)
PendingIsLast ==
  /\ \A k \in 1..Len(write_reg_list) : write_reg_list[k] = Len(hist)
  /\ last_func_context.call =>
       /\ last_func_context.owner = Len(hist)
       /\ last_func_context.is_jni = (hist[Len(hist)].insn.call = "jni")
  /\ ~last_func_context.call => ~last_func_context.is_jni

(* What each stage of a callout has already made room for, or used up. *)
CalloutStages ==
  /\ tpc = "post" => Len(buffer) <= BUFFER_SIZE - MARGIN
  /\ tpc \in {"ret", "line"} => /\ Len(buffer) <= BUFFER_SIZE - MARGIN + 1
                                /\ write_reg_list = <<>>
  /\ tpc = "line" => ~last_func_context.call

(* Neither the buffer nor REG_LIST.regs is ever written past its end. *)
MemoryBounds ==
  Len(buffer) <= BUFFER_SIZE /\ Len(write_reg_list) <= REG_LIST_SIZE

Lines(toks) == {j \in 1..Len(toks) : toks[j].kind = "line"}

(* Between callouts, the lines a crash would lose are at most as many as    *)
(* the mode's flush limit, whatever count the last session left behind.     *)
BoundedLag ==
  tpc = "app" =>
    Cardinality(Lines(Unsaved)) <= FlushLimit[mode]

(* Once unrun has returned, the line of every instruction of the session is *)
(* in the file.                                                             *)
UnrunSavesLines ==
  cpc = "ready" => \A n \in Own : Token("line", n) \in ToSet(disk)

(* A thread that traces itself is in a callout only between run and unrun,  *)
(* and leaves no session with anything in the buffer or the stream.         *)
LocalSession ==
  /\ tpc # "app" \/ stalker # "off" => cpc = "tracing"
  /\ stalker # "pending"
  /\ open = (cpc # "ready")
  /\ cpc \in {"ready", "inited", "close"} => buffer = <<>>
  /\ cpc = "ready" => stream = <<>>

(* The log behind its buffers is the log the abstract module promises. *)
TL == INSTANCE TraceLog WITH log <- Log, saved <- disk, opened <- open
ImplementsTraceLog == TL!Spec

(* Whatever was handed to the stream reaches the file though no instruction *)
(* is ever traced again: the flusher thread sees to it.                     *)
StreamReachesDisk ==
  \A n \in 1..MaxInsns :
    (Token("line", n) \in ToSet(stream)) ~> (Token("line", n) \in ToSet(disk))

(* Once no trace file is ever opened again, no flusher is left running. *)
FlushersStop ==
  <>[]~open ~> \A f \in Sessions : fpc[f] \in {"none", "done"}
=============================================================================
