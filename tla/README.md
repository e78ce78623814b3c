# A TLA+ model of GumTrace

GumTrace is a shared library that is injected into an Android or iOS process and
logs every ARM64 instruction a thread executes in chosen modules. It is built on
Frida's Stalker, which recompiles the thread's code block by block and lets the
library put a *callout* in front of every instruction. A separate offline
program, the taint tracker, reads such a log and follows a value through it,
forward or backward.

This directory holds TLA+ modules of the parts of the program that keep state,
TLC configurations that check them on small instances, and theorems about them
that TLAPS proves for every value of their constants. `PROJECT.json` maps every
definition to the lines it stands for, and lists the runs, the mutants (small
bugs, written as operators next to the definitions they change, that each
property must catch), the hazards and the findings.

- [Inventory](#inventory)
- [Plan](#plan)
- [The modules and the code](#the-modules-and-the-code)
- [What the runs check](#what-the-runs-check)
- [Fairness](#fairness)
- [What is proved](#what-is-proved)
- [What is only model-checked](#what-is-only-model-checked)
- [Where the code and its documentation disagree](#where-the-code-and-its-documentation-disagree)
- [What is not modelled](#what-is-not-modelled)

## Inventory

Paths are under `src/src/`.

### Tracing core — `main.cpp` (init, run, unrun, thread_function), `GumTrace.cpp` (callout_callback, follow, unfollow)

*State.* The singleton `GumTrace`: a byte buffer with `buffer_offset`, the
`std::ofstream trace_file`, `write_reg_list` (registers that the last instruction
wrote), `last_func_context` (the call that waits for its return), `trace_flush`
(callouts since the last forced flush), `options`, `trace_thread_id`. None of it
is protected by a lock.

*Operations.* `init` replaces options and trace file; `run` starts a flusher
thread and makes Stalker follow the calling thread or another one; `unrun` makes
Stalker let go, writes the buffer and closes the file. Between them a callout
runs before each instruction: it writes the buffer out if it is nearly full,
prints the new values of the registers the *previous* instruction wrote, finishes
a pending call record (which bypasses the buffer), prints the line of its own
instruction, notes which registers it will write and whether it is a call, and
every 20 or 100000 callouts writes and flushes. The flusher thread flushes the
stream every millisecond or every 20 seconds while the file is open.

*What is hard.* Four places write the buffer out, one record goes round it. What
an instruction did is only printed by the next callout, so state of one
instruction waits in a one-element slot across sessions. With
`trace_thread_id > 0` the controlling thread and the traced one share everything;
the flusher shares the stream with both. A crash of the traced process is the
normal way to end.

*Correct if* the log holds the records of the executed instructions once each and
in order; a record is never attributed to another instruction; nothing is written
past `buffer` or `regs`; a crash loses a bounded number of lines; `unrun` leaves
every line on disk; flushers do their work and end.

### Instrumentation — `main.cpp` (module_enumerate, init), `GumTrace.cpp` (transform_callback, in_range_module), `CallbackContext.cpp`

*State.* `GumTrace::modules`, a `std::map` that sessions only add to; the ranges
excluded from the current Stalker; a pool of `CALLBACK_CTX_SIZE` callback
contexts with `curr_index`; and the code that Stalker has compiled, whose
callouts point into that pool.

*Operations.* `init` registers modules and excludes the others; Stalker calls
`transform_callback` for each block when it is first reached and again whenever
it compiles it anew; that puts a callout, with a context from the pool, before
each instruction it does not skip.

*What is hard.* The pool wraps and nobody counts references; when a block is
compiled again is Stalker's business; what is excluded depends on the history of
`init` calls and on which modules were loaded at the last of them.

*Correct if* a callout describes the instruction it stands before, and system
libraries are not traced unless asked for.

### Taint engine — `taint/TaintEngine.cpp`

*State.* The tainted registers (a bitmap over normalised register numbers, with a
counter), the tainted addresses, the recorded results with a snapshot of the
taint each, the distance since the last one, and the reason for stopping.

*Operations.* `set_source`, `run` (the scan from the start line, forward or
backward), `propagate_forward` and `propagate_backward` for each category of
instruction, `record`, `write_result`.

*What is hard.* The two directions are written by hand, category by category, and
must agree; the halves of a pair load or store are updated one after the other on
the same set; a backward scan skips the lines it takes for uninvolved; reports are
found in reverse; limit, empty taint and end of the trace may coincide.

*Correct if* the taint is the image of the source under the data flow of the lines
passed; the reports are complete, current and in order; and the stop reason is
the reason.

### Taint trace parser — `taint/TraceParser.cpp` (parse_line, parse_operands, classify)

Turns the text of a log line into category, destination and source registers, up
to two read and two written addresses and whether flags are set. No state between
lines, but a long list of mnemonics in two places that have to agree, and
addresses of pairs guessed from operand names. Correct if the flow it describes
is the instruction's.

### Taint trace index — `taint/TraceParser.cpp` (load, load_range, find_by_*), `taint/main.cpp`

*State.* The loaded lines with line number, byte offset, length and relative
address; the start line that `-l` gives or `-p` is converted to; the index that is
found for it.

*Operations.* `-p` counts newlines up to an offset; `load_range` reads with `fgets`
into 4096 bytes, counts each piece as a line and adds the lengths up to offsets;
`find_by_line` bisects; `find_by_rel_addr` takes the first match; `write_result`
reads the lines back from the file by offset and length.

*What is hard.* Two ways to count lines; lines longer than the buffer; the window
that a backward scan loads; bisection towards a line that is no instruction.

*Correct if* the scan starts at the line that was asked for, however it was named,
and offsets stay right behind lines read in pieces.

### Call printers and JNI tables — `FuncPrinter.cpp`, `GumTrace.cpp` (callout_callback)

*State.* The one `last_func_context` (pending or not, JNI or not, name, copy of the
registers) and the tables `jni_classes`, `jni_methods`, `jni_methods_classes`.

*Operations.* A callout before a call of a known symbol, system call or JNI function
fills the context; the next callout prints it with the value `x0` holds then, and
for `FindClass` and `GetMethodID` enters that value in a table with the name that
was asked for; a record of a method call looks up receiver and method.

*What is hard.* Calls follow each other through one slot; the next callout may stand
in the callee; the wrapper `syscall()` is printed as another function; the VM
uses handles again, and a class and its subclasses share the ids of inherited methods.

*Correct if* each call has one record, it is about that call, and a name in it is
the name the VM means; where it cannot be, a wrong entry stays confined to its own
handle or id.

### Readable ranges — `main.cpp` (on_range_found, init), `GumTrace.cpp` (find_range_by_address), `FuncPrinter.cpp` (read_string, hexdump)

*State.* `safa_ranges`. *Operations.* Each `init` in STABLE mode appends the process's
writable ranges and sorts by base; `read_string` and `hexdump` search it by bisection before they
read memory. *What is hard.* The list accumulates over sessions, so it holds
duplicates and ranges that are gone, and bisection by base needs ranges that do
not overlap. *Correct if* an address is found exactly if a range holds it, and
what is found may be read.

### Components without state of their own

`Utils.cpp` (hex formatting, register names and values), the printers of
Objective-C objects, the 010 Editor script, the build files and the vendored Frida
Gum headers.

### How they interact

`init` fills the module table and the ranges and opens the file; `run` makes
Stalker follow; Stalker compiles blocks through `transform_callback` (module
table, pool); compiled code calls `callout_callback` (buffer, pending registers,
pending call, stream), which calls the printers (ranges, JNI tables) and, through
the pending call, prints at the next callout; the flusher thread and `unrun` work
on the same stream. The file is the only thing the taint tracker sees: index
→ parser → engine.

## Plan

The modules were written in this order, the most important behaviour first: the
log is written once and in order (`GumTrace`), it is the log of the right
instructions (`Transform`), what is derived from it is derived correctly
(`TaintEngine`), from lines that mean what was executed (`TraceParser`), starting
where the user said (`TraceIndex`); then the content of the call records
(`CallPrinter`) and the test that guards their memory accesses (`SafeRanges`).

| module | uses | abstract specification or reference |
|---|---|---|
| `GumTrace` | — | `TraceLog`, an append-only log (refinement) |
| `Transform` | — | — |
| `ParsedLine` | — | the data flow `From` and `Into` of a line |
| `TaintEngine` | `ParsedLine` | `DataFlow`, taint as an image (refinement) |
| `TraceParser` | `ParsedLine` | `ArchFrom`, the instruction's own data flow |
| `TraceIndex` | — | `Candidates`, the lines that were asked for |
| `CallPrinter` | — | the calls made and the objects of the VM (ghosts) |
| `SafeRanges` | — | membership in a set of ranges |

`X_proofs` holds the theorems about `X`, `MCX` the values of its constants for TLC.
`TraceParser` and `TaintEngine` are composed through `ParsedLine!WellFormed`: the
parser is proved to make only such lines, the engine assumes no more.

`ParsedLine_proofs` holds what the theorems about parser and engine share, and is
extended by both.

Still worth doing: a byte-wise data flow, against which the gaps that
`TraceParser!Gap` now lists as a whole could be measured one by one.

## The modules and the code

### GumTrace, TraceLog

A record of the log is a token `[kind, insn]`: the `"line"` of an instruction,
its `"post"` register values, and the `"call"` and `"ret"` records of what it
called. Sizes are counted in tokens; the text is not modelled. An instruction is
what it makes the tracer do: how many registers it writes and whether it is a
call of a known symbol or system call (`"func"`), a JNI call, or neither.

| variable | code |
|---|---|
| `buffer` | the first `buffer_offset` bytes of `GumTrace::buffer` |
| `stream`, `disk`, `open` | what `trace_file` holds, what the file holds, `is_open()` |
| `write_reg_list` | `REG_LIST`; each register as the instruction that wrote it |
| `last_func_context` | the same; `info` as tokens, `owner` ghost |
| `trace_flush`, `mode` | the same |
| `cpc` | how far the controlling thread is in init / run / unrun |
| `tpc`, `cur` | how far the traced thread is in `callout_callback`, and for which instruction |
| `stalker` | external: following, asked to stop, or off |
| `fpc[f]` | the flusher thread that the `f`-th `run` started |
| `session`, `hist` | ghosts: calls of `init`, executed instructions |

The callout is five steps (`CalloutEnter`, `CalloutPost`, `CalloutRet`,
`CalloutLine`, `CalloutFlush`) so that another thread may come in between; `unrun`
is four (`UnrunCall`, `UnfollowWrite`, `UnfollowReset`, `UnfollowClose`). With
`REMOTE = FALSE` a thread traces itself and its calls of init, run and unrun are
never inside a callout. With `RACY = TRUE` the flusher's `flush()` takes two
steps, and a write by another thread in between arrives, is lost or is doubled:
two unsynchronised operations on one `ofstream` have no defined outcome, and these
are the ones a pair of pointers into a stream buffer produces.

`TraceLog` is the abstract specification: a log that only grows while its file is
open, a saved part that is always a prefix of it, and a closed file that holds
all of it. `GumTrace!ImplementsTraceLog` maps `disk \o stream \o buffer` to the log.

### Transform

`code[a]` is the slot of the pool that the callout before address `a` points to,
`Plain` if Stalker compiled `a` without a callout, `None` if it has not compiled
it. `InitModules` is what `init` and `module_enumerate` do to the module table and
the exclusions; `Instrument` is one iteration of `transform_callback`; `pull` and
`in_range_module` are the functions of those names. `Load` is external: the process
loads a module at any time, and `init` sees what is loaded when it runs (`loaded`;
`enumerated` remembers it). A module that is loaded stays. Stalker may compile any
address of anonymous memory or of a loaded module that is not excluded, at any time,
again too; it never compiles an excluded one. `Exclusive` is the set of
addresses for which `gum_stalker_iterator_get_memory_access` reports an exclusive
window.

### TaintEngine, ParsedLine, DataFlow

The bitmap, its counter and `tainted_mem_` are one set of locations;
`taint_reg`'s normalisation and its exemption of the zero register are
`Normal`. A line is what the parser makes of it; `WellFormed` says which
combinations of category, operands and addresses `parse_line` and
`parse_operands` can produce. `propagate_forward` and `propagate_backward` are
operators with one alternative per `case` of the code; `Start`, `Scan`, `LoopEnd`
and `Return` are the scan of `run`.

`DataFlow` is the abstract specification: step by step, a location is tainted
exactly if one of the locations its value comes from was. `From(l)` says where
the value of each location comes from on line `l`, `Into(l)` is the same relation
read backward, and both directions of the engine implement `DataFlow` for it.

### TraceParser

One instruction goes through the tracer's printing (`PrintLine`: which of `mem_r=`
and `mem_w=` stands in the line) and through `parse_line` in its order: `Classify`,
`ParseOperand` once per operand, `Addresses`, `Pair`. Text is abstracted: a register's
text is its letter and number, an operand its kind and the registers named in it in
their order; what `parse_operands` finds in brackets (base once, index
twice) is `AddBracket`. The category sets are the lists of `classify_mnemonic`.
`Insn` is what the disassembler reports, and beside it, for reference, which
operands the instruction writes and reads, and the size of a memory element;
`MCTraceParser` gives these for every mnemonic. `InsnAssumption` says how
access and mnemonic go together in the disassembler, `FlowAssumption` which operands
the mnemonics outside the gaps (`Followed`) write and read. It names the mnemonics by
the parser's lists (`Load`, `Store`, `Compare`, `Branch`, `ImmLoad`), so it also says that
every entry of these lists is such an instruction; that is what there is to compare with
the architecture manual. Flag setters and what each list's members write and
read are given independently of the code.

### TraceIndex

A file is a sequence of lines, each with its first byte, size, and what the parser
finds in it. `ConvertOffset` is `-p`; `ReadChunk` is one iteration of
`load_range`, one `fgets`: `n` and `done` are the position in the file,
`line_number` and `cur_offset` the code's counters; `LoadEnd` covers `-b`'s
window; `find_by_line`, `Bisect` and `BisectEnd` are the search, step by step, so
that it can be shown to end.

### CallPrinter

`where` says whether the traced thread is in traced code or in a function that it
has just called. Each of `FuncCall`, `SvcCall`, `JniCall` and `Plain` is a whole
callout: it prints the pending record (`PrintPending`) and then notes its own call,
if it is one (`NoteCall`). What runs between two callouts is external:
`NativeReturns`, `JniReturns`, `EnterTraced` (the callee is traced itself) and
`Unseen` (instructions that get no callout, the end of a session). `refs` is what
the VM's handles refer to. A class has methods (`MethodsOf`), its own and inherited ones,
so that a class and a subclass share ids, and overloaded methods share a name
(`NameOf`); a method may be called through any id its receiver's class has, in whichever
class it was looked up.

`made`, `calls`, `records`, `entry`, `unheard` and `mistaken` are ghosts. `made` is the last
call and what came of it. `entry[h]` is what `jni_classes` holds for a handle: nothing, the
name of the reference that is there (`"own"`), the name of one that was there before
(`"former"`), or a name that was entered by a record which did not see the return of
`FindClass` (`"unheard"`). `unheard` and `mistaken` are the ids whose name, or whose class, was
last entered by a record that missed the return or, for the class, took it from a
handle with a name not its own. With them the properties judge entry by entry: no
bad entry suspends what is said of the others.
A table is a function on all words with `None` where the map has no entry.

### SafeRanges

`mapped` is the process's memory, which `Remap` changes at any time; `EnumerateRanges` is
the enumeration and sort of one init, with any order among equal bases as `std::sort`
allows; `Find`, `Bisect`, `FindEnd` are `find_range_by_address`, with the code's
0-based indices, so that `safa_ranges[mid]` is `safa_ranges[mid + 1]`. `Read` is one byte of
what `read_string` or `hexdump` reads when a range was found. They do not ask where the range
ends, and memory may be remapped between two bytes; `count` is how many there are, up to
the null byte or the reader's own limit.

## What the runs check

| run | instance | what it shows |
|---|---|---|
| `GumTrace_local` | a thread traces itself; 4 instructions of 4 kinds, 2 sessions, buffer of 4 tokens, flush limits 1 and 3 | `LogIsExecution`, `StaleOnlyAtHead`, `PendingIsLast`, `MemoryBounds`, `BoundedLag`, `UnrunSavesLines`, and the refinement of `TraceLog` |
| `GumTrace_remote` | another thread is traced; 3 instructions of 2 kinds, 2 sessions | `TracingLogIsExecution`, `MemoryBounds` under every interleaving |
| `GumTrace_live` | overlapping stream operations, opening may fail, 2 sessions | `StreamReachesDisk`, `FlushersStop` |
| `Transform_pool` | pool of 3 contexts, 5 addresses, 7 contexts handed out, 2 sessions, modules loaded at any time, Android | `RecentContextsIntact`, `SystemExcluded` |
| `TaintEngine_scan` | all traces of 3 lines over 15 kinds of lines, every start line, source and direction | the refinement of `DataFlow`, `ReportsAreCurrent`, `StopReasonTrue`, `ResultsInOrder` |
| `TraceParser_lines` | every known mnemonic and some unknown ones, in each operand form, with registers of each letter | `ParsedWellFormed` for every line; `FlowExact`, the parsed line against the instruction |
| `TraceIndex_start` | all files of up to 4 lines of 1, 4 or 5 bytes with a buffer of 4, both modes, `-l`, `-p` and `-a` | `LoadedInPlace`, `SearchExact`, `StartIsAsked`, and that the search ends |
| `CallPrinter_names` | 4 calls in any order, a class and a subclass that inherits its method and overloads it, 1 handle that the VM uses again | `RecordsPaired`, `RecordTrue`, `TablesTrue`, `NamesTrue` |
| `SafeRanges_search` | all maps of up to 2 ranges in 4 addresses, 2 inits, reads of 1 or 2 bytes | `FindExact`, `ReadsMapped`, and that every search ends, overlap or not |

The other runs each show one disagreement with the documentation (see below).

*Why the bounds are enough.* `GumTrace_local`: one callout adds at most two
tokens to a buffer of four with a margin of two, so "full", "call record", "flush
limit" and "unrun" each happen as the first and as the last of several reasons
within four instructions; the two flush limits lie below and at what a session can
reach, and the second session may change the mode while the counter is kept; what a
session can inherit is one instruction's, so two sessions suffice. `GumTrace_live`
allows a flusher of the first session to survive into the second.
`Transform_pool`: seven contexts wrap a pool of three twice, with compilation in
any order and again in a second session that may register other modules; each of
the three modules, the system one among them, may be loaded from the start, between the
sessions or later.
`TaintEngine_scan`: a line's effect depends on the taint only, and with three lines
every one of the fifteen kinds stands behind every taint two others can produce;
a limit of two makes limit, empty taint and end of the trace coincide in every
combination; both `d0` and its normal form `q0` occur, as do the zero register as
source and as destination, a pair load over its own base register, and a pair
store of the zero register. `TraceParser_lines`: the parser keeps no state between
lines, so one instruction at a time is all there is; two registers of each letter
give equal and different ones, four kinds of bracket the forms of an address.
`TraceIndex_start`: sizes of 1, 4 and 5 bytes around a buffer of 4 are an empty line,
one that just fits and one whose newline is read on its own; offsets and line
numbers go beyond the end. `CallPrinter_names`: to get a wrong name a handle must be found, used,
deleted and found again, which takes four calls; one handle is the hardest case. Two
classes, two ids and one name are what it takes for an id to be looked up in the base class
and again in the subclass, and for a look up by name to give one of two ids.
`SafeRanges_search`: two inits over two ranges give lists of up to four with every
kind of duplicate and overlap, and every parity of the bisection; two bytes are enough
to remap in between and to pass a range's end.

*Deadlock* is checked in `SafeRanges_search` and `CallPrinter_names`. In the other runs
the program itself comes to an end (nothing more is traced; the scan has
returned; the line is parsed) or the instance does, when its bounds are used up.

## Fairness

`GumTrace_live` (`FairSpec`): a thread that is inside a callout
or inside `unrun` continues, a flusher thread is scheduled and its `usleep`
returns, and Stalker lets go of a thread it was asked to leave. The operating
system schedules runnable threads, and none of these steps waits for a lock.
Nothing obliges the application to execute another instruction or to call `run` or
`unrun`: the two liveness properties have to hold although the traced thread may
never run again, and that is what the flusher thread is for.

`SafeRanges_search` (`FairSpec`) and `TraceIndex_start` (`MCSpec`): a running search
takes its next step; it waits for nothing. The process may remap memory between any
two steps of the bisection.

## What is proved

All theorems hold for every value of the constants that satisfies the module's
named assumptions.

`GumTrace_proofs`

- `TypeCorrect`: `TypeOK`, local or remote, racing or not, with one step per action.
- `MemorySafe` (`MemoryBounds`) and `PendingOwned` (`PendingIsLast`). Neither is
  inductive. `CalloutStages` says what each stage of a callout has made room for
  or has used up: behind `CalloutEnter` at least the margin is free, behind
  `CalloutPost` no register is pending, behind `CalloutRet` no call is. The
  assumption used is that the margin holds what one callout appends
  (`BufferAssumption`) and an instruction writes at most as many registers as
  `regs` holds (`InsnAssumption`).
- `LogImplemented`: `ImplementsTraceLog`, for a thread that traces itself, no
  overlapping stream operations and a file that opens (the theorem's hypotheses).
  `LocalSession` ties `open`, `buffer` and `stream` to the stage of the session;
  each action then extends the log, moves a prefix of it to the file, or stutters.
- `LogExact` (`LogIsExecution`), under the hypotheses of `LogImplemented`, and
  `TracingLogExact` (`TracingLogIsExecution`) for another thread too, with a file that
  opens and no overlapping stream operations. `LogStep` first shows that every step
  does one of five things to the log `disk \o stream \o buffer`: it moves records
  along it, starts it anew, or appends a register record, a call's end or a line; the
  invariants are then about the log alone. `ExecInv` says that the log is a head of
  earlier sessions' records and, behind it, the flattened records of the session's
  instructions as far as they have been printed. It needs `PastInv`, which
  assumes nothing of the constants: what is pending is owed by the last
  instruction, which really writes registers or calls, and no record is of an
  instruction that has not been executed. That `FlattenSeq` of a longer sequence
  appends (`FlattenAppend`) is proved without induction: its recursive definition chooses a
  function that satisfies the recursion, two such functions agree by a least
  counterexample (`Least`, `JoinsAgree`), and one is exhibited (`JoinsAll`).
- `LinesSaved` (`UnrunSavesLines`), `StaleAtHead` (`StaleOnlyAtHead`) and
  `LagBounded` (`BoundedLag`), under the same hypotheses as `LogExact`:
  `StaleAtHead` says what is still owed to the head of a session (`HeadOf`, `Owed`),
  `LagBounded` (`LagInv`) that buffer and stream hold at most the lines `trace_flush` counted.

`Transform_proofs`

- `PoolIdentity`: `RecentContextsIntact`. The strengthening `PoolInv` says where
  in the pool a young context lies: its slot plus its age is the next index,
  counted round the pool. `SlotsAgeTogether` is the arithmetic of one step.
- `TransformTypeCorrect`: `TypeOK`, in particular that each context handed out names a
  module of the table. `FirstModule` supplies the least element that
  `in_range_module` takes (from the well-foundedness of the natural numbers).
- `SystemNotInstrumented`: `SystemExcluded`, which speaks of the system modules that were
  loaded at the last `init`. A system module in the table was
  named by some `init` (`TableInv`), and code with a callout lies in no module
  that the current Stalker excludes. For system modules loaded later the statement is
  false. That Stalker compiles nothing in a range it
  was told to exclude is an assumption about Stalker (the guard of `Instrument`).

`ParsedLine_proofs`

- `ForwardExact` and `BackwardExact`, for every `WellFormed` line and every set of
  tainted locations: category by category, `propagate_forward` and
  `propagate_backward` compute the image under `From` and `Into`. For a pair the
  code updates one set twice; `SetTwiceImage` and `BackTwiceImage` say when the second update
  does not disturb the first, and `WellFormed` is what they need. `UninvolvedUnchanged`:
  a line that a backward scan skips has no effect.

`TaintEngine_proofs`

- `TaintTypeCorrect`: `TypeOK`, in particular that the distance never exceeds the
  limit.
- `EngineFollowsFlow`: `ImplementsDataFlow`, for traces of any length over any set
  of lines satisfying `LineAssumption`. A line's step is `ForwardExact`,
  `BackwardExact` or `UninvolvedUnchanged`; `IInv` keeps index, distance and stage of
  the scan together.
- `TaintReportsCurrent`, `TaintStopReasonTrue`, `TaintResultsInOrder`: the
  properties of those names, each by an invariant on top of `IInv` (`Reported`,
  `Stopped`, `Ordered`).

`TraceParser_proofs`

- `ParserTypeCorrect` (`TypeOK`) and `ParserMakesLines` (`ParsedWellFormed`, and that the
  line is a `LineType`): for any instructions that satisfy `InsnAssumption`, the
  parsed line is one that `TaintEngine` assumes. The invariant
  follows the line through the stages: the category is the
  mnemonic's, stores, comparisons and branches have no destination, the first
  destinations of a pair are its first operands.
- `ParserFollowsInstructions` (`FlowExact`): outside the gaps the line's data flow `From` is
  the instruction's, `ArchFrom`. Besides `InsnAssumption` it rests on
  `FlowAssumption`, which says by mnemonic what the architecture does:
  which instructions set flags, and which of the registers named as operands they
  write and read. `OperandsRead` says which operands' registers the line holds after `k - 1`
  of them, `PrintedInv` and `SecondInv` which addresses; one lemma per kind of
  instruction (`BranchFlow` to `PairStoreFlow`) then compares the finished line with it.
  `NamesApart` and `Categorised` show first that `classify_mnemonic`'s lists do not
  overlap, so that category and mnemonic determine each other.

- `TaintFollowsInstructions` puts parser and engine together. Outside the gaps, for every
  set of tainted locations, `propagate_forward` on the parsed line taints what the
  executed instruction computes from tainted data, and `propagate_backward` what it
  computes tainted data from. The exception `BackwardExact` makes for memory that
  unknown instructions write falls away (`DoneWrites`). With `EngineFollowsFlow`, whose
  assumption on lines is `ParserMakesLines`, a scan over a trace without
  gaps follows the data through the instructions of that trace.

`TraceIndex_proofs`

- `IndexTypeCorrect` (`TypeOK`, with `pc = "found"` exactly if `start_index` is a line), `LinesInPlace` (`LoadedInPlace`), `SearchIsExact`
  (`SearchExact`), for every contiguous file and all arguments. The invariant says
  that `cur_offset` is the first byte of line `n` plus `done`, that loaded lines lie in front of it in
  order, and that lines outside `lo..hi` are too small or too large.
- `ScanStartsWhereAsked` (`StartIsAsked`). `CountedIsAsked` shows that counting newlines
  gives the line that holds the offset: line ends grow, so the newlines before an
  offset are those of the first lines up to one. `ShortInv` says that without long
  lines the loaded lines are exactly the file's instructions before the position, which
  stops at the end of the file or behind the line asked for.

`CallPrinter_proofs`

- `PrinterTypeCorrect`, `OneRecordPerCall`, `RecordsAreTrue`, `JniTablesTrue`,
  `JniNamesTrue`: the five invariants of the run, for any number of classes,
  methods, handles, argument registers and calls. `Noted` says that a pending context is that of the call
  made last, `Seen` that `x0` is what the callee returned, `JniInv` what a JNI call
  was given and that its reference is alive until it returns. Assumed of the VM: the types of
  `NameOf` and `MethodsOf`, that no method id is null (`IdAssumption`), and what
  `JniArgs` and `JniReturns` say of the functions. Handles are used again and ids shared
  without restriction; `JniTablesTrue` and `JniNamesTrue` have no premise on the run, but
  leave open what is printed for a handle whose entry is a former one or was not seen.
  For these the README's claim fails (`CallPrinter_reuse`).

`SafeRanges_proofs`

- `RangesTypeCorrect`, `FindIsExact` (`FindExact`), `ReadsAreMapped` (`ReadsMapped`), for lists
  of any length: `safa_ranges` is sorted, ranges
  left of `left` or right of `right` do not hold the address if none overlap, and a range
  that was found holds it, overlap or not. `ReadsMapped` has two premises, and the code
  checks neither: that nothing of what an init saw is gone when a byte is read, and that
  the text ends in the range it was found in.

## What is only model-checked

- `StreamReachesDisk`, `FlushersStop` and both `Terminates`: liveness under fairness is
  outside the prover's reach.
- The three disagreements below: TLC's counterexample is the result.

Every invariant that a passing run checks, and both refinements, are also stated by a theorem.

## Where the code and its documentation disagree

Three have a run that finds them and an entry under `findings`.

| run | the code | the documentation |
|---|---|---|
| `Transform_identity` | the pool wraps over contexts in use | each executed instruction with its mnemonic and operands (`README.md:14`) |
| `CallPrinter_ret` | `ret` is `x0` at the next callout, which for a traced callee is its first instruction | the return value of a known symbol is printed (`README.md:17`) |
| `CallPrinter_reuse` | an object at a handle that the VM uses again is printed with the class of the reference that was there before | `jclass` and `jmethodID` are resolved (`README.md:19`) |

Seen while modelling, and not given a run:

- `in_range_module` returns the first registered module for every address
  (`GumTrace.cpp:374`), while `README.md:14` promises each instruction's module and
  offset.
- The record of a call waits in `last_func_context` for the next callout; `unfollow`
  does not write it (`GumTrace.cpp:419`).
- `gum_stalker_unfollow` only asks another thread to stop, so with
  `trace_thread_id > 0` callouts still run after `unrun` has returned
  (`README.md:105`: stops tracing, flushes and closes).
- The flusher and the traced thread use one `ofstream` without a lock; `RACY = TRUE` models what that may do,
  and `LogIsExecution` does not hold then.
- `ldnp`, `ldxp` and `ldaxp` get two addresses from `parse_line` but one destination
  from `parse_operands` (`TraceParser.cpp:381`, `:686`).
- On Android `module_enumerate` registers every module outside the system paths, while
  `README.md:226` says that only the modules the user names are traced
  (`Transform!Registered` models the code).
- A system library that is loaded after `init` is neither excluded nor asked for, and its
  code gets callouts (`main.cpp:160`, `GumTrace.cpp:371`), while `README.md:226` says that
  system modules are excluded automatically. `Load` and `Instrument` do what the code does,
  and `SystemExcluded` is about the modules `init` saw.
- `REG_NZCV` is tainted by instructions that set the flags, but it is no source of a
  selection that reads them (`TaintEngine.cpp:79`), while `README.md:28` says that taint
  propagates through NZCV (`ReadsFlags` is a gap of `FlowExact`).
- An LSE atomic is not reported as exclusive and gets a callout, while `README.md:227`
  says it is skipped.
- `init` leaves pending registers and the pending call of the session before, while
  `README.md:90` says that it initialises the tracer (`StaleOnlyAtHead` says how
  little that is).

The README's claim on classes also meets a handle whose name `read_string` could not
read, and whose former name stays.

`FlowExact` excludes the instructions for which parser and engine do not follow the
data, and `TraceParser!Gap` lists them: instructions that read flags, keep part of
their destination (`bfi`, `bfxil`, `fmla`) or have effects beside their operands (calls,
`swp`), exclusive stores and the pairs above, pairs whose element size
is not that of the operand's letter (`s`, `q`, `ldpsw`), accesses without a printed
address (literals), vector lanes and `wsp`. Four more keep part of what they write and are not
told apart by their mnemonics: `fcvtn2`, `fcvtxn2`, and `orr` and `bic` of a vector and an
immediate; `FlowAssumption` leaves them out.

## What is not modelled

- The text of records, register values and widths, hex formatting and register access
  (`Utils.cpp`), the tables of system calls and known functions, Objective-C printing,
  `write_result`: formatting without state.
- Cutting a trace line into tokens; the 64-bit arithmetic of an address.
- `load_range_by_offset`, `find_by_offset`, `read_raw_line`, `target_ranges`,
  `last_module_cache`: nobody uses them.
- `CallNonvirtual...Method`, whose method id is not where `jni_after` looks for it.
- Calls of init, run and unrun out of order (`run` twice, `unrun` without `run`):
  the documentation gives one order, and the example script keeps it.
- Unloading of a module, and with it a module of the table that lies elsewhere in a later
  session (`main.cpp:71`).
- An `init` while a late callout of another thread searches `safa_ranges` (`main.cpp:132`
  to `:135`): a vector that one thread reads and another sorts, undefined behaviour.
- Method ids that the VM gives away again after a class was unloaded.
- Stalker and the VM: when a block is compiled or a thread let go, and which
  handle is used next, is external and left free (`Detach`, `Instrument`, `Load`,
  `JniReturns`, `RefsMove`).
- The editor script, the example script and the build files.
- `libs/FridaGum-*.h`: 112,406 lines of vendored Frida Gum declarations, 97 % of all
  lines under `src/`. They are an interface, not behaviour, so the modules cover only a
  small share of all lines, but about half of the program's own 3,950; the rest of
  these is the formatting listed above.

Some hazards are modelled, and yet the properties do not say that they are handled, because
the code does not handle them. Each has a note in `PROJECT.json`.

- The record of the last call is not saved by `unrun`: `UnrunSavesLines` is about lines.
- With another thread traced, `unfollow` writes and resets the buffer under a running
  callout: `TracingLogIsExecution` ends where `unfollow` begins.
- A flush that overlaps a write may lose or double text: properties of the text assume
  `RACY = FALSE`.
- Buffer sizes are tokens: that 1024 bytes hold one callout's text is assumed.
- `-p` and a file with long lines, and `-a` with `-l` in a backward scan: `StartIsAsked`
  excludes the first and takes the code's window for the second.
- `read_string` and `hexdump` read past the end of a range, and ranges that are gone are
  still trusted: `ReadsMapped` names both as premises.
