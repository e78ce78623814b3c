------------------------------ MODULE TraceLog ------------------------------
(***************************************************************************)
(* What a trace file promises its reader, whatever buffers lie between the *)
(* tracer and the disk: while the file is open the log only grows at its   *)
(* end, the part already saved is always a prefix of it, and a closed file *)
(* holds the whole log.  GumTrace implements it (GumTrace!Log).            *)
(***************************************************************************)
EXTENDS Sequences, SequencesExt

VARIABLES log,      \* every record produced for the file, in order
          saved,    \* the records the file holds
          opened    \* the file is open for writing

vars == <<log, saved, opened>>

Init == log = <<>> /\ saved = <<>> /\ opened = FALSE

(* A new, empty file. *)
Create == /\ ~opened
          /\ opened' = TRUE
          /\ log' = <<>>
          /\ saved' = <<>>

Record == /\ opened
          /\ IsPrefix(log, log')
          /\ UNCHANGED <<saved, opened>>

Save == /\ opened
        /\ IsPrefix(saved, saved')
        /\ IsPrefix(saved', log)
        /\ UNCHANGED <<log, opened>>

Close == /\ opened
         /\ opened' = FALSE
         /\ log' = log
         /\ saved' = log

Next == Create \/ Record \/ Save \/ Close

Spec == Init /\ [][Next]_vars
=============================================================================
