---------------------------- MODULE ReliableStream -----------------------------
(***************************************************************************)
(* What a System Link TCP socket promises about one direction: the bytes   *)
(* arrive in the order they were written, without a gap or a repeat, the   *)
(* end of the stream arrives after the last of them, and a stream that     *)
(* breaks may lose what was not read yet but never delivers again.         *)
(***************************************************************************)
EXTENDS Naturals, Sequences, SequencesExt

VARIABLES
  written,    \* how many bytes were written; byte k is the number k
  finished,   \* the writer said that it is done
  read,       \* what the reader took
  ready,      \* what it can take
  ended,      \* the reader was told that no more follows
  broken      \* the reader's end is gone

vars == <<written, finished, read, ready, ended, broken>>

Init ==
  /\ written = 0 /\ finished = FALSE
  /\ read = <<>> /\ ready = <<>> /\ ended = FALSE /\ broken = FALSE

Write ==
  /\ ~finished /\ written' = written + 1
  /\ UNCHANGED <<finished, read, ready, ended, broken>>

Finish ==
  /\ ~finished /\ finished' = TRUE
  /\ UNCHANGED <<written, read, ready, ended, broken>>

\* Any number of the bytes that come next arrive, perhaps with the end.
Arrive ==
  /\ ~broken /\ ~ended
  /\ \E n \in Len(read) + Len(ready)..written :
       ready' = SubSeq([k \in 1..n |-> k], Len(read) + 1, n)
  /\ ended' \in {FALSE, finished /\ Len(read) + Len(ready') = written}
  /\ UNCHANGED <<written, finished, read, broken>>

Read ==
  /\ ready # <<>> /\ read' = Append(read, Head(ready)) /\ ready' = Tail(ready)
  /\ UNCHANGED <<written, finished, ended, broken>>

\* The reader's end goes, with or without what it held.  One that loses bytes
\* does not pass for a stream that ended.
Break ==
  /\ broken' = TRUE
  /\ ready' \in {<<>>, ready} /\ ended' \in {FALSE, ended}
  /\ ready' # ready => ~ended'
  /\ UNCHANGED <<written, finished, read>>

Next == Write \/ Finish \/ Arrive \/ Read \/ Break
Spec == Init /\ [][Next]_vars
================================================================================
