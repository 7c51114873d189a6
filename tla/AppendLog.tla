------------------------------ MODULE AppendLog ------------------------------
(***************************************************************************)
(* What a tamper-evident journal promises: its record only grows, by one   *)
(* entry at a time, at the end.                                            *)
(***************************************************************************)
EXTENDS Integers, Sequences

VARIABLE log

Init == log = <<>>

\* Whatever the new entry is, the old ones are still in front of it.
Write == log' # <<>> /\ log' = Append(log, log'[Len(log')])

Spec == Init /\ [][Write]_log
=============================================================================
