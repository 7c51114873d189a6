---------------------------- MODULE NumberRegister ----------------------------
(***************************************************************************)
(* What numbering promises (ADR-002): per key - a journal code and a year -*)
(* numbers go out one after the other from 1, each to one document, and a  *)
(* number that went out is never withdrawn or given again.                 *)
(***************************************************************************)
EXTENDS Integers

CONSTANTS
  Keys,   \* (journal code, year)
  Docs    \* documents

VARIABLES
  last,   \* the last number given out under each key
  owner   \* <<number, document>> for every number given out

Init ==
  /\ last = [k \in Keys |-> 0]
  /\ owner = {}

Issue(k, d) ==
  /\ last' = [last EXCEPT ![k] = @ + 1]
  /\ owner' = owner \cup {<<[key |-> k, no |-> last[k] + 1], d>>}

Next == \E k \in Keys, d \in Docs : Issue(k, d)

Spec == Init /\ [][Next]_<<last, owner>>
=============================================================================
