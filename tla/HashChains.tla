----------------------------- MODULE HashChains -----------------------------
(***************************************************************************)
(* What the hash-chained logs of a case directory promise, without locks,  *)
(* processes or files: every chain is a list of records, a record enters   *)
(* its chain in one step, and the record that enters is linked to the      *)
(* record before it.  ChainLog is shown to implement this module.          *)
(***************************************************************************)
EXTENDS Naturals, Sequences

CONSTANTS Chains      \* the names of the logs

VARIABLE log          \* log[c]: the records of chain c, oldest first

Genesis == 0          \* the 64 zeros a first record links to

LastHash(records) ==
  IF records = <<>> THEN Genesis ELSE records[Len(records)].hash

Init == log = [c \in Chains |-> <<>>]

\* One record `e`, linked to the head of chain c, becomes its new head.
Linked(e, c) ==
  /\ e.line = Len(log[c]) + 1
  /\ e.prev = LastHash(log[c])

Extend(c) ==
  /\ Len(log'[c]) = Len(log[c]) + 1
  /\ Linked(log'[c][Len(log[c]) + 1], c)
  /\ log' = [log EXCEPT ![c] = Append(@, log'[c][Len(log[c]) + 1])]

Next == \E c \in Chains : Extend(c)

Spec == Init /\ [][Next]_log
=============================================================================
