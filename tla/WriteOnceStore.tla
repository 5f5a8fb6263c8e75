--------------------------- MODULE WriteOnceStore ---------------------------
(***************************************************************************)
(* What the extraction cache promises to the tools.  A pair of an evidence *)
(* and a plugin gets one result, at most once and for good, and every      *)
(* answer about the pair tells that result.  How many processes compute,   *)
(* which of them die, and where a result is kept, is not said.             *)
(***************************************************************************)
CONSTANTS Pairs, Results, Nothing

VARIABLES
  stored,  \* stored[p]: the result of pair p, or Nothing
  told     \* [pair, result]: what the answers so far have told

vars == <<stored, told>>

Init == stored = [p \in Pairs |-> Nothing] /\ told = {}

Store(p) ==
  /\ stored[p] = Nothing /\ stored'[p] \in Results
  /\ stored' = [stored EXCEPT ![p] = stored'[p]]
  /\ UNCHANGED told

Tell(p) ==
  /\ stored[p] # Nothing
  /\ told' = told \cup {[pair |-> p, result |-> stored[p]]}
  /\ UNCHANGED stored

Next == \E p \in Pairs : Store(p) \/ Tell(p)

Spec == Init /\ [][Next]_vars
=============================================================================
