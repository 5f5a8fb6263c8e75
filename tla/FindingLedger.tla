---------------------------- MODULE FindingLedger ----------------------------
(***************************************************************************)
(* What the loop promises about findings, without iterations, dispatches,  *)
(* lost answers or calls that land late.  A finding is drafted once and    *)
(* decided at most once: disputed if the contradictions that were weighed  *)
(* name it, else confirmed, for good either way.  What the records of the  *)
(* run report of a finding is how it stands.                               *)
(***************************************************************************)
CONSTANT Findings

VARIABLES
  standing,      \* standing[f]: "absent", "draft", "disputed" or "confirmed"
  contradicted,  \* the findings serious contradictions name
  weighed,       \* those of them that are taken into account
  reported,      \* [finding, verdict]: what the records of the run say
  over           \* the run has ended: nothing more is decided

vars == <<standing, contradicted, weighed, reported, over>>

Known == {f \in Findings : standing[f] # "absent"}

Init ==
  /\ standing = [f \in Findings |-> "absent"]
  /\ contradicted = {} /\ weighed = {} /\ reported = {} /\ over = FALSE

\* Drafts and contradictions may still arrive when the run is over.
Record(f) ==
  /\ standing[f] = "absent"
  /\ standing' = [standing EXCEPT ![f] = "draft"]
  /\ UNCHANGED <<contradicted, weighed, reported, over>>

Contradict ==
  /\ contradicted \subseteq contradicted' /\ contradicted' \subseteq Known
  /\ UNCHANGED <<standing, weighed, reported, over>>

Weigh ==
  /\ ~over /\ weighed' = contradicted
  /\ UNCHANGED <<standing, contradicted, reported, over>>

Decide(f) ==
  /\ ~over /\ standing[f] = "draft"
  /\ standing' = [standing EXCEPT ![f] = IF f \in weighed THEN "disputed" ELSE "confirmed"]
  /\ UNCHANGED <<contradicted, weighed, reported, over>>

Report ==
  /\ ~over /\ over' \in BOOLEAN
  /\ reported \subseteq reported'
  /\ reported' \subseteq reported \cup {[finding |-> f, verdict |-> standing[f]] : f \in Known}
  /\ UNCHANGED <<standing, contradicted, weighed>>

Next == Contradict \/ Weigh \/ Report \/ \E f \in Findings : Record(f) \/ Decide(f)

Spec == Init /\ [][Next]_vars
=============================================================================
