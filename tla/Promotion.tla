----------------------------- MODULE Promotion -----------------------------
(***************************************************************************)
(* The promotion rules R1 to R6 (orchestrator/promotion.py): a pure        *)
(* function from a finding's confidence, the correlations that name it and *)
(* the number of completed iterations to a decision.  The first rule whose *)
(* precondition holds wins.                                                *)
(***************************************************************************)
EXTENDS Naturals

Levels      == {"LOW", "MEDIUM", "HIGH"}
Confidences == Levels \cup {"DISPUTED"}
States      == {"DRAFT", "CONFIRMED"}
Rules       == {"R1", "R2", "R3", "R4", "R5", "R6"}

\* Correlations by what the rules tell apart: contradicts by severity,
\* corroborates by strength, the other types as they are.
Contradicts  == {"minor", "material", "fundamental"}
Serious      == {"material", "fundamental"}
Corroborates == {"weak", "moderate", "strong"}
CorrelationKinds ==
  Contradicts \cup Corroborates
    \cup {"strengthens", "weakens", "request_followup", "cross_host"}

Rank == [LOW |-> 1, MEDIUM |-> 2, HIGH |-> 3]

\* _conf_max(c, "MEDIUM"): R4 pins to at least MEDIUM, DISPUTED counts as none.
AtLeastMedium(c) ==
  IF c = "DISPUTED" THEN "MEDIUM"
  ELSE IF Rank[c] >= Rank["MEDIUM"] THEN c ELSE "MEDIUM"

OfKind(cs, kinds) == {c \in cs : c.kind \in kinds}

\* Mutant of Rule: corroboration is looked at before contradiction.
RuleCorroborationFirst(conf, cs, iterationsSoFar) ==
  IF OfKind(cs, {"strong"}) # {} THEN "R3"
  ELSE IF OfKind(cs, Serious) # {} THEN "R1"
  ELSE "R6"

Rule(conf, cs, iterationsSoFar) ==
  IF OfKind(cs, Serious) # {} THEN "R1"
  ELSE IF conf = "HIGH" /\ OfKind(cs, {"weakens"}) # {} THEN "R2"
  ELSE IF OfKind(cs, {"strong"}) # {} THEN "R3"
  ELSE IF OfKind(cs, {"moderate"}) # {} THEN "R4"
  ELSE IF iterationsSoFar >= 2 /\ cs = {} THEN "R5"
  ELSE "R6"

ConfidenceAfter(rule, conf) ==
  CASE rule = "R1" -> "DISPUTED"
    [] rule = "R2" -> "MEDIUM"
    [] rule = "R3" -> "HIGH"
    [] rule = "R4" -> AtLeastMedium(conf)
    [] rule = "R5" -> IF conf = "DISPUTED" THEN "MEDIUM" ELSE conf
    [] OTHER -> conf

StateAfter(rule) == IF rule \in {"R1", "R6"} THEN "DRAFT" ELSE "CONFIRMED"

\* driving_correlation_ids, as the correlations themselves.
Driving(rule, cs) ==
  CASE rule = "R1" -> OfKind(cs, Serious)
    [] rule = "R2" -> OfKind(cs, {"weakens"})
    [] rule = "R3" -> OfKind(cs, {"strong"})
    [] rule = "R4" -> OfKind(cs, {"moderate"})
    [] OTHER -> {}

promote(conf, cs, iterationsSoFar) ==
  LET rule == Rule(conf, cs, iterationsSoFar) IN
  [rule |-> rule, state |-> StateAfter(rule),
   conf |-> ConfidenceAfter(rule, conf), driving |-> Driving(rule, cs)]
=============================================================================
