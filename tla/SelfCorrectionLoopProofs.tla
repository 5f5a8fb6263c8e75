---------------------- MODULE SelfCorrectionLoopProofs ----------------------
(***************************************************************************)
(* For any units, findings, correlations and limits: what the findings and *)
(* iterations chains say at every step of the two loops.  The argument:    *)
(* what the loop keeps in its locals (snapshots, deltas, the last set of   *)
(* disputes) agrees, at each step of an iteration, with what the chains    *)
(* say by then; and in a run in which no dispatch is killed nothing lands  *)
(* on the chains but in the step that asked for it.                        *)
(*                                                                         *)
(* First, what the promotion rules alone decide, for every confidence,     *)
(* every set of correlations and every number of iterations.               *)
(***************************************************************************)
EXTENDS SelfCorrectionLoop, SequenceTheorems, FiniteSetTheorems, WellFoundedInduction, TLAPS

----------------------------------------------------------------------------
(* The promotion rules                                                      *)

\* The rules that apply to an input: the definition of Rule read backwards.
LEMMA RuleGrounds ==
  ASSUME NEW conf, NEW cs, NEW n \in Nat
  PROVE  /\ Rule(conf, cs, n) \in Rules
         /\ Rule(conf, cs, n) = "R1" <=> OfKind(cs, Serious) # {}
         /\ Rule(conf, cs, n) = "R2" => conf = "HIGH" /\ OfKind(cs, {"weakens"}) # {}
         /\ Rule(conf, cs, n) = "R3" => OfKind(cs, {"strong"}) # {}
         /\ Rule(conf, cs, n) = "R4" => OfKind(cs, {"moderate"}) # {}
         /\ Rule(conf, cs, n) = "R5" => cs = {} /\ n >= 2
BY DEF Rule, Rules

\* _conf_max keeps a level a level and lifts a dispute to MEDIUM.
LEMMA AtLeastMediumLevel ==
  ASSUME NEW conf \in Confidences
  PROVE  AtLeastMedium(conf) \in Levels
<1>1. CASE conf = "DISPUTED"
  BY <1>1 DEF AtLeastMedium, Levels
<1>2. CASE conf # "DISPUTED"
  BY <1>2 DEF AtLeastMedium, Confidences, Levels
<1>3. QED
  BY <1>1, <1>2

\* promote is total: every input gets a rule, a state and a confidence.
THEOREM PromoteIsTotal ==
  ASSUME NEW conf \in Confidences, NEW cs, NEW n \in Nat
  PROVE  promote(conf, cs, n) \in
           [rule : Rules, state : States, conf : Confidences, driving : SUBSET cs]
<1> DEFINE rule == Rule(conf, cs, n)
<1>1. rule \in Rules
  BY RuleGrounds
<1>2. StateAfter(rule) \in States
  BY DEF StateAfter, States
<1>3. ConfidenceAfter(rule, conf) \in Confidences
  BY <1>1, AtLeastMediumLevel DEF ConfidenceAfter, Rules, Confidences, Levels
<1>4. Driving(rule, cs) \in SUBSET cs
  BY <1>1 DEF Driving, OfKind, Rules
<1>5. QED
  BY <1>1, <1>2, <1>3, <1>4 DEF promote

\* No rule confirms a finding as DISPUTED.
THEOREM ConfirmedIsSettled ==
  ASSUME NEW conf \in Confidences, NEW cs, NEW n \in Nat,
         promote(conf, cs, n).state = "CONFIRMED"
  PROVE  promote(conf, cs, n).conf \in Levels
<1> DEFINE rule == Rule(conf, cs, n)
<1>1. promote(conf, cs, n).state = StateAfter(rule)
      /\ promote(conf, cs, n).conf = ConfidenceAfter(rule, conf)
  BY DEF promote
<1>2. rule \in {"R2", "R3", "R4", "R5"}
  BY <1>1, RuleGrounds DEF StateAfter, Rules
<1>3. CASE rule = "R2"
  BY <1>1, <1>3 DEF ConfidenceAfter, Levels
<1>4. CASE rule = "R3"
  BY <1>1, <1>4 DEF ConfidenceAfter, Levels
<1>5. CASE rule = "R4"
  BY <1>1, <1>5, AtLeastMediumLevel DEF ConfidenceAfter
<1>6. CASE rule = "R5"
  BY <1>1, <1>6 DEF ConfidenceAfter, Levels, Confidences
<1>7. QED
  BY <1>2, <1>3, <1>4, <1>5, <1>6

\* Disputes outrank everything: with a material or fundamental contradiction
\* among its correlations a finding goes to DRAFT and DISPUTED, whatever
\* corroborates it.
THEOREM DisputesOutrank ==
  ASSUME NEW conf \in Confidences, NEW cs, NEW n \in Nat,
         NEW c \in cs, c.kind \in Serious
  PROVE  /\ promote(conf, cs, n).state = "DRAFT"
         /\ promote(conf, cs, n).conf = "DISPUTED"
         /\ c \in promote(conf, cs, n).driving
<1>1. OfKind(cs, Serious) # {} /\ c \in OfKind(cs, Serious)
  BY DEF OfKind
<1>2. Rule(conf, cs, n) = "R1"
  BY <1>1, RuleGrounds
<1>3. QED
  BY <1>1, <1>2 DEF promote, StateAfter, ConfidenceAfter, Driving

\* A decision that changes a finding names the correlations that drove it,
\* or is the promotion by silence, for which no correlation exists at all.
\* (update_finding rejects an empty list for every rule but R5.)
THEOREM DecisionsHaveGrounds ==
  ASSUME NEW conf \in Confidences, NEW cs, NEW n \in Nat,
         promote(conf, cs, n).rule # "R6",
         promote(conf, cs, n).driving = {}
  PROVE  /\ promote(conf, cs, n).rule = "R5"
         /\ cs = {} /\ n >= 2
<1> DEFINE rule == Rule(conf, cs, n)
<1>1. /\ promote(conf, cs, n).rule = rule
      /\ promote(conf, cs, n).driving = Driving(rule, cs)
  BY DEF promote
<1>2. rule \in {"R1", "R2", "R3", "R4", "R5"}
  BY <1>1, RuleGrounds DEF Rules
<1>3. rule = "R5"
  BY <1>1, <1>2, RuleGrounds DEF Driving
<1>4. QED
  BY <1>1, <1>3, RuleGrounds

----------------------------------------------------------------------------
(* The loops                                                                *)

Corrs == [id : Nat, kind : Kinds, on : SUBSET Findings, to : Units \cup {"all", "none"},
          iter : 1..MaxIterations]
Proms == [fid : Findings, rule : Rules, applied : BOOLEAN, error : BOOLEAN]
Flags == {"R_a", "R_b", "R_c", "max_iterations", ""}
Iterations ==
  [number : 1..MaxIterations, added : SUBSET Findings, correlated : SUBSET Corrs,
   promotions : SUBSET Proms, flag : Flags, disputed : SUBSET Findings,
   next : SUBSET Units]
LateFindings == [tool : {"record_finding"}, record : Entry]
LateCorrs == [tool : {"record_correlation"}, record : Corrs]

\* A follow-up asks for a unit, or for all of them where units are hosts.
Aimed(c) == c.kind = "request_followup" => c.to \in Units \/ (multiHost /\ c.to = "all")

\* The types, with those of the records that TypeOK leaves open.
Types ==
  /\ multiHost \in BOOLEAN
  /\ pc \in {"analyze", "correlate", "promote", "done"}
  /\ iteration \in 1..MaxIterations
  /\ waiting \subseteq Units
  /\ chain \in Seq(Entry)
  /\ corrs \subseteq Corrs /\ IsFiniteSet(corrs) /\ seen \subseteq corrs
  /\ before \in [drafts : SUBSET Findings, corrs : SUBSET corrs]
  /\ added \subseteq Findings /\ todo \subseteq Drafts /\ prior \subseteq Findings
  /\ promotions \subseteq Proms
  /\ tokens \in 0..TokenBudget /\ faults \in 0..MaxFaults
  /\ records \in Seq(Iterations)
  /\ late \subseteq LateFindings \cup LateCorrs /\ IsFiniteSet(late)
  /\ \A c \in corrs : Aimed(c)
  /\ \A l \in late : l.tool = "record_correlation" => Aimed(l.record)

-----------------------------------------------------------------------------
(* The last record of a finding. *)

\* A set of positions of a sequence that is not empty has a last one.
LEMMA LastPosition ==
  ASSUME NEW n \in Nat, NEW S \in SUBSET (1..n), S # {}
  PROVE  Max(S) \in S /\ \A k \in S : Max(S) >= k
<1> DEFINE T == {n - k : k \in S}
<1> DEFINE R == {ss \in Nat \X Nat : ss[1] < ss[2]}
<1>1. IsWellFoundedOn(R, Nat)
  BY NatLessThanWellFounded DEF OpToRel
<1>2. T \subseteq Nat /\ T # {}
  <2>1. \A k \in S : k \in Nat /\ n - k \in Nat
    OBVIOUS
  <2>2. PICK k \in S : TRUE
    OBVIOUS
  <2> QED BY <2>1, <2>2
<1>3. PICK x \in T : \A y \in T : ~ (<<y, x>> \in R)
  <2> HIDE DEF T, R
  <2> QED BY <1>1, <1>2, WFMin
<1>4. ASSUME NEW y \in T PROVE x <= y
  <2>1. x \in Nat /\ y \in Nat
    BY <1>2, <1>3
  <2>2. ~ (x > y)
    BY <1>3, <2>1
  <2> QED BY <2>1, <2>2
<1>5. PICK m \in S : x = n - m
  BY DEF T
<1>6. ASSUME NEW k \in S PROVE m >= k
  <2>1. n - m <= n - k
    BY <1>4, <1>5
  <2>2. m \in Nat /\ k \in Nat
    OBVIOUS
  <2> HIDE DEF T
  <2> QED BY <2>1, <2>2
<1> QED BY <1>6 DEF Max

\* A record of the chain is of a drafted finding, so a drafted finding has a
\* last record, which is on the chain.
LEMMA StateIsOnChain ==
  ASSUME Types, NEW f \in Drafts
  PROVE  \E m \in DOMAIN chain :
           /\ StateOf(f) = chain[m] /\ chain[m].fid = f
           /\ \A k \in DOMAIN chain : chain[k].fid = f => k <= m
<1> DEFINE S == {k \in DOMAIN chain : chain[k].fid = f}
<1>1. Len(chain) \in Nat /\ DOMAIN chain = 1..Len(chain)
  BY DEF Types
<1>2. S \in SUBSET (1..Len(chain)) /\ S # {}
  BY <1>1 DEF Drafts
<1>3. Max(S) \in S /\ \A k \in S : Max(S) >= k
  BY <1>1, <1>2, LastPosition
<1> QED BY <1>1, <1>3 DEF StateOf

-----------------------------------------------------------------------------
(* What a record appended to the findings chain changes. *)

LEMMA Appended ==
  ASSUME Types, NEW e \in Entry, chain' = Append(chain, e)
  PROVE  /\ chain' \in Seq(Entry)
         /\ Len(chain) \in Nat /\ Len(chain') = Len(chain) + 1
         /\ DOMAIN chain' = DOMAIN chain \cup {Len(chain) + 1}
         /\ \A k \in DOMAIN chain : chain'[k] = chain[k] /\ k <= Len(chain)
         /\ chain'[Len(chain) + 1] = e
         /\ Drafts' = Drafts \cup {f \in {e.fid} : e.kind = "draft"}
<1>1. /\ chain' \in Seq(Entry)
      /\ Len(chain) \in Nat /\ Len(chain') = Len(chain) + 1
      /\ DOMAIN chain' = DOMAIN chain \cup {Len(chain) + 1}
      /\ \A k \in DOMAIN chain : chain'[k] = chain[k] /\ k <= Len(chain)
      /\ chain'[Len(chain) + 1] = e
  BY DEF Types
<1>2. Drafts' = Drafts \cup {f \in {e.fid} : e.kind = "draft"}
  BY <1>1 DEF Drafts
<1> QED BY <1>1, <1>2

LEMMA EntryTyped ==
  ASSUME Types
  PROVE  /\ \A k \in DOMAIN chain : chain[k] \in Entry
         /\ Drafts \subseteq Findings
<1>1. \A k \in DOMAIN chain : chain[k] \in Entry
  BY DEF Types
<1>2. \A k \in DOMAIN chain : chain[k].fid \in Findings
  BY <1>1 DEF Entry
<1> QED BY <1>1, <1>2 DEF Drafts

LEMMA StateTyped ==
  ASSUME Types, NEW f \in Drafts
  PROVE  StateOf(f) \in Entry /\ StateOf(f).conf \in Confidences
<1>1. StateOf(f) \in Entry
  BY StateIsOnChain, EntryTyped
<1> QED BY <1>1 DEF Entry

\* What PROMOTE decides on a draft is a decision.
LEMMA DecisionTyped ==
  ASSUME Types, NEW f \in Drafts
  PROVE  Decision(f) \in [rule : Rules, state : States, conf : Confidences,
                          driving : SUBSET Naming(f, seen)]
<1>1. iteration - 1 \in Nat
  BY LimitsAssumption DEF Types
<1> QED BY <1>1, StateTyped, PromoteIsTotal DEF Decision

LEMMA DraftTyped ==
  ASSUME Types, NEW f \in Findings, NEW level \in FirstLevels
  PROVE  Draft(f, level) \in Entry /\ Draft(f, level).kind = "draft"
         /\ Draft(f, level).fid = f
  BY LevelsAssumption DEF Types, Draft, Entry, Confidences, States

LEMMA UpdateTyped ==
  ASSUME Types, NEW f \in Drafts
  PROVE  Update(f, Decision(f)) \in Entry
<1>1. f \in Findings
  BY EntryTyped
<1> QED BY <1>1, DecisionTyped DEF Types, Update, Entry

\* A correlation the validator records.
LEMMA CorrelationTyped ==
  ASSUME Types, NEW c \in Correlation
  PROVE  /\ c \in Corrs /\ Aimed(c)
         /\ c.on \subseteq Drafts /\ c.on # {} /\ c.iter = iteration
<1>1. Cardinality(corrs) + Cardinality(late) + 1 \in Nat
  BY FS_CardinalityType DEF Types
<1>2. Drafts \subseteq Findings
  BY EntryTyped
<1>3. c \in Corrs /\ Aimed(c) /\ c.on \subseteq Drafts /\ c.iter = iteration
  <2> DEFINE n == Cardinality(corrs) + Cardinality(late) + 1
  <2>1. CASE c \in [id : {n}, kind : Kinds \ {"request_followup"},
                    on : {s \in SUBSET Drafts : Cardinality(s) \in {1, 2}}, to : {"none"},
                    iter : {iteration}]
    <3>1. c = [id |-> n, kind |-> c.kind, on |-> c.on, to |-> "none", iter |-> iteration]
      BY <2>1
    <3>2. c.kind \in Kinds \ {"request_followup"} /\ c.on \subseteq Drafts
      BY <2>1
    <3>3. iteration \in 1..MaxIterations /\ c.on \in SUBSET Findings
      BY <1>2, <3>2 DEF Types
    <3>4. c.kind # "request_followup" /\ c.on \subseteq Drafts /\ c.iter = iteration
      BY <3>1, <3>2
    <3>5. c \in Corrs
      BY <1>1, <3>1, <3>2, <3>3 DEF Corrs
    <3> QED BY <3>4, <3>5 DEF Aimed
  <2>2. CASE c \in [id : {n}, kind : Kinds \cap {"request_followup"},
                    on : {s \in SUBSET Drafts : Cardinality(s) = 1},
                    to : IF multiHost THEN Units \cup {"all"} ELSE Units, iter : {iteration}]
    <3>1. c = [id |-> n, kind |-> c.kind, on |-> c.on, to |-> c.to, iter |-> iteration]
      BY <2>2
    <3>2. /\ c.kind \in Kinds /\ c.on \subseteq Drafts
          /\ c.to \in IF multiHost THEN Units \cup {"all"} ELSE Units
      BY <2>2
    <3>3. iteration \in 1..MaxIterations /\ c.on \in SUBSET Findings
      BY <1>2, <3>2 DEF Types
    <3>4. c.to \in Units \cup {"all", "none"} /\ c.iter = iteration
      BY <3>1, <3>2
    <3>6. c.to \in Units \/ (multiHost /\ c.to = "all")
      BY <3>2
    <3>5. c \in Corrs
      BY <1>1, <3>1, <3>2, <3>3, <3>4 DEF Corrs
    <3> QED BY <3>2, <3>4, <3>5, <3>6 DEF Aimed
  <2> QED BY <2>1, <2>2 DEF Correlation
<1>4. c.on # {}
  BY FS_EmptySet DEF Correlation
<1> QED BY <1>3, <1>4

-----------------------------------------------------------------------------
(* The types. *)

LEMMA TypesInit == Init => Types
<1> SUFFICES ASSUME Init PROVE Types
  OBVIOUS
<1>1. IsFiniteSet({})
  BY FS_EmptySet
<1>2. Drafts = {} /\ <<>> \in Seq(Entry) /\ <<>> \in Seq(Iterations)
  <2>1. chain = <<>> /\ <<>> \in Seq(Entry) /\ <<>> \in Seq(Iterations)
    BY EmptySeq DEF Init
  <2>2. DOMAIN chain = 1..0
    BY <2>1, EmptySeq
  <2> QED BY <2>1, <2>2 DEF Drafts
<1>3. before \in [drafts : SUBSET Findings, corrs : SUBSET corrs]
  BY DEF Init
<1>4. iteration \in 1..MaxIterations /\ tokens \in 0..TokenBudget /\ faults \in 0..MaxFaults
  <2>1. iteration = 1 /\ tokens = 0 /\ faults = 0
    BY DEF Init
  <2> QED BY <2>1, LimitsAssumption
<1> QED BY <1>1, <1>2, <1>3, <1>4 DEF Init, Types

\* Steps that leave the chains, the iteration and what is in flight alone.
LEMMA SpendTyped == ASSUME Types, Spend PROVE tokens' \in 0..TokenBudget
  BY LimitsAssumption DEF Spend, Types

LEMMA DispatchTypes ==
  ASSUME Types, NEW u \in Units, DispatchAnalyst(u), UNCHANGED multiHost
  PROVE  Types'
<1>1. tokens' \in 0..TokenBudget
  BY SpendTyped DEF DispatchAnalyst
<1> USE DEF DispatchAnalyst, stepVars
<1>2. CASE UNCHANGED <<chain, late, faults>>
  BY <1>1, <1>2 DEF Types, Drafts, Aimed
<1>3. CASE \E f \in Fresh, level \in FirstLevels :
             /\ chain' = Append(chain, Draft(f, level)) /\ UNCHANGED <<late, faults>>
  <2>1. PICK f \in Fresh, level \in FirstLevels :
          chain' = Append(chain, Draft(f, level)) /\ UNCHANGED <<late, faults>>
    BY <1>3
  <2>2. chain' \in Seq(Entry) /\ Drafts \subseteq Drafts'
    BY <2>1, DraftTyped, Appended DEF Fresh
  <2> QED BY <1>1, <2>1, <2>2 DEF Types, Aimed
<1>4. CASE \E f \in Fresh, level \in FirstLevels :
             /\ faults < MaxFaults /\ faults' = faults + 1
             /\ late' = late \cup {[tool |-> "record_finding", record |-> Draft(f, level)]}
             /\ UNCHANGED chain
  <2>1. PICK f \in Fresh, level \in FirstLevels :
          late' = late \cup {[tool |-> "record_finding", record |-> Draft(f, level)]}
    BY <1>4
  <2>2. [tool |-> "record_finding", record |-> Draft(f, level)] \in LateFindings
    BY DraftTyped DEF Fresh, LateFindings
  <2>3. IsFiniteSet(late')
    BY <2>1, FS_AddElement DEF Types
  <2>4. faults' \in 0..MaxFaults
    BY <1>4, LimitsAssumption DEF Types
  <2> QED BY <1>1, <1>4, <2>1, <2>2, <2>3, <2>4 DEF Types, Drafts, Aimed, LateFindings
<1> QED BY <1>2, <1>3, <1>4

LEMMA EndAnalyzeTypes ==
  ASSUME Types, EndAnalyze, UNCHANGED multiHost
  PROVE  Types'
<1>1. Drafts \subseteq Findings
  BY EntryTyped
<1>2. before' = [drafts |-> before.drafts, corrs |-> corrs]
  BY DEF EndAnalyze, Types
<1>3. before' \in [drafts : SUBSET Findings, corrs : SUBSET corrs']
  BY <1>2 DEF EndAnalyze, chainVars, Types
<1> QED BY <1>1, <1>3 DEF EndAnalyze, StartPromote, chainVars, Types, Drafts, Aimed

LEMMA CorrelateTypes ==
  ASSUME Types, NEW c \in Correlation, Correlate(c), UNCHANGED multiHost
  PROVE  Types'
<1>1. c \in Corrs /\ Aimed(c)
  BY CorrelationTyped
<1>2. IsFiniteSet(corrs')
  BY FS_AddElement DEF Correlate, Types
<1> QED BY <1>1, <1>2 DEF Correlate, stepVars, Types, Drafts, Aimed

LEMMA EndCorrelateTypes ==
  ASSUME Types, EndCorrelate, UNCHANGED multiHost
  PROVE  Types'
<1>1. tokens' \in 0..TokenBudget
  BY SpendTyped DEF EndCorrelate
<1> USE DEF EndCorrelate, StartPromote, chainVars
<1>2. CASE UNCHANGED <<late, faults>>
  BY <1>1, <1>2 DEF Types, Drafts, Aimed
<1>3. CASE \E c \in Correlation :
             /\ Cardinality(corrs) + Cardinality(late) < MaxCorrelations
             /\ faults < MaxFaults /\ faults' = faults + 1
             /\ late' = late \cup {[tool |-> "record_correlation", record |-> c]}
  <2>1. PICK c \in Correlation :
          late' = late \cup {[tool |-> "record_correlation", record |-> c]}
    BY <1>3
  <2>2. /\ [tool |-> "record_correlation", record |-> c] \in LateCorrs
        /\ Aimed(c)
    BY CorrelationTyped DEF LateCorrs
  <2>3. IsFiniteSet(late')
    BY <2>1, FS_AddElement DEF Types
  <2>4. faults' \in 0..MaxFaults
    BY <1>3, LimitsAssumption DEF Types
  <2>5. \A l \in late' : l.tool = "record_correlation" => Aimed(l.record)'
    BY <2>1, <2>2 DEF Types, Aimed
  <2> QED BY <1>1, <2>1, <2>2, <2>3, <2>4, <2>5 DEF Types, Drafts, Aimed
<1> QED BY <1>2, <1>3

LEMMA LateTyped ==
  ASSUME Types, NEW l \in late
  PROVE  /\ l.tool = "record_finding" => l.record \in Entry
         /\ l.tool = "record_correlation" => l.record \in Corrs /\ Aimed(l.record)
         /\ IsFiniteSet(late \ {l})
<1>1. IsFiniteSet(late \ {l})
  BY FS_RemoveElement DEF Types
<1> QED BY <1>1 DEF Types, LateFindings, LateCorrs

LEMMA LateTypes ==
  ASSUME Types, NEW l \in late, LateCall(l), UNCHANGED multiHost
  PROVE  Types'
<1> USE DEF LateCall, stepVars
<1>1. IsFiniteSet(late')
  BY LateTyped
<1>2. CASE /\ l.tool = "record_finding"
           /\ chain' = Append(chain, l.record) /\ UNCHANGED corrs
  <2>1. chain' \in Seq(Entry) /\ Drafts \subseteq Drafts'
    BY <1>2, LateTyped, Appended
  <2> QED BY <1>1, <1>2, <2>1 DEF Types, Aimed
<1>3. CASE /\ l.tool = "record_correlation"
           /\ corrs' = corrs \cup {l.record} /\ UNCHANGED chain
  <2>1. l.record \in Corrs /\ Aimed(l.record) /\ IsFiniteSet(corrs')
    BY <1>3, LateTyped, FS_AddElement DEF Types
  <2> QED BY <1>1, <1>3, <2>1 DEF Types, Drafts, Aimed
<1> QED BY <1>2, <1>3

\* What PROMOTE does with one draft: it leaves the chain alone, or it appends
\* the update its decision calls for; only then is the promotion applied.
LEMMA PromoteEffect ==
  ASSUME Types, NEW f \in Findings, Promote(f)
  PROVE  /\ f \in Drafts /\ pc = "promote"
         /\ \/ UNCHANGED chain
            \/ /\ ~ Settled(f) /\ Decision(f).rule # "R6"
               /\ chain' = Append(chain, Update(f, Decision(f)))
         /\ \/ UNCHANGED promotions
            \/ \E p \in Proms :
                 /\ promotions' = promotions \cup {p}
                 /\ p.fid = f /\ p.rule = Decision(f).rule
                 /\ p.applied => chain' = Append(chain, Update(f, Decision(f)))
         /\ faults' \in 0..MaxFaults /\ faults' >= faults
<1>1. /\ f \in Drafts /\ pc = "promote" /\ Decision(f).rule \in Rules
      /\ faults \in 0..MaxFaults /\ MaxFaults \in Nat
  BY DecisionTyped, LimitsAssumption DEF Types, Promote
<1> DEFINE P(a, e) == [fid |-> f, rule |-> Decision(f).rule, applied |-> a, error |-> e]
<1>2. \A a, e \in BOOLEAN :
        P(a, e) \in Proms /\ P(a, e).fid = f /\ P(a, e).rule = Decision(f).rule
          /\ P(a, e).applied = a
  BY <1>1 DEF Proms
<1>3. CASE Settled(f) /\ UNCHANGED <<chain, promotions, faults>>
  BY <1>1, <1>3
<1>4. CASE Decision(f).rule = "R6" /\ Recorded(f, Decision(f), FALSE, FALSE)
           /\ UNCHANGED <<chain, faults>>
  <2>1. P(FALSE, FALSE) \in Proms /\ promotions' = promotions \cup {P(FALSE, FALSE)}
    BY <1>2, <1>4 DEF Recorded
  <2>2. PICK p \in Proms : promotions' = promotions \cup {p} /\ p = P(FALSE, FALSE)
    BY <2>1
  <2>3. p.fid = f /\ p.rule = Decision(f).rule /\ ~ p.applied
    BY <2>2
  <2>4. faults' \in 0..MaxFaults /\ faults' >= faults
    BY <1>1, <1>4
  <2>5. UNCHANGED chain
    BY <1>4
  <2> QED BY <1>1, <2>2, <2>3, <2>4, <2>5
<1>5. CASE ~Settled(f) /\ Decision(f).rule # "R6" /\ Outcome(f, Decision(f))
  <2>1. /\ P(TRUE, FALSE) \in Proms /\ P(FALSE, TRUE) \in Proms
        /\ \/ promotions' = promotions \cup {P(FALSE, TRUE)}
           \/ /\ promotions' = promotions \cup {P(TRUE, FALSE)}
              /\ chain' = Append(chain, Update(f, Decision(f)))
    BY <1>2, <1>5 DEF Recorded, Outcome
  <2>2. faults' \in 0..MaxFaults /\ faults' >= faults
    <3>1. faults' = faults \/ (faults < MaxFaults /\ faults' = faults + 1)
      BY <1>5 DEF Outcome
    <3> QED BY <1>1, <3>1
  <2>3. \/ UNCHANGED chain
        \/ chain' = Append(chain, Update(f, Decision(f)))
    BY <1>5 DEF Outcome
  <2>4. P(FALSE, TRUE).applied = FALSE
    OBVIOUS
  <2> HIDE DEF P
  <2> QED BY <1>1, <1>2, <1>5, <2>1, <2>2, <2>3, <2>4
<1> QED BY <1>3, <1>4, <1>5 DEF Promote

LEMMA PromoteTypes ==
  ASSUME Types, NEW f \in Findings, Promote(f), UNCHANGED multiHost
  PROVE  Types'
<1>1. f \in Drafts /\ faults' \in 0..MaxFaults
  BY PromoteEffect
<1>2. promotions' \subseteq Proms
  BY PromoteEffect DEF Types
<1>3. chain' \in Seq(Entry) /\ Drafts \subseteq Drafts'
  <2>1. CASE UNCHANGED chain
    BY <2>1 DEF Types, Drafts
  <2>2. CASE chain' = Append(chain, Update(f, Decision(f)))
    BY <1>1, <2>2, UpdateTyped, Appended
  <2> QED BY <2>1, <2>2, PromoteEffect
<1> QED BY <1>1, <1>2, <1>3 DEF Promote, Types, Aimed

\* The units a follow-up names, or all.
LEMMA NextUnitsTyped == ASSUME Types PROVE NextUnits \subseteq Units
<1> DEFINE asked == {c.to : c \in Followups(NewCorrelations)}
<1>1. \A c \in Followups(NewCorrelations) : c.to \in Units \/ (multiHost /\ c.to = "all")
  BY DEF Types, Followups, NewCorrelations, Aimed
<1>2. CASE ~ multiHost
  BY <1>1, <1>2 DEF NextUnits
<1>3. CASE multiHost
  <2>1. NextUnits = IF asked = {} \/ "all" \in asked THEN Units ELSE asked
    BY <1>3 DEF NextUnits
  <2> QED BY <1>1, <2>1
<1> QED BY <1>2, <1>3

LEMMA RecordTyped ==
  ASSUME Types
  PROVE  /\ IterationRecord \in Iterations
         /\ IterationRecord.number = iteration /\ IterationRecord.added = added
         /\ IterationRecord.promotions = promotions /\ IterationRecord.disputed = Disputed
         /\ IterationRecord.next = NextUnits
<1>1. Flag \in Flags /\ NewCorrelations \subseteq Corrs /\ Disputed \subseteq Findings
  BY EntryTyped DEF Flag, Flags, NewCorrelations, Disputed, Types
<1>2. NextUnits \subseteq Units
  BY NextUnitsTyped
<1> QED BY <1>1, <1>2 DEF Types, IterationRecord, Iterations

LEMMA PlanTypes ==
  ASSUME Types, PlanAndWrite, UNCHANGED multiHost
  PROVE  Types'
<1>1. records' \in Seq(Iterations)
  <2>1. records' = Append(records, IterationRecord) /\ records \in Seq(Iterations)
    BY DEF PlanAndWrite, Types
  <2> QED BY <2>1, RecordTyped
<1>2. CASE pc' = "done" /\ UNCHANGED <<iteration, prior, waiting, before>>
  BY <1>1, <1>2 DEF PlanAndWrite, chainVars, Types, Drafts, Aimed
<1>3. CASE Flag = "" /\ NextIteration
  <2>1. iteration' \in 1..MaxIterations
    <3>1. ~ FlagMax /\ iteration' = iteration + 1
      BY <1>3 DEF NextIteration, Flag
    <3>2. iteration \in 1..MaxIterations /\ MaxIterations \in Nat
      BY LimitsAssumption DEF Types
    <3>3. ~ (iteration >= MaxIterations)
      BY <3>1 DEF FlagMax
    <3> QED BY <3>1, <3>2, <3>3
  <2>2. before' = [drafts |-> Drafts, corrs |-> before.corrs]
    BY <1>3 DEF NextIteration, Types
  <2>3. before' \in [drafts : SUBSET Findings, corrs : SUBSET corrs']
    BY <2>2, EntryTyped DEF PlanAndWrite, chainVars, Types
  <2>4. waiting' \subseteq Units /\ prior' \subseteq Findings
    BY <1>3, NextUnitsTyped, EntryTyped DEF NextIteration, Disputed
  <2>5. pc' = "analyze"
    BY <1>3 DEF NextIteration
  <2> QED BY <1>1, <2>1, <2>3, <2>4, <2>5 DEF PlanAndWrite, chainVars, Types, Drafts, Aimed
<1> QED BY <1>2, <1>3 DEF PlanAndWrite, Finish

LEMMA TypesStep == ASSUME Types, [Next]_vars PROVE Types'
<1>1. CASE UNCHANGED vars
  BY <1>1 DEF vars, chainVars, stepVars, Types, Drafts, Aimed
<1>2. CASE Step
  BY <1>2, DispatchTypes, EndAnalyzeTypes, EndCorrelateTypes, PromoteTypes, PlanTypes DEF Step
<1>3. CASE Call
  BY <1>3, CorrelateTypes, LateTypes DEF Call
<1> QED BY <1>1, <1>2, <1>3 DEF Next

-----------------------------------------------------------------------------
(* The iterations chain: one record per iteration that was finished. *)

\* The reason of a run that goes on.
Open(why) == why = ""

Counted ==
  /\ Len(records) = iteration - (IF pc = "done" THEN 0 ELSE 1)
  /\ \A n \in DOMAIN records : records[n].number = n
  /\ pc = "done" <=> ~ Open(reason)

\* What a record appended to the iterations chain changes.
LEMMA Written ==
  ASSUME Types, Counted, PlanAndWrite
  PROVE  /\ pc = "promote" /\ todo = {} /\ Open(reason)
         /\ iteration \in Nat /\ iteration >= 1 /\ Len(records) = iteration - 1
         /\ DOMAIN records = 1..(iteration - 1) /\ DOMAIN records' = 1..iteration
         /\ Len(records') = iteration
         /\ \A n \in DOMAIN records : records'[n] = records[n]
         /\ records'[iteration] = IterationRecord
         /\ UNCHANGED <<chain, corrs, added, seen, todo, promotions, tokens, late, faults>>
         /\ \/ /\ pc' = "done" /\ reason' \in {Flag, "no_followup_pending"} /\ ~ Open(reason')
               /\ UNCHANGED <<iteration, prior, waiting, before>>
            \/ /\ pc' = "analyze" /\ iteration' = iteration + 1 /\ prior' = Disputed
               /\ UNCHANGED reason /\ before'.drafts = Drafts /\ before'.corrs = before.corrs
<1>1. pc = "promote" /\ todo = {} /\ records' = Append(records, IterationRecord)
  BY DEF PlanAndWrite
<1>2. iteration \in Nat /\ iteration >= 1 /\ Len(records) = iteration - 1 /\ Open(reason)
  <2>1. iteration \in Nat /\ iteration >= 1
    BY LimitsAssumption DEF Types
  <2>2. pc # "done"
    BY <1>1
  <2> QED BY <2>1, <2>2 DEF Counted
<1>3. /\ DOMAIN records = 1..(iteration - 1) /\ DOMAIN records' = 1..iteration
      /\ Len(records') = iteration
      /\ \A n \in DOMAIN records : records'[n] = records[n]
      /\ records'[iteration] = IterationRecord
  <2>1. records \in Seq(Iterations) /\ IterationRecord \in Iterations
    BY RecordTyped DEF Types
  <2>2. DOMAIN records = 1..Len(records) /\ Len(records) = iteration - 1
    BY <1>2, <2>1, LenProperties
  <2>3. /\ Len(records') = Len(records) + 1
        /\ records'[Len(records) + 1] = IterationRecord
        /\ \A n \in 1..Len(records) : records'[n] = records[n]
        /\ records' \in Seq(Iterations)
    BY <1>1, <2>1, AppendProperties
  <2>4. DOMAIN records' = 1..Len(records')
    BY <2>3, LenProperties
  <2>5. Len(records) + 1 = iteration
    BY <1>2, <2>2
  <2> QED BY <2>2, <2>3, <2>4, <2>5
<1>4. before \in [drafts : SUBSET Findings, corrs : SUBSET corrs]
  BY DEF Types
<1>5. UNCHANGED <<chain, corrs, added, seen, todo, promotions, tokens, late, faults>>
  BY DEF PlanAndWrite, chainVars
<1>6. \/ Finish(Flag) /\ ~ Open(Flag)
      \/ Finish("no_followup_pending") /\ ~ Open("no_followup_pending")
      \/ NextIteration
  BY Zenon DEF PlanAndWrite, Open
<1>7. \/ /\ pc' = "done" /\ reason' \in {Flag, "no_followup_pending"} /\ ~ Open(reason')
         /\ UNCHANGED <<iteration, prior, waiting, before>>
      \/ /\ pc' = "analyze" /\ iteration' = iteration + 1 /\ prior' = Disputed
         /\ UNCHANGED reason /\ before'.drafts = Drafts /\ before'.corrs = before.corrs
  BY <1>4, <1>6 DEF Finish, NextIteration
<1> QED BY <1>1, <1>2, <1>3, <1>5, <1>7

\* The other steps write no record and keep the iteration.
LEMMA Unwritten ==
  ASSUME [Next]_vars, ~ PlanAndWrite
  PROVE  /\ UNCHANGED <<multiHost, records, iteration, prior, reason>>
         /\ (pc = "done") <=> (pc' = "done")
  BY DEF vars, chainVars, stepVars, Next, Step, Call, DispatchAnalyst, EndAnalyze, EndCorrelate,
         StartPromote, Promote, Correlate, LateCall

LEMMA CountedStep == ASSUME Types, Counted, [Next]_vars PROVE Counted'
<1>1. CASE PlanAndWrite
  <2>1. \A n \in DOMAIN records' : records'[n].number = n
    <3>1. IterationRecord.number = iteration
      BY RecordTyped
    <3>2. ASSUME NEW n \in DOMAIN records' PROVE n \in DOMAIN records \/ n = iteration
      BY <1>1, Written
    <3> QED BY <1>1, <3>1, <3>2, Written DEF Counted
  <2>2. CASE pc' = "done" /\ ~ Open(reason') /\ UNCHANGED iteration
    BY <1>1, <2>1, <2>2, Written DEF Counted
  <2>3. CASE pc' = "analyze" /\ iteration' = iteration + 1 /\ UNCHANGED reason
    BY <1>1, <2>1, <2>3, Written DEF Counted
  <2> QED BY <1>1, <2>2, <2>3, Written
<1>2. CASE ~ PlanAndWrite
  BY <1>2, Unwritten DEF Counted
<1> QED BY <1>1, <1>2

\* What the last iterations found disputed is what R_b compares.
Remembered == pc # "done" /\ iteration > 1 => records[iteration - 1].disputed = prior

LEMMA StalemateStep ==
  ASSUME Types, Counted, Remembered, StalemateIsReal, [Next]_vars
  PROVE  Remembered' /\ StalemateIsReal'
<1>1. CASE PlanAndWrite
  <2>1. records'[iteration].disputed = Disputed
    BY <1>1, Written, RecordTyped
  <2>2. Remembered'
    <3>1. CASE pc' = "done"
      BY <3>1 DEF Remembered
    <3>2. CASE iteration' = iteration + 1 /\ prior' = Disputed
      <4>1. iteration' - 1 = iteration
        BY <1>1, <3>2, Written
      <4> QED BY <2>1, <3>2, <4>1 DEF Remembered
    <3> QED BY <1>1, <3>1, <3>2, Written
  <2>3. ASSUME reason' = "R_b" PROVE iteration > 1 /\ prior = Disputed /\ Disputed # {}
    <3>1. Flag = "R_b"
      <4>1. ~ Open("R_b")
        BY Zenon DEF Open
      <4> QED BY <1>1, <2>3, <4>1, Written
    <3> QED BY <3>1 DEF Flag, FlagB
  <2>4. ASSUME reason' = "R_b"
        PROVE  /\ Len(records') >= 2 /\ records'[Len(records')].disputed # {}
               /\ records'[Len(records')].disputed = records'[Len(records') - 1].disputed
    <3>1. iteration > 1 /\ prior = Disputed /\ Disputed # {}
      BY <2>3, <2>4
    <3>2. iteration \in Nat /\ Len(records') = iteration /\ iteration - 1 \in DOMAIN records
      BY <1>1, <3>1, Written
    <3>3. records'[iteration - 1].disputed = prior
      BY <1>1, <3>1, <3>2, Written DEF Remembered
    <3> QED BY <2>1, <3>1, <3>2, <3>3
  <2> QED BY <2>2, <2>4 DEF StalemateIsReal
<1>2. CASE ~ PlanAndWrite
  BY <1>2, Unwritten DEF Remembered, StalemateIsReal
<1> QED BY <1>1, <1>2

-----------------------------------------------------------------------------
(* The findings chain: a draft is a finding's first record, the record that *)
(* confirms it its last.                                                    *)

IsDraft(e) == e.kind = "draft" /\ e.state = "DRAFT" /\ e.rule = "none"

History ==
  \A k \in DOMAIN chain :
    /\ chain[k].fid \in Drafts /\ chain[k].iter <= iteration
    /\ chain[k].kind = "draft" => IsDraft(chain[k])
    /\ chain[k].rule = "R5" => chain[k].state = "CONFIRMED"

Final ==
  \A j, k \in DOMAIN chain :
    chain[j].state = "CONFIRMED" /\ chain[k].fid = chain[j].fid => k <= j

LateDrafts == {l \in late : l.tool = "record_finding"}

InFlight ==
  /\ \A l \in LateDrafts :
       IsDraft(l.record) /\ l.record.fid \notin Drafts /\ l.record.iter <= iteration
  /\ \A l, m \in LateDrafts : l.record.fid = m.record.fid => l = m

\* The steps by what they do to the chain and to what is in flight.
ChainIdle == UNCHANGED <<chain, late>> /\ iteration' >= iteration
ChainDraft ==
  \E f \in Fresh, level \in FirstLevels :
    /\ pc = "analyze" /\ chain' = Append(chain, Draft(f, level))
    /\ UNCHANGED <<late, faults, iteration, pc>>
ChainLoses ==
  /\ UNCHANGED <<chain, iteration>> /\ faults' = faults + 1
  /\ \/ \E f \in Fresh, level \in FirstLevels :
          late' = late \cup {[tool |-> "record_finding", record |-> Draft(f, level)]}
     \/ \E c \in Correlation :
          late' = late \cup {[tool |-> "record_correlation", record |-> c]}
ChainLands ==
  \E l \in late :
    /\ late' = late \ {l} /\ UNCHANGED <<iteration, pc, faults>>
    /\ \/ l.tool = "record_finding" /\ chain' = Append(chain, l.record)
       \/ l.tool = "record_correlation" /\ UNCHANGED chain
ChainDecides ==
  \E f \in Drafts :
    /\ pc = "promote" /\ ~ Settled(f) /\ Decision(f).rule # "R6"
    /\ chain' = Append(chain, Update(f, Decision(f)))
    /\ UNCHANGED <<late, iteration, pc>>

LEMMA ChainSteps ==
  ASSUME Types, Counted, [Next]_vars
  PROVE  ChainIdle \/ ChainDraft \/ ChainLoses \/ ChainLands \/ ChainDecides
<1>1. iteration \in Nat
  BY DEF Types
<1>2. CASE UNCHANGED vars
  BY <1>1, <1>2 DEF vars, chainVars, ChainIdle
<1>3. ASSUME NEW u \in Units, DispatchAnalyst(u) PROVE ChainIdle \/ ChainDraft \/ ChainLoses
  BY <1>1, <1>3 DEF DispatchAnalyst, ChainIdle, ChainDraft, ChainLoses
<1>4. CASE EndAnalyze
  BY <1>1, <1>4 DEF EndAnalyze, chainVars, ChainIdle
<1>5. CASE EndCorrelate
  BY <1>1, <1>5 DEF EndCorrelate, chainVars, ChainIdle, ChainLoses
<1>6. ASSUME NEW f \in Findings, Promote(f) PROVE ChainIdle \/ ChainDecides
  <2>1. UNCHANGED <<late, iteration, pc>>
    BY <1>6 DEF Promote
  <2> QED BY <1>1, <1>6, <2>1, PromoteEffect DEF ChainIdle, ChainDecides
<1>7. CASE PlanAndWrite
  BY <1>1, <1>7, Written DEF ChainIdle
<1>8. ASSUME NEW c, Correlate(c) PROVE ChainIdle
  BY <1>1, <1>8 DEF Correlate, ChainIdle
<1>9. ASSUME NEW l \in late, LateCall(l) PROVE ChainLands
  BY <1>9 DEF LateCall, ChainLands
<1> QED BY <1>2, <1>3, <1>4, <1>5, <1>6, <1>7, <1>8, <1>9 DEF Next, Step, Call

\* Drafts of new findings, and updates of findings that are not confirmed.
LEMMA AppendKeeps ==
  ASSUME Types, History, Final, NEW e \in Entry, chain' = Append(chain, e),
         iteration' = iteration, e.iter <= iteration,
         \/ IsDraft(e) /\ e.fid \notin Drafts
         \/ /\ e.kind = "update" /\ e.fid \in Drafts /\ (e.rule = "R5" => e.state = "CONFIRMED")
            /\ \A k \in DOMAIN chain : chain[k].fid = e.fid => chain[k].state # "CONFIRMED"
  PROVE  History' /\ Final' /\ Drafts \subseteq Drafts'
<1>1. /\ DOMAIN chain' = DOMAIN chain \cup {Len(chain) + 1} /\ Len(chain) \in Nat
      /\ \A k \in DOMAIN chain : chain'[k] = chain[k] /\ k <= Len(chain)
      /\ chain'[Len(chain) + 1] = e
      /\ Drafts' = Drafts \cup {f \in {e.fid} : e.kind = "draft"}
  BY Appended
<1>2. DOMAIN chain \subseteq Nat
  BY DEF Types
<1>3. History'
  BY <1>1 DEF History, IsDraft
<1>4. Final'
  <2> SUFFICES ASSUME NEW j \in DOMAIN chain', NEW k \in DOMAIN chain',
                      chain'[j].state = "CONFIRMED", chain'[k].fid = chain'[j].fid
               PROVE  k <= j
    BY DEF Final
  <2>1. CASE j = Len(chain) + 1
    BY <1>1, <1>2, <2>1
  <2>2. CASE j \in DOMAIN chain /\ k \in DOMAIN chain
    BY <1>1, <2>2 DEF Final
  <2>3. CASE j \in DOMAIN chain /\ k = Len(chain) + 1
    <3>1. chain[j].state = "CONFIRMED" /\ chain[j].fid = e.fid /\ chain[j].fid \in Drafts
      BY <1>1, <2>3 DEF History
    <3> QED BY <3>1
  <2> QED BY <1>1, <2>1, <2>2, <2>3
<1> QED BY <1>1, <1>3, <1>4

\* A draft that is not settled has not been confirmed.
LEMMA UnsettledIsDraft ==
  ASSUME Types, Final, NEW f \in Drafts, ~ Settled(f)
  PROVE  \A k \in DOMAIN chain : chain[k].fid = f => chain[k].state # "CONFIRMED"
<1>1. PICK m \in DOMAIN chain :
        /\ StateOf(f) = chain[m] /\ chain[m].fid = f
        /\ \A k \in DOMAIN chain : chain[k].fid = f => k <= m
  BY StateIsOnChain
<1>2. chain[m].state # "CONFIRMED"
  BY <1>1 DEF Settled
<1>3. ASSUME NEW k \in DOMAIN chain, chain[k].fid = f, chain[k].state = "CONFIRMED"
      PROVE  FALSE
  <2>1. m <= k /\ k <= m /\ m \in Nat /\ k \in Nat
    BY <1>1, <1>3 DEF Final, Types
  <2>2. m = k
    BY <2>1
  <2> QED BY <1>2, <1>3, <2>2
<1> QED BY <1>3

LEMMA FreshUnused ==
  ASSUME Types, NEW f \in Fresh
  PROVE  f \in Findings /\ f \notin Drafts /\ \A l \in LateDrafts : l.record.fid # f
  BY DEF Fresh, LateDrafts

LEMMA DraftIsDraft ==
  ASSUME Types, NEW f \in Findings, NEW level \in FirstLevels
  PROVE  IsDraft(Draft(f, level)) /\ Draft(f, level).fid = f /\ Draft(f, level).iter <= iteration
  BY DEF Types, IsDraft, Draft

\* What PROMOTE appends.
LEMMA UpdateIsUpdate ==
  ASSUME Types, NEW f \in Drafts
  PROVE  /\ Update(f, Decision(f)).kind = "update" /\ Update(f, Decision(f)).fid = f
         /\ Update(f, Decision(f)).iter = iteration
         /\ Update(f, Decision(f)).rule = Decision(f).rule
         /\ Update(f, Decision(f)).state = StateAfter(Decision(f).rule)
         /\ Decision(f).rule = Rule(StateOf(f).conf, Naming(f, seen), iteration - 1)
  BY DEF Update, Decision, promote

LEMMA HistoryStep ==
  ASSUME Types, Counted, History, Final, InFlight, [Next]_vars
  PROVE  History' /\ Final' /\ InFlight' /\ Drafts \subseteq Drafts'
<1>0. /\ iteration \in Nat
      /\ \A k \in DOMAIN chain : chain[k] \in Entry /\ chain[k].iter \in Nat
      /\ \A l \in LateDrafts : l.record \in Entry /\ l.record.iter \in Nat
  <2>1. \A e \in Entry : e.iter \in Nat
    BY LimitsAssumption DEF Entry
  <2>2. \A k \in DOMAIN chain : chain[k] \in Entry
    BY EntryTyped
  <2>3. \A l \in LateDrafts : l.record \in Entry
    BY LateTyped DEF LateDrafts
  <2>4. iteration \in Nat
    BY DEF Types
  <2> QED BY <2>1, <2>2, <2>3, <2>4
<1>1. CASE ChainIdle
  <2>1. Drafts' = Drafts /\ LateDrafts' = LateDrafts
    BY <1>1 DEF ChainIdle, Drafts, LateDrafts
  <2>2. iteration' \in Nat /\ iteration' >= iteration
    BY <1>1, TypesStep DEF ChainIdle, Types
  <2> QED BY <1>0, <1>1, <2>1, <2>2 DEF ChainIdle, History, Final, InFlight
<1>2. CASE ChainDraft
  <2>1. PICK f \in Fresh, level \in FirstLevels : chain' = Append(chain, Draft(f, level))
    BY <1>2 DEF ChainDraft
  <2>2. /\ Draft(f, level) \in Entry /\ Draft(f, level).fid \notin Drafts
        /\ \A l \in LateDrafts : l.record.fid # f
    BY DraftTyped, FreshUnused
  <2>3. History' /\ Final' /\ Drafts' = Drafts \cup {f}
    <3>1. iteration' = iteration /\ f \in Findings
      BY <1>2, FreshUnused DEF ChainDraft
    <3>2. History' /\ Final'
      BY <2>1, <2>2, <3>1, DraftIsDraft, AppendKeeps
    <3>3. Drafts' = Drafts \cup {g \in {Draft(f, level).fid} : Draft(f, level).kind = "draft"}
      BY <2>1, <2>2, Appended
    <3> QED BY <3>1, <3>2, <3>3, DraftTyped
  <2> QED BY <1>2, <2>2, <2>3 DEF ChainDraft, InFlight, LateDrafts
<1>3. CASE ChainLoses
  <2>1. Drafts' = Drafts /\ UNCHANGED <<chain, iteration>>
    BY <1>3 DEF ChainLoses, Drafts
  <2>2. ASSUME NEW f \in Fresh, NEW level \in FirstLevels,
               late' = late \cup {[tool |-> "record_finding", record |-> Draft(f, level)]}
        PROVE  InFlight'
    <3> DEFINE new == [tool |-> "record_finding", record |-> Draft(f, level)]
    <3>1. LateDrafts' = LateDrafts \cup {new} /\ new.record = Draft(f, level)
      BY <2>2 DEF LateDrafts
    <3>2. /\ IsDraft(Draft(f, level)) /\ Draft(f, level).fid = f /\ f \notin Drafts
          /\ Draft(f, level).iter <= iteration /\ \A l \in LateDrafts : l.record.fid # f
      BY DraftIsDraft, FreshUnused
    <3> HIDE DEF new
    <3> QED BY <2>1, <3>1, <3>2 DEF InFlight
  <2>3. ASSUME NEW c \in Correlation,
               late' = late \cup {[tool |-> "record_correlation", record |-> c]}
        PROVE  InFlight'
    <3>1. LateDrafts' = LateDrafts
      BY <2>3 DEF LateDrafts
    <3> QED BY <2>1, <3>1 DEF InFlight
  <2> QED BY <1>3, <2>1, <2>2, <2>3 DEF ChainLoses, History, Final
<1>4. CASE ChainLands
  <2>1. PICK l \in late : /\ late' = late \ {l} /\ UNCHANGED iteration
                          /\ \/ l.tool = "record_finding" /\ chain' = Append(chain, l.record)
                             \/ l.tool = "record_correlation" /\ UNCHANGED chain
    BY <1>4 DEF ChainLands
  <2>2. CASE l.tool = "record_finding" /\ chain' = Append(chain, l.record)
    <3>1. l \in LateDrafts /\ l.record \in Entry /\ LateDrafts' = LateDrafts \ {l}
      BY <1>0, <2>1, <2>2 DEF LateDrafts
    <3>2. History' /\ Final' /\ Drafts' = Drafts \cup {g \in {l.record.fid} : l.record.kind = "draft"}
      BY <2>1, <2>2, <3>1, AppendKeeps, Appended DEF InFlight
    <3> QED BY <2>1, <3>1, <3>2 DEF InFlight
  <2>3. CASE l.tool = "record_correlation" /\ UNCHANGED chain
    <3>1. LateDrafts' = LateDrafts /\ Drafts' = Drafts
      BY <2>1, <2>3 DEF LateDrafts, Drafts
    <3> QED BY <2>1, <2>3, <3>1 DEF History, Final, InFlight
  <2> QED BY <2>1, <2>2, <2>3
<1>5. CASE ChainDecides
  <2>1. PICK f \in Drafts : ~ Settled(f) /\ chain' = Append(chain, Update(f, Decision(f)))
                            /\ UNCHANGED <<late, iteration>>
    BY <1>5 DEF ChainDecides
  <2>2. /\ Update(f, Decision(f)) \in Entry /\ Update(f, Decision(f)).kind = "update"
        /\ Update(f, Decision(f)).fid = f /\ Update(f, Decision(f)).iter <= iteration
        /\ Update(f, Decision(f)).rule = "R5" => Update(f, Decision(f)).state = "CONFIRMED"
    BY <1>0, UpdateTyped, UpdateIsUpdate DEF StateAfter
  <2>3. \A k \in DOMAIN chain : chain[k].fid = f => chain[k].state # "CONFIRMED"
    BY <2>1, UnsettledIsDraft
  <2>4. History' /\ Final' /\ Drafts' = Drafts
          \cup {g \in {f} : Update(f, Decision(f)).kind = "draft"}
    BY <2>1, <2>2, <2>3, AppendKeeps, Appended
  <2>5. Drafts' = Drafts
    BY <2>2, <2>4
  <2> QED BY <2>1, <2>4, <2>5 DEF InFlight, LateDrafts
<1> QED BY <1>1, <1>2, <1>3, <1>4, <1>5, ChainSteps

LEMMA OnceFromFinal ==
  ASSUME Types, Final
  PROVE  ConfirmedOnce
<1> SUFFICES ASSUME NEW f \in Findings
             PROVE  Cardinality({k \in DOMAIN chain :
                                   chain[k].fid = f /\ chain[k].state = "CONFIRMED"}) <= 1
  BY DEF ConfirmedOnce
<1> DEFINE S == {k \in DOMAIN chain : chain[k].fid = f /\ chain[k].state = "CONFIRMED"}
<1>1. \A j, k \in S : j = k
  <2>1. DOMAIN chain \subseteq Nat
    BY DEF Types
  <2>2. ASSUME NEW j \in S, NEW k \in S PROVE j = k
    <3>1. j \in Nat /\ k \in Nat /\ j <= k /\ k <= j
      BY <2>1 DEF Final
    <3> QED BY <3>1
  <2> QED BY <2>2
<1>2. CASE S = {}
  BY <1>2, FS_EmptySet
<1>3. CASE S # {}
  <2>1. PICK j \in S : TRUE
    BY <1>3
  <2>2. S = {j}
    BY <1>1, <2>1
  <2>3. Cardinality(S) = 1
    BY <2>2, FS_Singleton
  <2> QED BY <2>3
<1> QED BY <1>2, <1>3

-----------------------------------------------------------------------------
(* What the records say was applied is on the findings chain. *)

OnChain(p, n) ==
  \E k \in DOMAIN chain :
    /\ chain[k].fid = p.fid /\ chain[k].kind = "update" /\ chain[k].iter = n
    /\ chain[k].rule = p.rule

AppliedNow == pc = "promote" => \A p \in promotions : p.applied => OnChain(p, iteration)

LEMMA ChainGrows ==
  ASSUME Types, Counted, [Next]_vars
  PROVE  \A k \in DOMAIN chain : k \in DOMAIN chain' /\ chain'[k] = chain[k]
<1>1. CASE UNCHANGED chain
  BY <1>1
<1>2. ASSUME NEW e \in Entry, chain' = Append(chain, e)
      PROVE  \A k \in DOMAIN chain : k \in DOMAIN chain' /\ chain'[k] = chain[k]
  BY <1>2, Appended
<1>3. \A f \in Fresh : \A level \in FirstLevels : Draft(f, level) \in Entry
  BY DraftTyped DEF Fresh
<1>4. \A l \in late : l.tool = "record_finding" => l.record \in Entry
  BY LateTyped
<1>5. \A f \in Drafts : Update(f, Decision(f)) \in Entry
  BY UpdateTyped
<1> QED BY <1>1, <1>2, <1>3, <1>4, <1>5, ChainSteps
        DEF ChainIdle, ChainDraft, ChainLoses, ChainLands, ChainDecides

LEMMA PromotionSteps ==
  ASSUME [Next]_vars
  PROVE  \/ promotions' = {}
         \/ UNCHANGED promotions /\ (pc' = "promote" => pc = "promote")
         \/ \E f \in Findings : Promote(f)
  BY DEF vars, stepVars, chainVars, Next, Step, Call, DispatchAnalyst, EndAnalyze, EndCorrelate,
         StartPromote, PlanAndWrite, Finish, NextIteration, Correlate, LateCall

LEMMA AppliedStep ==
  ASSUME Types, Counted, AppliedNow, AppliedIsOnChain, [Next]_vars
  PROVE  AppliedNow' /\ AppliedIsOnChain'
<1>1. ASSUME NEW p, NEW n, OnChain(p, n)
      PROVE  \E k \in DOMAIN chain' :
               /\ chain'[k].fid = p.fid /\ chain'[k].kind = "update" /\ chain'[k].iter = n
               /\ chain'[k].rule = p.rule
  <2>1. PICK k \in DOMAIN chain : /\ chain[k].fid = p.fid /\ chain[k].kind = "update"
                                  /\ chain[k].iter = n /\ chain[k].rule = p.rule
    BY <1>1 DEF OnChain
  <2> QED BY <2>1, ChainGrows
<1>2. CASE PlanAndWrite
  <2>1. AppliedNow'
    BY <1>2, Written DEF AppliedNow
  <2>2. ASSUME NEW n \in DOMAIN records', NEW p \in records'[n].promotions, p.applied
        PROVE  \E k \in DOMAIN chain :
                 /\ chain[k].fid = p.fid /\ chain[k].kind = "update"
                 /\ chain[k].iter = records'[n].number /\ chain[k].rule = p.rule
    <3>1. CASE n \in DOMAIN records
      BY <1>2, <2>2, <3>1, Written DEF AppliedIsOnChain
    <3>2. CASE n = iteration
      <4>1. p \in promotions /\ records'[n].number = iteration /\ pc = "promote"
        BY <1>2, <2>2, <3>2, Written, RecordTyped
      <4> QED BY <2>2, <4>1 DEF AppliedNow, OnChain
    <3> QED BY <1>2, <3>1, <3>2, Written
  <2>3. UNCHANGED chain
    BY <1>2, Written
  <2> QED BY <2>1, <2>2, <2>3 DEF AppliedIsOnChain
<1>3. CASE ~ PlanAndWrite
  <2>1. UNCHANGED <<records, iteration>>
    BY <1>3, Unwritten
  <2>2. AppliedIsOnChain'
    <3>1. \A n \in DOMAIN records : \A p \in records[n].promotions :
            p.applied => OnChain(p, records[n].number)
      BY DEF AppliedIsOnChain, OnChain
    <3> QED BY <1>1, <2>1, <3>1 DEF AppliedIsOnChain
  <2>3. CASE UNCHANGED promotions /\ (pc' = "promote" => pc = "promote")
    <3>1. CASE pc' = "promote"
      <4>1. \A p \in promotions : p.applied => OnChain(p, iteration)
        BY <2>3, <3>1 DEF AppliedNow
      <4>2. \A p \in promotions : p.applied => OnChain(p, iteration)'
        BY <1>1, <2>1, <4>1 DEF OnChain
      <4> QED BY <2>2, <2>3, <4>2 DEF AppliedNow
    <3>2. CASE pc' # "promote"
      BY <2>2, <3>2 DEF AppliedNow
    <3> QED BY <3>1, <3>2
  <2>4. ASSUME NEW f \in Findings, Promote(f) PROVE AppliedNow'
    <3>1. pc = "promote" /\ f \in Drafts
      BY <2>4, PromoteEffect
    <3>2. CASE UNCHANGED promotions
      BY <1>1, <2>1, <3>1, <3>2 DEF AppliedNow, OnChain
    <3>3. ASSUME NEW p \in Proms, promotions' = promotions \cup {p}, p.fid = f,
                 p.rule = Decision(f).rule,
                 p.applied => chain' = Append(chain, Update(f, Decision(f)))
          PROVE  AppliedNow'
      <4>1. ASSUME p.applied PROVE OnChain(p, iteration)'
        <5>1. Len(chain) + 1 \in DOMAIN chain' /\ chain'[Len(chain) + 1] = Update(f, Decision(f))
          BY <3>1, <3>3, <4>1, UpdateTyped, Appended
        <5> QED BY <2>1, <3>1, <3>3, <5>1, UpdateIsUpdate DEF OnChain
      <4>2. \A q \in promotions : q.applied => OnChain(q, iteration)'
        BY <1>1, <2>1, <3>1 DEF AppliedNow, OnChain
      <4> QED BY <3>3, <4>1, <4>2 DEF AppliedNow
    <3> QED BY <2>4, <3>2, <3>3, PromoteEffect
  <2>5. CASE promotions' = {}
    <3>1. \A p \in promotions' : FALSE
      BY <2>5
    <3> QED BY <2>2, <3>1 DEF AppliedNow
  <2> QED BY <2>2, <2>3, <2>4, <2>5, PromotionSteps
<1> QED BY <1>2, <1>3

-----------------------------------------------------------------------------
(* The deltas of the iterations partition the drafts.                       *)

Deltas ==
  /\ before.drafts \subseteq Drafts /\ added \subseteq Drafts
  /\ pc # "done" => \A n \in DOMAIN records : records[n].added \subseteq before.drafts
  /\ pc \in {"correlate", "promote"} => added \cap before.drafts = {}
  /\ \A m, n \in DOMAIN records : m # n => records[m].added \cap records[n].added = {}

InRecords(f) == \E n \in DOMAIN records : f \in records[n].added

\* Without a killed dispatch no draft escapes them.
Complete ==
  Undisturbed =>
    /\ late = {}
    /\ pc # "done" => \A f \in before.drafts : InRecords(f)
    /\ pc \in {"correlate", "promote"} => Drafts \subseteq before.drafts \cup added
    /\ \A k \in DOMAIN chain :
         chain[k].kind = "draft" /\ chain[k].iter <= Len(records) => InRecords(chain[k].fid)

\* The steps that take no snapshot.
LEMMA NoSnapshot ==
  ASSUME Types, [Next]_vars, ~ EndAnalyze, ~ PlanAndWrite
  PROVE  /\ UNCHANGED <<added, records, iteration, reason>> /\ before' = before
         /\ pc' \in {"correlate", "promote"} => pc \in {"correlate", "promote"}
         /\ (pc = "done") <=> (pc' = "done")
         /\ pc' = "analyze" => pc = "analyze"
  BY DEF vars, chainVars, stepVars, Next, Step, Call, DispatchAnalyst, EndCorrelate,
         StartPromote, Promote, Correlate, LateCall

LEMMA FaultsGrow ==
  ASSUME Types, [Next]_vars
  PROVE  /\ Undisturbed' => Undisturbed
         /\ faults \in Nat
<1>1. faults \in Nat
  BY LimitsAssumption DEF Types
<1>2. ASSUME NEW f \in Findings, Promote(f) PROVE Undisturbed' => Undisturbed
  <2>1. faults' \in Nat /\ faults' >= faults
    BY <1>2, PromoteEffect, LimitsAssumption
  <2> QED BY <1>1, <2>1 DEF Undisturbed
<1>3. faults' = faults \/ faults' = faults + 1 \/ \E f \in Findings : Promote(f)
  BY DEF vars, chainVars, stepVars, Next, Step, Call, DispatchAnalyst, EndAnalyze, EndCorrelate,
         PlanAndWrite, Correlate, LateCall
<1> QED BY <1>1, <1>2, <1>3 DEF Undisturbed

\* What the end of ANALYZE snapshots.
LEMMA Snapshot ==
  ASSUME Types, EndAnalyze
  PROVE  /\ pc = "analyze" /\ pc' \in {"correlate", "promote"}
         /\ added' = Drafts \ before.drafts
         /\ before'.drafts = before.drafts /\ before'.corrs = corrs
         /\ UNCHANGED <<chain, corrs, records, iteration, late, faults, reason>>
         /\ Drafts' = Drafts
  BY DEF EndAnalyze, StartPromote, chainVars, Types, Drafts

LEMMA DeltasStep ==
  ASSUME Types, Counted, History, Final, InFlight, Deltas, [Next]_vars
  PROVE  Deltas'
<1>1. Drafts \subseteq Drafts'
  BY HistoryStep
<1>2. CASE EndAnalyze
  BY <1>2, Snapshot DEF Deltas
<1>3. CASE PlanAndWrite
  <2>1. /\ records'[iteration].added = added /\ added \subseteq Drafts
        /\ added \cap before.drafts = {} /\ before.drafts \subseteq Drafts
        /\ \A n \in DOMAIN records : records[n].added \subseteq before.drafts
    BY <1>3, Written, RecordTyped DEF Deltas
  <2>2. \A n \in DOMAIN records' : n \in DOMAIN records \/ n = iteration
    BY <1>3, Written
  <2>3. \A m, n \in DOMAIN records' : m # n => records'[m].added \cap records'[n].added = {}
    <3>1. ASSUME NEW n \in DOMAIN records, n # iteration
          PROVE  records'[n].added \cap records'[iteration].added = {}
      BY <1>3, <2>1, Written
    <3>2. ASSUME NEW m \in DOMAIN records, NEW n \in DOMAIN records, m # n
          PROVE  records'[m].added \cap records'[n].added = {}
      BY <1>3, <3>2, Written DEF Deltas
    <3> QED BY <2>2, <3>1, <3>2
  <2>4. \A n \in DOMAIN records' : records'[n].added \subseteq Drafts
    BY <1>3, <2>1, <2>2, Written
  <2>5. Drafts' = Drafts /\ added' = added
    BY <1>3, Written DEF Drafts
  <2>6. CASE pc' = "done" /\ UNCHANGED before
    BY <2>1, <2>3, <2>5, <2>6 DEF Deltas
  <2>7. CASE pc' = "analyze" /\ before'.drafts = Drafts
    BY <2>1, <2>3, <2>4, <2>5, <2>7 DEF Deltas
  <2> QED BY <1>3, <2>6, <2>7, Written
<1>4. CASE ~ EndAnalyze /\ ~ PlanAndWrite
  BY <1>1, <1>4, NoSnapshot DEF Deltas
<1> QED BY <1>2, <1>3, <1>4

\* The steps of a run that stays undisturbed.
LEMMA QuietSteps ==
  ASSUME Types, Counted, Complete, [Next]_vars, Undisturbed'
  PROVE  /\ Undisturbed /\ late = {} /\ late' = {}
         /\ UNCHANGED chain \/ ChainDraft \/ ChainDecides
<1>1. Undisturbed /\ faults \in Nat /\ faults' = faults
  BY FaultsGrow DEF Undisturbed
<1>2. late = {}
  BY <1>1 DEF Complete
<1>3. ~ ChainLoses /\ ~ ChainLands
  BY <1>1, <1>2 DEF ChainLoses, ChainLands
<1> QED BY <1>1, <1>2, <1>3, ChainSteps DEF ChainIdle, ChainDraft, ChainDecides

LEMMA CompleteStep ==
  ASSUME Types, Counted, History, Deltas, Complete, [Next]_vars
  PROVE  Complete'
<1> SUFFICES ASSUME Undisturbed' PROVE Complete'
  BY DEF Complete
<1>1. /\ Undisturbed /\ late' = {} /\ iteration \in Nat
      /\ UNCHANGED chain \/ ChainDraft \/ ChainDecides
  BY QuietSteps DEF Types
<1>2. CASE EndAnalyze
  <2>1. /\ Drafts' \subseteq before'.drafts \cup added' /\ before'.drafts = before.drafts
        /\ UNCHANGED <<records, chain>> /\ pc # "done"
    BY <1>2, Snapshot
  <2> QED BY <1>1, <2>1 DEF Complete, InRecords
<1>3. CASE PlanAndWrite
  <2>1. Drafts \subseteq before.drafts \cup added /\ \A f \in before.drafts : InRecords(f)
    BY <1>1, <1>3, Written DEF Complete
  <2>2. \A f \in Drafts : InRecords(f)'
    <3>1. ASSUME NEW f, InRecords(f) PROVE InRecords(f)'
      <4>1. PICK n \in DOMAIN records : f \in records[n].added
        BY <3>1 DEF InRecords
      <4>2. n \in DOMAIN records' /\ records'[n] = records[n]
        BY <1>3, Written
      <4> QED BY <4>1, <4>2 DEF InRecords
    <3>2. ASSUME NEW f \in added PROVE InRecords(f)'
      <4>1. iteration \in DOMAIN records' /\ records'[iteration].added = added
        BY <1>3, Written, RecordTyped
      <4> QED BY <4>1 DEF InRecords
    <3> QED BY <2>1, <3>1, <3>2
  <2>3. Drafts' = Drafts /\ UNCHANGED chain
    BY <1>3, Written DEF Drafts
  <2>4. \A k \in DOMAIN chain' : InRecords(chain[k].fid)'
    <3>1. \A k \in DOMAIN chain : chain[k].fid \in Drafts /\ chain'[k] = chain[k]
      BY <2>3 DEF History
    <3> QED BY <2>2, <2>3, <3>1 DEF InRecords
  <2>5. pc' # "done" => before'.drafts = Drafts /\ pc' = "analyze"
    BY <1>3, Written
  <2>6. pc' \notin {"correlate", "promote"}
    BY <1>3, Written
  <2> QED BY <1>1, <2>2, <2>4, <2>5, <2>6 DEF Complete
<1>4. CASE ~ EndAnalyze /\ ~ PlanAndWrite
  <2>1. /\ UNCHANGED <<added, records, iteration>> /\ before' = before
        /\ pc' \in {"correlate", "promote"} => pc \in {"correlate", "promote"}
        /\ (pc = "done") <=> (pc' = "done")
    BY <1>4, NoSnapshot
  <2>2. CASE UNCHANGED chain
    BY <1>1, <2>1, <2>2 DEF Complete, InRecords, Drafts
  <2>3. CASE ChainDraft
    <3>1. PICK f \in Fresh, level \in FirstLevels : chain' = Append(chain, Draft(f, level))
      BY <2>3 DEF ChainDraft
    <3>2. /\ DOMAIN chain' = DOMAIN chain \cup {Len(chain) + 1}
          /\ \A k \in DOMAIN chain : chain'[k] = chain[k]
          /\ chain'[Len(chain) + 1].iter = iteration
      <4>1. Draft(f, level) \in Entry /\ Draft(f, level).iter = iteration
        BY DraftTyped, FreshUnused DEF Draft
      <4> QED BY <3>1, <4>1, Appended
    <3>3. pc = "analyze" /\ pc' = "analyze" /\ Len(records) = iteration - 1
      BY <2>3 DEF ChainDraft, Counted
    <3>4. ~ (iteration <= Len(records))
      BY <1>1, <3>3
    <3>5. \A k \in DOMAIN chain' :
            chain'[k].kind = "draft" /\ chain'[k].iter <= Len(records) => InRecords(chain'[k].fid)
      BY <1>1, <3>2, <3>4 DEF Complete
    <3> QED BY <1>1, <2>1, <3>3, <3>5 DEF Complete, InRecords
  <2>4. CASE ChainDecides
    <3>1. PICK f \in Drafts : chain' = Append(chain, Update(f, Decision(f)))
      BY <2>4 DEF ChainDecides
    <3>2. /\ DOMAIN chain' = DOMAIN chain \cup {Len(chain) + 1}
          /\ \A k \in DOMAIN chain : chain'[k] = chain[k]
          /\ chain'[Len(chain) + 1].kind = "update" /\ Drafts' = Drafts
      <4>1. /\ Update(f, Decision(f)) \in Entry
            /\ Update(f, Decision(f)).kind = "update" /\ "update" # "draft"
        BY UpdateTyped, UpdateIsUpdate
      <4> QED BY <3>1, <4>1, Appended
    <3>3. \A k \in DOMAIN chain' :
            chain'[k].kind = "draft" /\ chain'[k].iter <= Len(records) => InRecords(chain'[k].fid)
      BY <1>1, <3>2 DEF Complete
    <3> QED BY <1>1, <2>1, <3>2, <3>3 DEF Complete, InRecords
  <2> QED BY <1>1, <2>2, <2>3, <2>4
<1> QED BY <1>2, <1>3, <1>4

LEMMA AccountedFromDeltas ==
  ASSUME Types, Counted, Deltas, Complete
  PROVE  FindingsAccounted
<1> SUFFICES ASSUME NEW f \in Drafts
             PROVE  LET counted == {n \in DOMAIN records : f \in records[n].added} IN
                    /\ Cardinality(counted) <= 1
                    /\ Undisturbed /\ counted = {} =>
                         \A k \in DOMAIN chain :
                           chain[k].fid = f /\ chain[k].kind = "draft"
                             => chain[k].iter > Len(records)
  BY DEF FindingsAccounted
<1> DEFINE S == {n \in DOMAIN records : f \in records[n].added}
<1>1. Cardinality(S) <= 1
  <2>1. \A m, n \in S : m = n
    BY DEF Deltas
  <2>2. CASE S = {}
    BY <2>2, FS_EmptySet
  <2>3. CASE S # {}
    <3>1. PICK n \in S : TRUE
      BY <2>3
    <3>2. S = {n}
      BY <2>1, <3>1
    <3>3. Cardinality(S) = 1
      BY <3>2, FS_Singleton
    <3> QED BY <3>3
  <2> QED BY <2>2, <2>3
<1>2. ASSUME Undisturbed, S = {}, NEW k \in DOMAIN chain, chain[k].fid = f, chain[k].kind = "draft"
      PROVE  chain[k].iter > Len(records)
  <2>1. ~ InRecords(f)
    BY <1>2 DEF InRecords
  <2>2. ~ (chain[k].iter <= Len(records))
    BY <1>2, <2>1 DEF Complete
  <2>3. chain[k].iter \in Nat /\ Len(records) \in Nat
    <3>1. chain[k] \in Entry
      BY EntryTyped
    <3> QED BY <3>1, LimitsAssumption DEF Entry, Types
  <2> QED BY <2>2, <2>3
<1> QED BY <1>1, <1>2

-----------------------------------------------------------------------------
(* In an undisturbed run each record belongs to the iteration that is under *)
(* way, and PROMOTE decides on all the correlations there are.              *)

Rounds ==
  Undisturbed =>
    /\ \A c \in corrs : c.iter <= iteration
    /\ pc = "analyze" => \A c \in corrs : c.iter < iteration
    /\ pc \in {"correlate", "promote"} => \A c \in before.corrs : c.iter < iteration
    /\ pc = "promote" => seen = corrs
    /\ pc \in {"analyze", "correlate"} =>
         \A k \in DOMAIN chain : chain[k].state = "CONFIRMED" => chain[k].iter < iteration

\* The steps by what they do to the correlations.
CorrelatedNow == \E c \in Correlation : Correlate(c)

LEMMA CorrSteps ==
  ASSUME Types, [Next]_vars, late = {}
  PROVE  UNCHANGED corrs \/ CorrelatedNow
  BY DEF vars, chainVars, stepVars, Next, Step, Call, DispatchAnalyst, EndAnalyze, EndCorrelate,
         StartPromote, Promote, PlanAndWrite, CorrelatedNow

LEMMA CorrNumbers ==
  ASSUME Types
  PROVE  /\ iteration \in Nat
         /\ \A c \in corrs : c.iter \in Nat
         /\ \A k \in DOMAIN chain : chain[k].iter \in Nat
<1>1. iteration \in Nat
  BY DEF Types
<1>2. \A c \in corrs : c.iter \in Nat
  BY LimitsAssumption DEF Types, Corrs
<1>3. \A k \in DOMAIN chain : chain[k].iter \in Nat
  BY EntryTyped, LimitsAssumption DEF Entry
<1> QED BY <1>1, <1>2, <1>3

\* The steps that neither snapshot nor decide nor end a round.
LEMMA QuietPc ==
  ASSUME Types, [Next]_vars, ~ EndAnalyze, ~ PlanAndWrite
  PROVE  /\ pc' = pc \/ (EndCorrelate /\ pc = "correlate" /\ pc' = "promote" /\ seen' = corrs)
         /\ pc' = pc => UNCHANGED seen
  BY DEF vars, chainVars, stepVars, Next, Step, Call, DispatchAnalyst, EndCorrelate,
         StartPromote, Promote, Correlate, LateCall

LEMMA RoundsStep ==
  ASSUME Types, Counted, History, Complete, Rounds, [Next]_vars
  PROVE  Rounds'
<1> SUFFICES ASSUME Undisturbed' PROVE Rounds'
  BY DEF Rounds
<1>1. /\ Undisturbed /\ late = {}
      /\ UNCHANGED chain \/ ChainDraft \/ ChainDecides
  BY QuietSteps
<1>2. /\ iteration \in Nat /\ \A c \in corrs : c.iter \in Nat
      /\ \A k \in DOMAIN chain : chain[k].iter \in Nat /\ chain[k].iter <= iteration
  BY CorrNumbers DEF History
<1>3. CASE EndAnalyze
  <2>1. /\ pc = "analyze" /\ before'.corrs = corrs /\ UNCHANGED <<chain, corrs, iteration>>
        /\ pc' \in {"correlate", "promote"}
    BY <1>3, Snapshot
  <2>2. pc' = "promote" => seen' = corrs
    BY <1>3 DEF EndAnalyze, StartPromote
  <2> QED BY <1>1, <2>1, <2>2 DEF Rounds
<1>4. CASE PlanAndWrite
  <2>1. /\ UNCHANGED <<chain, corrs>> /\ pc' \in {"done", "analyze"}
        /\ pc' = "done" => UNCHANGED iteration
        /\ pc' = "analyze" => iteration' = iteration + 1
    BY <1>4, Written
  <2>2. \A c \in corrs : c.iter <= iteration
    BY <1>1 DEF Rounds
  <2>3. CASE pc' = "done"
    BY <2>1, <2>2, <2>3 DEF Rounds
  <2>4. CASE pc' = "analyze"
    <3>1. iteration' = iteration + 1 /\ UNCHANGED <<chain, corrs>>
      BY <2>1, <2>4
    <3>2. \A c \in corrs' : c.iter < iteration' /\ c.iter <= iteration'
      BY <1>2, <2>2, <3>1
    <3>3. \A k \in DOMAIN chain' : chain'[k].iter < iteration'
      BY <1>2, <3>1
    <3> QED BY <2>4, <3>2, <3>3 DEF Rounds
  <2> QED BY <2>1, <2>3, <2>4
<1>5. CASE ~ EndAnalyze /\ ~ PlanAndWrite
  <2>1. UNCHANGED iteration /\ before' = before
    BY <1>5, NoSnapshot
  <2>2. /\ pc' = pc \/ (EndCorrelate /\ pc = "correlate" /\ pc' = "promote" /\ seen' = corrs)
        /\ pc' = pc => UNCHANGED seen
    BY <1>5, QuietPc
  <2>3. /\ \A c \in corrs' : c.iter <= iteration
        /\ pc # "correlate" => UNCHANGED corrs
        /\ EndCorrelate => UNCHANGED corrs
    <3>1. CASE UNCHANGED corrs
      BY <1>1, <3>1 DEF Rounds
    <3>2. CASE CorrelatedNow
      <4>1. PICK c \in Correlation : Correlate(c)
        BY <3>2 DEF CorrelatedNow
      <4>2. corrs' = corrs \cup {c} /\ pc = "correlate" /\ pc' = "correlate" /\ c.iter = iteration
        BY <4>1, CorrelationTyped DEF Correlate
      <4>3. ~ EndCorrelate
        BY <4>2 DEF EndCorrelate, StartPromote
      <4> QED BY <1>1, <1>2, <4>2, <4>3 DEF Rounds
    <3> QED BY <1>1, <3>1, <3>2, CorrSteps
  <2>4. pc \in {"analyze", "correlate"} =>
          \A k \in DOMAIN chain' : chain'[k].state = "CONFIRMED" => chain'[k].iter < iteration
    <3>1. CASE UNCHANGED chain
      BY <1>1, <3>1 DEF Rounds
    <3>2. CASE ChainDecides
      BY <3>2 DEF ChainDecides
    <3>3. CASE ChainDraft
      <4>1. PICK f \in Fresh, level \in FirstLevels : chain' = Append(chain, Draft(f, level))
        BY <3>3 DEF ChainDraft
      <4>2. /\ DOMAIN chain' = DOMAIN chain \cup {Len(chain) + 1}
            /\ \A k \in DOMAIN chain : chain'[k] = chain[k]
            /\ chain'[Len(chain) + 1].state = "DRAFT"
        <5>1. Draft(f, level) \in Entry /\ Draft(f, level).state = "DRAFT"
          BY DraftTyped, FreshUnused DEF Draft
        <5> QED BY <4>1, <5>1, Appended
      <4> QED BY <1>1, <4>2 DEF Rounds
    <3> QED BY <1>1, <3>1, <3>2, <3>3
  <2> QED BY <1>1, <2>1, <2>2, <2>3, <2>4 DEF Rounds
<1> QED BY <1>3, <1>4, <1>5

\* Why a draft is confirmed: no serious contradiction names it; by R5, nothing
\* but cross_host names it.
LEMMA Grounds ==
  ASSUME Types, NEW f \in Drafts, Update(f, Decision(f)).state = "CONFIRMED"
  PROVE  /\ \A c \in seen : c.kind \in Serious => f \notin c.on
         /\ Decision(f).rule = "R5" => \A c \in seen : c.kind # "cross_host" => f \notin c.on
<1>1. iteration - 1 \in Nat
  BY LimitsAssumption DEF Types
<1>2. /\ Decision(f).rule = Rule(StateOf(f).conf, Naming(f, seen), iteration - 1)
      /\ Decision(f).rule \notin {"R1", "R6"}
  BY UpdateIsUpdate DEF StateAfter
<1>3. OfKind(Naming(f, seen), Serious) = {}
  BY <1>1, <1>2, RuleGrounds
<1>4. Decision(f).rule = "R5" => Naming(f, seen) = {}
  BY <1>1, <1>2, RuleGrounds
<1> QED BY <1>3, <1>4 DEF OfKind, Naming, Serious

LEMMA BlocksStep ==
  ASSUME Types, Counted, History, Complete, Rounds, ContradictionBlocks, SilenceIsSilence,
         [Next]_vars
  PROVE  ContradictionBlocks' /\ SilenceIsSilence'
<1> SUFFICES ASSUME Undisturbed' PROVE ContradictionBlocks' /\ SilenceIsSilence'
  BY DEF ContradictionBlocks, SilenceIsSilence
<1>1. /\ Undisturbed /\ late = {}
      /\ UNCHANGED chain \/ ChainDraft \/ ChainDecides
  BY QuietSteps
<1>2. iteration \in Nat /\ \A k \in DOMAIN chain : chain[k].iter \in Nat
  BY CorrNumbers
<1> DEFINE Clear(k) == \A c \in corrs : c.kind \in Serious /\ chain[k].fid \in c.on
                          => c.iter > chain[k].iter
           Silent(k) == \A c \in corrs : c.kind # "cross_host" /\ chain[k].fid \in c.on
                          => c.iter > chain[k].iter
<1>3. ASSUME NEW e \in Entry, chain' = Append(chain, e), UNCHANGED corrs,
             e.state = "CONFIRMED" =>
               \A c \in corrs : c.kind \in Serious => e.fid \notin c.on,
             e.rule = "R5" =>
               \A c \in corrs : c.kind # "cross_host" => e.fid \notin c.on
      PROVE  ContradictionBlocks' /\ SilenceIsSilence'
  <2>1. /\ DOMAIN chain' = DOMAIN chain \cup {Len(chain) + 1}
        /\ \A k \in DOMAIN chain : chain'[k] = chain[k]
        /\ chain'[Len(chain) + 1] = e
    BY <1>3, Appended
  <2> QED BY <1>1, <1>3, <2>1 DEF ContradictionBlocks, SilenceIsSilence
<1>4. CASE UNCHANGED <<chain, corrs>>
  BY <1>1, <1>4 DEF ContradictionBlocks, SilenceIsSilence
<1>5. CASE UNCHANGED chain /\ CorrelatedNow
  <2>1. PICK c \in Correlation : Correlate(c)
    BY <1>5 DEF CorrelatedNow
  <2>2. corrs' = corrs \cup {c} /\ pc = "correlate" /\ c.iter = iteration
    BY <2>1, CorrelationTyped DEF Correlate
  <2>3. \A k \in DOMAIN chain :
          chain[k].state = "CONFIRMED" \/ chain[k].rule = "R5" => c.iter > chain[k].iter
    BY <1>1, <1>2, <2>2 DEF Rounds, History
  <2> QED BY <1>1, <1>5, <2>2, <2>3 DEF ContradictionBlocks, SilenceIsSilence
<1>6. CASE ChainDraft
  <2>1. PICK f \in Fresh, level \in FirstLevels : chain' = Append(chain, Draft(f, level))
    BY <1>6 DEF ChainDraft
  <2>2. /\ Draft(f, level) \in Entry /\ Draft(f, level).state = "DRAFT"
        /\ Draft(f, level).rule = "none"
    BY DraftTyped, FreshUnused DEF Draft
  <2>3. UNCHANGED corrs
    BY <1>1, <1>6, CorrSteps DEF ChainDraft, CorrelatedNow, Correlate
  <2> QED BY <1>3, <2>1, <2>2, <2>3
<1>7. CASE ChainDecides
  <2>1. PICK f \in Drafts : chain' = Append(chain, Update(f, Decision(f))) /\ pc = "promote"
    BY <1>7 DEF ChainDecides
  <2>2. seen = corrs /\ UNCHANGED corrs
    BY <1>1, <2>1, CorrSteps DEF CorrelatedNow, Correlate, Rounds
  <2>3. /\ Update(f, Decision(f)) \in Entry /\ Update(f, Decision(f)).fid = f
        /\ Update(f, Decision(f)).rule = Decision(f).rule
        /\ Decision(f).rule = "R5" => Update(f, Decision(f)).state = "CONFIRMED"
    BY UpdateTyped, UpdateIsUpdate DEF StateAfter
  <2>4. Update(f, Decision(f)).state = "CONFIRMED" =>
          /\ \A c \in corrs : c.kind \in Serious => f \notin c.on
          /\ Decision(f).rule = "R5" => \A c \in corrs : c.kind # "cross_host" => f \notin c.on
    BY <2>2, Grounds
  <2> QED BY <1>3, <2>1, <2>2, <2>3, <2>4
<1> QED BY <1>1, <1>4, <1>5, <1>6, <1>7, CorrSteps

-----------------------------------------------------------------------------
(* What the validator asked for is what PLAN dispatches. *)

LEMMA NewFollowups ==
  ASSUME Types, NEW c \in Followups(NewCorrelations)
  PROVE  /\ c.to = "all" \/ c.to \in NextUnits
         /\ Units # {} => NextUnits # {}
<1> DEFINE asked == {d.to : d \in Followups(NewCorrelations)}
<1>1. c.to \in asked /\ (c.to \in Units \/ (multiHost /\ c.to = "all"))
  BY DEF Types, Followups, NewCorrelations, Aimed
<1>2. CASE ~ multiHost
  <2>1. NextUnits = asked
    BY <1>2 DEF NextUnits
  <2> QED BY <1>1, <2>1
<1>3. CASE multiHost
  <2>1. NextUnits = IF asked = {} \/ "all" \in asked THEN Units ELSE asked
    BY <1>3 DEF NextUnits
  <2> QED BY <1>1, <2>1
<1> QED BY <1>2, <1>3

\* Whatever is on the chains was put there by a dispatched unit.
Dispatched == chain # <<>> \/ late # {} \/ corrs # {} => Units # {}

LEMMA DispatchedStep == ASSUME Types, Counted, Dispatched, [Next]_vars PROVE Dispatched'
<1>1. Drafts # {} => Units # {}
  <2>1. ASSUME chain = <<>> PROVE Drafts = {}
    <3>1. DOMAIN chain = 1..0
      BY <2>1, EmptySeq DEF Types
    <3> QED BY <3>1 DEF Drafts
  <2> QED BY <2>1 DEF Dispatched
<1>2. \A c \in Correlation : Units # {}
  BY <1>1, CorrelationTyped
<1>3. CASE UNCHANGED <<chain, late, corrs>>
  BY <1>3 DEF Dispatched
<1>4. ASSUME NEW u \in Units PROVE Dispatched'
  BY <1>4 DEF Dispatched
<1>5. ASSUME NEW f \in Findings, Promote(f) PROVE Units # {}
  BY <1>1, <1>5, PromoteEffect
<1>6. ASSUME NEW l \in late PROVE Units # {}
  BY <1>6 DEF Dispatched
<1>7. CASE EndCorrelate
  BY <1>2, <1>3, <1>4, <1>7 DEF EndCorrelate, chainVars
<1>8. ASSUME NEW c \in Correlation PROVE Dispatched'
  BY <1>2, <1>4, <1>8
<1>9. CASE EndAnalyze \/ PlanAndWrite \/ UNCHANGED vars
  <2>1. UNCHANGED <<chain, late, corrs>>
    BY <1>9 DEF EndAnalyze, PlanAndWrite, vars, chainVars
  <2> QED BY <1>3, <2>1
<1> QED BY <1>4, <1>5, <1>6, <1>7, <1>8, <1>9 DEF Next, Step, Call

LEMMA ServedStep ==
  ASSUME Types, Counted, Complete, Rounds, Dispatched, FollowupsServed, [Next]_vars
  PROVE  FollowupsServed'
<1> SUFFICES ASSUME Undisturbed' PROVE FollowupsServed'
  BY DEF FollowupsServed
<1>1. Undisturbed /\ late = {}
  BY QuietSteps
<1>2. iteration \in Nat /\ \A c \in corrs : c.iter \in Nat
  BY CorrNumbers
<1>3. CASE PlanAndWrite
  <2>1. /\ pc = "promote" /\ seen = corrs /\ corrs' = corrs
        /\ \A c \in before.corrs : c.iter < iteration
    BY <1>1, <1>3, Written DEF Rounds
  <2>2. ASSUME NEW c \in Followups(corrs), c.iter = iteration
        PROVE  /\ c.to = "all" \/ c.to \in NextUnits
               /\ reason' # "no_followup_pending"
    <3>1. c \in corrs /\ c \notin before.corrs
      BY <1>2, <2>1, <2>2 DEF Followups
    <3>2. c \in Followups(NewCorrelations)
      BY <2>1, <2>2, <3>1 DEF Followups, NewCorrelations
    <3>3. NextUnits # {}
      BY <3>1, <3>2, NewFollowups DEF Dispatched
    <3>4. Open(reason)
      BY <1>3, Written
    <3>5. reason' = Flag \/ UNCHANGED reason
      BY <1>3, <3>3 DEF PlanAndWrite, Finish, NextIteration
    <3>6. Flag # "no_followup_pending"
      BY Zenon DEF Flag
    <3>7. reason # "no_followup_pending"
      BY <3>4, Zenon DEF Open
    <3> QED BY <3>2, <3>5, <3>6, <3>7, NewFollowups
  <2>3. ASSUME NEW n \in DOMAIN records', NEW c \in Followups(corrs), c.iter = n
        PROVE  /\ c.to = "all" \/ c.to \in records'[n].next
               /\ n = Len(records') => reason' # "no_followup_pending"
    <3>1. CASE n = iteration
      BY <1>3, <2>2, <2>3, <3>1, Written, RecordTyped
    <3>2. CASE n \in DOMAIN records /\ n # iteration
      <4>1. records'[n] = records[n] /\ Len(records') = iteration
        BY <1>3, <3>2, Written
      <4> QED BY <1>1, <2>3, <3>2, <4>1 DEF FollowupsServed
    <3>3. n = iteration \/ (n \in DOMAIN records /\ n # iteration)
      BY <1>3, <2>3, Written
    <3> QED BY <3>1, <3>2, <3>3
  <2> QED BY <2>1, <2>3 DEF FollowupsServed, Followups
<1>4. CASE ~ PlanAndWrite
  <2>1. iteration \notin DOMAIN records \/ pc = "done"
    <3>1. pc # "done" => iteration \notin DOMAIN records
      <4>1. DOMAIN records = 1..Len(records) /\ Len(records) \in Nat
        BY DEF Types
      <4> QED BY <1>2, <4>1 DEF Counted
    <3> QED BY <1>4, <3>1, Unwritten
  <2>2. UNCHANGED <<records, reason>>
    BY <1>4, Unwritten
  <2>3. CASE UNCHANGED corrs
    BY <1>1, <2>2, <2>3 DEF FollowupsServed, Followups
  <2>4. CASE CorrelatedNow
    <3>1. PICK c \in Correlation : Correlate(c)
      BY <2>4 DEF CorrelatedNow
    <3>2. corrs' = corrs \cup {c} /\ pc = "correlate" /\ c.iter = iteration
      BY <3>1, CorrelationTyped DEF Correlate
    <3> QED BY <1>1, <2>1, <2>2, <3>2 DEF FollowupsServed, Followups
  <2> QED BY <1>1, <2>3, <2>4, CorrSteps
<1> QED BY <1>3, <1>4

-----------------------------------------------------------------------------
(* All of it. *)

LoopInv ==
  /\ Types /\ Counted /\ Remembered /\ StalemateIsReal
  /\ History /\ Final /\ InFlight
  /\ AppliedNow /\ AppliedIsOnChain
  /\ Deltas /\ Complete /\ Dispatched
  /\ Rounds /\ ContradictionBlocks /\ SilenceIsSilence /\ FollowupsServed

LEMMA InvInit == Init => LoopInv
<1> SUFFICES ASSUME Init PROVE LoopInv
  OBVIOUS
<1>1. Types
  BY TypesInit
<1>2. /\ pc = "analyze" /\ iteration = 1 /\ chain = <<>> /\ corrs = {} /\ records = <<>>
      /\ late = {} /\ before.drafts = {} /\ before.corrs = {} /\ added = {}
  BY DEF Init
<1>3. /\ \A k \in DOMAIN chain : FALSE
      /\ \A n \in DOMAIN records : FALSE
      /\ Len(records) = 0 /\ Drafts = {} /\ LateDrafts = {}
  <2>1. Len(chain) = 0 /\ Len(records) = 0
    BY <1>2
  <2>2. DOMAIN chain = 1..0 /\ DOMAIN records = 1..0
    BY <1>1, <2>1 DEF Types
  <2>3. (\A k \in DOMAIN chain : FALSE) /\ (\A n \in DOMAIN records : FALSE)
    BY <2>2
  <2> QED BY <1>2, <2>1, <2>3 DEF Drafts, LateDrafts
<1>4. Open(reason)
  BY Zenon DEF Init, Open
<1>5. Counted /\ Remembered
  BY <1>2, <1>3, <1>4 DEF Counted, Remembered
<1>6. StalemateIsReal
  <2>1. ~ Open("R_b")
    BY Zenon DEF Open
  <2> QED BY <1>4, <2>1 DEF StalemateIsReal
<1>7. History /\ Final /\ InFlight
  BY <1>3 DEF History, Final, InFlight
<1>8. AppliedNow /\ AppliedIsOnChain
  BY <1>2, <1>3 DEF AppliedNow, AppliedIsOnChain
<1>9. Deltas /\ Complete /\ Dispatched
  BY <1>2, <1>3 DEF Deltas, Complete, Dispatched
<1>10. Rounds /\ ContradictionBlocks /\ SilenceIsSilence /\ FollowupsServed
  BY <1>2, <1>3 DEF Rounds, ContradictionBlocks, SilenceIsSilence, FollowupsServed
<1> QED BY <1>1, <1>5, <1>6, <1>7, <1>8, <1>9, <1>10 DEF LoopInv

LEMMA InvStep == LoopInv /\ [Next]_vars => LoopInv'
<1> SUFFICES ASSUME LoopInv, [Next]_vars PROVE LoopInv'
  OBVIOUS
<1> USE DEF LoopInv
<1>1. Types' /\ Counted' /\ Remembered' /\ StalemateIsReal'
  BY TypesStep, CountedStep, StalemateStep
<1>2. History' /\ Final' /\ InFlight'
  BY HistoryStep
<1>3. AppliedNow' /\ AppliedIsOnChain'
  BY AppliedStep
<1>4. Deltas' /\ Complete' /\ Dispatched'
  BY DeltasStep, CompleteStep, DispatchedStep
<1>5. Rounds' /\ ContradictionBlocks' /\ SilenceIsSilence' /\ FollowupsServed'
  BY RoundsStep, BlocksStep, ServedStep
<1> QED BY <1>1, <1>2, <1>3, <1>4, <1>5

LEMMA InvHolds == Spec => []LoopInv
BY InvInit, InvStep, PTL DEF Spec

\* Every variable keeps its type: iterations, tokens and faults stay within their
\* limits, every record is of a known finding and every decision is one of R1 to R6.
THEOREM TypeCorrect == Spec => []TypeOK
<1>1. LoopInv => TypeOK
  <2> SUFFICES ASSUME Types PROVE TypeOK
    BY DEF LoopInv
  <2>1. \A c \in corrs \cup seen : c.kind \in Kinds /\ c.on \subseteq Findings
    BY DEF Types, Corrs
  <2>2. before.drafts \subseteq Findings /\ before.corrs \subseteq corrs
    BY DEF Types
  <2>3. todo \subseteq Findings
    BY EntryTyped DEF Types
  <2>4. \A p \in promotions : p.fid \in Findings /\ p.rule \in Rules
    BY DEF Types, Proms
  <2> QED BY <2>1, <2>2, <2>3, <2>4 DEF Types, TypeOK
<1> QED BY <1>1, InvHolds, PTL

\* A finding is confirmed at most once, whatever answers are lost and whatever
\* calls land late (update_finding's gate and PROMOTE read the same last record).
THEOREM OneConfirmation == Spec => []ConfirmedOnce
<1>1. LoopInv => ConfirmedOnce
  BY OnceFromFinal DEF LoopInv
<1> QED BY <1>1, InvHolds, PTL

\* In an undisturbed run no finding is confirmed against a standing serious
\* contradiction.
THEOREM DisputesHold == Spec => []ContradictionBlocks
<1>1. LoopInv => ContradictionBlocks
  BY DEF LoopInv
<1> QED BY <1>1, InvHolds, PTL

\* In an undisturbed run what R5 confirms nothing but cross_host has ever named.
THEOREM SilenceHolds == Spec => []SilenceIsSilence
<1>1. LoopInv => SilenceIsSilence
  BY DEF LoopInv
<1> QED BY <1>1, InvHolds, PTL

\* What iterations.jsonl says was applied is on findings.jsonl.
THEOREM RecordsAreTrue == Spec => []AppliedIsOnChain
<1>1. LoopInv => AppliedIsOnChain
  BY DEF LoopInv
<1> QED BY <1>1, InvHolds, PTL

\* R_b stops a run only after two iterations with the same disputes.
THEOREM StalemateHolds == Spec => []StalemateIsReal
<1>1. LoopInv => StalemateIsReal
  BY DEF LoopInv
<1> QED BY <1>1, InvHolds, PTL

\* In an undisturbed run a requested follow-up runs in the next iteration.
THEOREM RequestsRun == Spec => []FollowupsServed
<1>1. LoopInv => FollowupsServed
  BY DEF LoopInv
<1> QED BY <1>1, InvHolds, PTL

\* Every draft is counted by one iteration at most; in an undisturbed run by one.
THEOREM DraftsCounted == Spec => []FindingsAccounted
<1>1. LoopInv => FindingsAccounted
  BY AccountedFromDeltas DEF LoopInv
<1> QED BY <1>1, InvHolds, PTL

\* The run's book-keeping, all of RunEnds but that the loop can go on: one record
\* per iteration, never more than max_iterations, and a reason exactly at the end.
THEOREM RunCounted ==
  Spec => [](/\ iteration <= MaxIterations
             /\ Len(records) = iteration - (IF pc = "done" THEN 0 ELSE 1)
             /\ pc = "done" <=> reason # "")
<1>1. LoopInv => Types /\ Counted
  BY DEF LoopInv
<1>2. Types /\ Counted => /\ iteration <= MaxIterations
                         /\ Len(records) = iteration - (IF pc = "done" THEN 0 ELSE 1)
  BY LimitsAssumption DEF Types, Counted
<1>3. Counted => (pc = "done" <=> reason # "")
  BY Zenon DEF Counted, Open
<1> QED BY <1>1, <1>2, <1>3, InvHolds, PTL

-----------------------------------------------------------------------------
(* A run is finite: how many more steps of its own the loop can take. *)

\* A dispatch of every unit, a decision on every finding, and the ends of
\* ANALYZE, CORRELATE and PROMOTE.
Round == Cardinality(Units) + Cardinality(Findings) + 3

\* What is left of this iteration.
Rest ==
  IF pc = "analyze" THEN Cardinality(waiting) + Cardinality(Findings) + 3
  ELSE IF pc = "correlate" THEN Cardinality(Findings) + 2
  ELSE Cardinality(todo) + 1

StepsLeft == IF pc = "done" THEN 0 ELSE (MaxIterations - iteration) * Round + Rest

\* A set that loses an element is smaller by one.
LEMMA OneLess ==
  ASSUME NEW S, IsFiniteSet(S), NEW x \in S
  PROVE  Cardinality(S) \in Nat /\ Cardinality(S \ {x}) \in Nat
         /\ Cardinality(S \ {x}) = Cardinality(S) - 1
BY FS_RemoveElement, FS_CardinalityType

\* The sets the count is made of are finite.
LEMMA RestTyped ==
  ASSUME Types, IsFiniteSet(Units), IsFiniteSet(Findings)
  PROVE  /\ IsFiniteSet(waiting) /\ Cardinality(waiting) \in Nat
         /\ Cardinality(waiting) <= Cardinality(Units)
         /\ IsFiniteSet(Drafts) /\ Cardinality(Drafts) \in Nat
         /\ Cardinality(Drafts) <= Cardinality(Findings)
         /\ IsFiniteSet(todo) /\ Cardinality(todo) \in Nat
         /\ Cardinality(Units) \in Nat /\ Cardinality(Findings) \in Nat /\ Round \in Nat
         /\ Rest \in Nat /\ Rest >= 1 /\ Rest <= Round
<1>1. waiting \subseteq Units /\ Drafts \subseteq Findings /\ todo \subseteq Drafts
  BY EntryTyped DEF Types
<1>2. /\ IsFiniteSet(waiting) /\ Cardinality(waiting) <= Cardinality(Units)
      /\ IsFiniteSet(Drafts) /\ Cardinality(Drafts) <= Cardinality(Findings)
  BY <1>1, FS_Subset
<1>3. IsFiniteSet(todo) /\ Cardinality(todo) <= Cardinality(Drafts)
  BY <1>1, <1>2, FS_Subset
<1>4. /\ Cardinality(waiting) \in Nat /\ Cardinality(Drafts) \in Nat /\ Cardinality(todo) \in Nat
      /\ Cardinality(Units) \in Nat /\ Cardinality(Findings) \in Nat
  BY <1>2, <1>3, FS_CardinalityType
<1> QED BY <1>2, <1>3, <1>4 DEF Rest, Round

\* A product of naturals, with one factor less by one.
LEMMA OneRoundLess ==
  ASSUME NEW a \in Nat \ {0}, NEW b \in Nat
  PROVE  /\ a * b = (a - 1) * b + b
         /\ a * b \in Nat /\ (a - 1) * b \in Nat
  OBVIOUS

\* Products of naturals distribute.
LEMMA Distributes ==
  ASSUME NEW a \in Nat, NEW b \in Nat, NEW c \in Nat
  PROVE  (a + c) * b = a * b + c * b /\ c * b \in Nat
  OBVIOUS

\* The loop's own steps bring its end nearer, calls that land do not put it off.
LEMMA StepsRunOut ==
  ASSUME Types, Types', Counted, Next, IsFiniteSet(Units), IsFiniteSet(Findings)
  PROVE  /\ Step => StepsLeft' < StepsLeft
         /\ Call => StepsLeft' = StepsLeft
<1> DEFINE left == MaxIterations - iteration
<1>1. /\ IsFiniteSet(waiting) /\ Cardinality(waiting) \in Nat
      /\ IsFiniteSet(Drafts) /\ Cardinality(Drafts) \in Nat
      /\ Cardinality(Drafts) <= Cardinality(Findings)
      /\ IsFiniteSet(todo) /\ Cardinality(todo) \in Nat
      /\ Cardinality(Findings) \in Nat /\ Cardinality(Units) \in Nat
      /\ Round \in Nat /\ Rest \in Nat /\ Rest >= 1
  BY RestTyped
<1>2. Rest' \in Nat /\ Rest' <= Round
  <2>1. waiting' \subseteq Units /\ todo' \subseteq Drafts' /\ Drafts' \subseteq Findings
    <3>1. chain' \in Seq(Entry)
      BY DEF Types
    <3>2. \A k \in DOMAIN chain' : chain'[k] \in Entry
      BY <3>1
    <3>3. \A k \in DOMAIN chain' : chain'[k].fid \in Findings
      BY <3>2 DEF Entry
    <3>4. Drafts' \subseteq Findings
      BY <3>3 DEF Drafts
    <3> QED BY <3>4 DEF Types
  <2>2. todo' \subseteq Findings
    BY <2>1
  <2>3. /\ IsFiniteSet(waiting') /\ Cardinality(waiting') <= Cardinality(Units)
        /\ IsFiniteSet(todo') /\ Cardinality(todo') <= Cardinality(Findings)
    BY <2>1, <2>2, FS_Subset
  <2>4. Cardinality(waiting') \in Nat /\ Cardinality(todo') \in Nat
    BY <2>3, FS_CardinalityType
  <2> QED BY <1>1, <2>3, <2>4 DEF Rest, Round
<1>3. left \in Nat /\ iteration \in Nat /\ left * Round \in Nat
  <2>1. left \in Nat /\ iteration \in Nat
    BY LimitsAssumption DEF Types
  <2> QED BY <1>1, <2>1
<1> SUFFICES /\ Step => StepsLeft' < StepsLeft
             /\ Call => StepsLeft' = StepsLeft
  OBVIOUS
<1>4. ASSUME pc # "done", pc' # "done", iteration' = iteration, Rest' < Rest
      PROVE  StepsLeft' < StepsLeft
  BY <1>1, <1>2, <1>3, <1>4 DEF StepsLeft, Round
<1>5. ASSUME NEW u \in Units, DispatchAnalyst(u) PROVE StepsLeft' < StepsLeft
  <2>1. /\ pc = "analyze" /\ pc' = pc /\ iteration' = iteration
        /\ u \in waiting /\ waiting' = waiting \ {u}
    BY <1>5 DEF DispatchAnalyst
  <2>2. Cardinality(waiting') = Cardinality(waiting) - 1
    BY <1>1, <2>1, OneLess
  <2> QED BY <1>1, <1>4, <2>1, <2>2 DEF Rest
<1>6. ASSUME EndAnalyze PROVE StepsLeft' < StepsLeft
  <2>1. /\ pc = "analyze" /\ waiting = {} /\ iteration' = iteration
        /\ pc' = "correlate" \/ (pc' = "promote" /\ todo' = Drafts)
    BY <1>6 DEF EndAnalyze, StartPromote
  <2>2. Cardinality(waiting) = 0
    BY <2>1, FS_EmptySet
  <2> QED BY <1>1, <1>4, <2>1, <2>2 DEF Rest
<1>7. ASSUME EndCorrelate PROVE StepsLeft' < StepsLeft
  <2>1. pc = "correlate" /\ iteration' = iteration /\ pc' = "promote" /\ todo' = Drafts
    BY <1>7 DEF EndCorrelate, StartPromote
  <2> QED BY <1>1, <1>4, <2>1 DEF Rest
<1>8. ASSUME NEW f \in Findings, Promote(f) PROVE StepsLeft' < StepsLeft
  <2>1. /\ pc = "promote" /\ pc' = pc /\ iteration' = iteration
        /\ f \in todo /\ todo' = todo \ {f}
    BY <1>8 DEF Promote
  <2>2. Cardinality(todo') = Cardinality(todo) - 1
    BY <1>1, <2>1, OneLess
  <2> QED BY <1>1, <1>4, <2>1, <2>2 DEF Rest
<1>9. ASSUME PlanAndWrite PROVE StepsLeft' < StepsLeft
  <2>1. pc = "promote"
    BY <1>9 DEF PlanAndWrite
  <2>2. StepsLeft = left * Round + Rest
    BY <2>1 DEF StepsLeft
  <2>3. CASE pc' = "done"
    BY <1>1, <1>3, <2>2, <2>3 DEF StepsLeft
  <2>4. CASE pc' # "done"
    <3>1. NextIteration /\ Flag = ""
      BY <1>9, <2>4 DEF PlanAndWrite, Finish
    <3>2. ~ FlagMax /\ iteration' = iteration + 1
      BY <3>1 DEF NextIteration, Flag
    <3>3. iteration < MaxIterations
      BY <1>3, <3>2, LimitsAssumption DEF FlagMax
    <3>4. left \in Nat \ {0} /\ MaxIterations - iteration' = left - 1
      BY <1>3, <3>2, <3>3, LimitsAssumption
    <3>5. StepsLeft' = (left - 1) * Round + Rest'
      BY <2>4, <3>4, Zenon DEF StepsLeft, Round
    <3>6. left * Round = (left - 1) * Round + Round /\ (left - 1) * Round \in Nat
      BY <1>1, <3>4, OneRoundLess
    <3> HIDE DEF left
    <3> QED BY <1>1, <1>2, <2>2, <3>5, <3>6
  <2> QED BY <2>3, <2>4
<1>10. ASSUME Call PROVE StepsLeft' = StepsLeft
  <2>1. pc' = pc /\ iteration' = iteration /\ waiting' = waiting /\ todo' = todo
    BY <1>10 DEF Call, Correlate, LateCall, stepVars
  <2> QED BY <2>1 DEF StepsLeft, Rest, Round
<1> QED BY <1>5, <1>6, <1>7, <1>8, <1>9, <1>10 DEF Step

\* For finitely many units and findings, every step of the loop uses up one of at
\* most MaxIterations rounds of steps, whatever dispatches record, however late
\* their calls land and whichever updates fail: an iteration cannot dispatch a
\* unit or decide on a finding twice, and no follow-up outlives max_iterations.
THEOREM RunFinite ==
  ASSUME IsFiniteSet(Units), IsFiniteSet(Findings)
  PROVE  Spec => /\ [](StepsLeft \in 0 .. MaxIterations * Round)
                 /\ [][/\ Step => StepsLeft' < StepsLeft
                       /\ Call => StepsLeft' = StepsLeft]_vars
<1>1. LoopInv => StepsLeft \in 0 .. MaxIterations * Round
  <2> SUFFICES ASSUME Types PROVE StepsLeft \in 0 .. MaxIterations * Round
    BY DEF LoopInv
  <2> DEFINE left == MaxIterations - iteration
  <2>1. /\ Round \in Nat /\ Rest \in Nat /\ Rest <= Round
        /\ left \in Nat /\ left + 1 \in Nat \ {0} /\ left + 1 <= MaxIterations /\ MaxIterations \in Nat
    BY RestTyped, LimitsAssumption DEF Types
  <2> HIDE DEF left
  <2>2. (left + 1) * Round = left * Round + Round /\ left * Round \in Nat
    BY <2>1
  <2>3. (left + 1) * Round <= MaxIterations * Round
    <3>1. PICK k \in Nat : MaxIterations = (left + 1) + k
      BY <2>1
    <3>2. left + 1 \in Nat /\ k \in Nat /\ Round \in Nat
      BY <2>1, <3>1
    <3>3. MaxIterations * Round = (left + 1) * Round + k * Round /\ k * Round \in Nat
      BY <3>1, <3>2, Distributes
    <3> QED BY <2>1, <2>2, <3>3
  <2>4. MaxIterations * Round \in Nat
    BY <2>1
  <2>5. StepsLeft = 0 \/ StepsLeft = left * Round + Rest
    BY DEF StepsLeft, left
  <2> QED BY <2>1, <2>2, <2>3, <2>4, <2>5
<1>2. LoopInv /\ LoopInv' /\ [Next]_vars =>
        [/\ Step => StepsLeft' < StepsLeft
         /\ Call => StepsLeft' = StepsLeft]_vars
  <2> SUFFICES ASSUME Types, Types', Counted, Next
               PROVE  /\ Step => StepsLeft' < StepsLeft
                      /\ Call => StepsLeft' = StepsLeft
    BY DEF LoopInv
  <2> QED BY StepsRunOut
<1> QED BY <1>1, <1>2, InvHolds, PTL DEF Spec

-----------------------------------------------------------------------------
(* The loop implements FindingLedger. *)

\* A record that disputes a finding is R1's, and rests on a contradiction that
\* PROMOTE has read; every other update confirms.
Verdicts ==
  \A k \in DOMAIN chain :
    /\ chain[k].conf = "DISPUTED" =>
         /\ chain[k].state = "DRAFT" /\ chain[k].rule = "R1" /\ chain[k].fid \in NamedBy(seen)
    /\ chain[k].kind = "update" =>
         IF chain[k].rule = "R1" THEN chain[k].conf = "DISPUTED" ELSE chain[k].state = "CONFIRMED"

\* A disputed finding has no later record that does not dispute it.
DisputesLast ==
  \A j, k \in DOMAIN chain :
    chain[j].conf = "DISPUTED" /\ chain[k].fid = chain[j].fid /\ j <= k =>
      chain[k].conf = "DISPUTED"

\* What is in flight disputes nothing, and correlations are about drafts.
InFlightUndisputed == \A l \in LateDrafts : l.record.conf \in Levels
AboutDrafts ==
  /\ \A c \in corrs : c.on \subseteq Drafts
  /\ \A l \in late : l.tool = "record_correlation" => l.record.on \subseteq Drafts

LedgerInv == Verdicts /\ DisputesLast /\ InFlightUndisputed /\ AboutDrafts

\* PROMOTE's snapshot only grows, and moves only where PROMOTE begins.
LEMMA SeenSteps ==
  ASSUME Types, [Next]_vars
  PROVE  /\ seen \subseteq seen' /\ corrs \subseteq corrs'
         /\ seen' # seen => seen' = corrs /\ UNCHANGED chain
<1>1. \/ UNCHANGED seen
      \/ seen' = corrs /\ UNCHANGED <<chain, corrs>>
  BY DEF vars, chainVars, stepVars, Next, Step, Call, DispatchAnalyst, EndAnalyze, EndCorrelate,
         StartPromote, Promote, PlanAndWrite, Correlate, LateCall
<1>2. corrs \subseteq corrs'
  BY DEF vars, chainVars, stepVars, Next, Step, Call, DispatchAnalyst, EndAnalyze, EndCorrelate,
         StartPromote, Promote, PlanAndWrite, Correlate, LateCall
<1>3. seen \subseteq corrs
  BY DEF Types
<1> QED BY <1>1, <1>2, <1>3

LEMMA NamedGrows ==
  ASSUME NEW cs, NEW ds, cs \subseteq ds
  PROVE  NamedBy(cs) \subseteq NamedBy(ds)
BY DEF NamedBy

\* A draft that PROMOTE decides on is disputed if a contradiction it has read
\* names it, and confirmed if not.
LEMMA DecisionVerdict ==
  ASSUME Types, NEW f \in Drafts, Decision(f).rule # "R6"
  PROVE  LET e == Update(f, Decision(f)) IN
         IF f \in NamedBy(seen)
         THEN e.rule = "R1" /\ e.conf = "DISPUTED" /\ e.state = "DRAFT"
         ELSE e.rule # "R1" /\ e.conf \in Levels /\ e.state = "CONFIRMED"
<1> DEFINE cs == Naming(f, seen)
<1>1. /\ StateOf(f).conf \in Confidences /\ iteration - 1 \in Nat /\ f \in Findings
  BY StateTyped, EntryTyped, LimitsAssumption DEF Types
<1>2. /\ Update(f, Decision(f)).rule = Decision(f).rule
      /\ Update(f, Decision(f)).conf = Decision(f).conf
      /\ Update(f, Decision(f)).state = Decision(f).state
      /\ Decision(f) = promote(StateOf(f).conf, cs, iteration - 1)
      /\ Decision(f).rule = Rule(StateOf(f).conf, cs, iteration - 1)
      /\ Decision(f).state = StateAfter(Decision(f).rule)
  BY DEF Update, Decision, promote
<1>3. CASE f \in NamedBy(seen)
  <2>1. PICK c \in seen : c.kind \in Serious /\ f \in c.on
    BY <1>3 DEF NamedBy
  <2>2. c \in cs
    BY <2>1 DEF Naming, Serious
  <2>3. Decision(f).state = "DRAFT" /\ Decision(f).conf = "DISPUTED"
    BY <1>1, <1>2, <2>1, <2>2, DisputesOutrank
  <2>4. OfKind(cs, Serious) # {}
    BY <2>1, <2>2 DEF OfKind
  <2>5. Decision(f).rule = "R1"
    BY <1>1, <1>2, <2>4, RuleGrounds
  <2> QED BY <1>2, <1>3, <2>3, <2>5
<1>4. CASE f \notin NamedBy(seen)
  <2>1. OfKind(cs, Serious) = {}
    BY <1>1, <1>4 DEF OfKind, Naming, NamedBy
  <2>2. Decision(f).rule \in Rules \ {"R1", "R6"}
    BY <1>1, <1>2, <2>1, RuleGrounds
  <2>3. Decision(f).state = "CONFIRMED"
    BY <1>2, <2>2 DEF StateAfter
  <2>4. Decision(f).conf \in Levels
    BY <1>1, <1>2, <2>3, ConfirmedIsSettled
  <2> QED BY <1>2, <1>4, <2>2, <2>3, <2>4
<1> QED BY <1>3, <1>4

\* What a record appended to the chain must be for the verdicts to hold.
Sound(e) ==
  \/ IsDraft(e) /\ e.fid \notin Drafts /\ e.conf \in Levels
  \/ /\ e.kind = "update"
     /\ IF e.fid \in NamedBy(seen)
        THEN e.rule = "R1" /\ e.conf = "DISPUTED" /\ e.state = "DRAFT"
        ELSE e.rule # "R1" /\ e.conf \in Levels /\ e.state = "CONFIRMED"

LEMMA VerdictsAppend ==
  ASSUME Types, History, Verdicts, DisputesLast, NEW e \in Entry, Sound(e),
         chain' = Append(chain, e), UNCHANGED seen
  PROVE  Verdicts' /\ DisputesLast'
<1>1. /\ DOMAIN chain' = DOMAIN chain \cup {Len(chain) + 1} /\ Len(chain) \in Nat
      /\ \A k \in DOMAIN chain : chain'[k] = chain[k] /\ k <= Len(chain) /\ k \in Nat
      /\ chain'[Len(chain) + 1] = e
  BY Appended DEF Types
<1>2. "DISPUTED" \notin Levels
  BY DEF Levels
<1>3. NamedBy(seen)' = NamedBy(seen)
  BY DEF NamedBy
<1>4. Verdicts'
  <2> SUFFICES ASSUME NEW k \in DOMAIN chain'
               PROVE  /\ chain'[k].conf = "DISPUTED" =>
                           /\ chain'[k].state = "DRAFT" /\ chain'[k].rule = "R1"
                           /\ chain'[k].fid \in NamedBy(seen)
                      /\ chain'[k].kind = "update" =>
                           IF chain'[k].rule = "R1" THEN chain'[k].conf = "DISPUTED"
                           ELSE chain'[k].state = "CONFIRMED"
    BY <1>3 DEF Verdicts
  <2>1. CASE k \in DOMAIN chain
    BY <1>1, <2>1 DEF Verdicts
  <2>2. CASE k = Len(chain) + 1
    <3>1. chain'[k] = e
      BY <1>1, <2>2
    <3> QED BY <1>2, <3>1 DEF Sound, IsDraft
  <2> QED BY <1>1, <2>1, <2>2
<1>5. DisputesLast'
  <2> SUFFICES ASSUME NEW j \in DOMAIN chain', NEW k \in DOMAIN chain',
                      chain'[j].conf = "DISPUTED", chain'[k].fid = chain'[j].fid, j <= k
               PROVE  chain'[k].conf = "DISPUTED"
    BY DEF DisputesLast
  <2>1. CASE k \in DOMAIN chain
    <3>1. j \in DOMAIN chain
      BY <1>1, <2>1
    <3> QED BY <1>1, <2>1, <3>1 DEF DisputesLast
  <2>2. CASE j = Len(chain) + 1 /\ k = Len(chain) + 1
    BY <2>2
  <2>3. CASE j \in DOMAIN chain /\ k = Len(chain) + 1
    <3>1. chain[j].conf = "DISPUTED" /\ chain[j].fid = e.fid /\ chain'[k] = e
      BY <1>1, <2>3
    <3>2. e.fid \in NamedBy(seen) /\ e.fid \in Drafts
      BY <2>3, <3>1 DEF Verdicts, History
    <3> QED BY <3>1, <3>2 DEF Sound
  <2> QED BY <1>1, <2>1, <2>2, <2>3
<1> QED BY <1>4, <1>5

LEMMA DraftSound ==
  ASSUME Types, NEW f \in Fresh, NEW level \in FirstLevels
  PROVE  Draft(f, level) \in Entry /\ Sound(Draft(f, level)) /\ Draft(f, level).conf \in Levels
<1>1. f \in Findings /\ f \notin Drafts
  BY FreshUnused
<1>2. Draft(f, level).conf \in Levels
  BY LevelsAssumption DEF Draft
<1> QED BY <1>1, <1>2, DraftIsDraft, DraftTyped DEF Sound

LEMMA UpdateSound ==
  ASSUME Types, NEW f \in Drafts, Decision(f).rule # "R6"
  PROVE  Update(f, Decision(f)) \in Entry /\ Sound(Update(f, Decision(f)))
<1>1. Update(f, Decision(f)).kind = "update" /\ Update(f, Decision(f)).fid = f
  BY UpdateIsUpdate
<1> QED BY <1>1, DecisionVerdict, UpdateTyped DEF Sound

\* A draft that lands late is one that no record was about.
LEMMA LateSound ==
  ASSUME Types, InFlight, InFlightUndisputed, NEW l \in late, l.tool = "record_finding"
  PROVE  l.record \in Entry /\ Sound(l.record) /\ l \in LateDrafts
<1>1. l \in LateDrafts /\ l.record \in Entry
  BY LateTyped DEF LateDrafts
<1> QED BY <1>1 DEF InFlight, InFlightUndisputed, Sound

LEMMA VerdictsStep ==
  ASSUME Types, Counted, History, InFlight, LedgerInv, [Next]_vars
  PROVE  Verdicts' /\ DisputesLast'
<1> USE DEF LedgerInv
<1>1. CASE UNCHANGED chain
  <2>1. NamedBy(seen) \subseteq NamedBy(seen')
    BY SeenSteps, NamedGrows
  <2>2. NamedBy(seen)' = NamedBy(seen')
    BY DEF NamedBy
  <2> QED BY <1>1, <2>1, <2>2 DEF Verdicts, DisputesLast
<1>2. CASE ~ UNCHANGED chain
  <2>1. UNCHANGED seen
    BY <1>2, SeenSteps
  <2>2. \E e \in Entry : Sound(e) /\ chain' = Append(chain, e)
    <3>1. CASE ChainDraft
      BY <3>1, DraftSound DEF ChainDraft
    <3>2. CASE ChainLands
      BY <1>2, <3>2, LateSound DEF ChainLands
    <3>3. CASE ChainDecides
      BY <3>3, UpdateSound DEF ChainDecides
    <3> QED BY <1>2, <3>1, <3>2, <3>3, ChainSteps DEF ChainIdle, ChainLoses
  <2> QED BY <2>1, <2>2, VerdictsAppend
<1> QED BY <1>1, <1>2

LEMMA LateStep ==
  ASSUME Types, Counted, InFlightUndisputed, AboutDrafts, Drafts \subseteq Drafts', [Next]_vars
  PROVE  InFlightUndisputed' /\ AboutDrafts'
<1>1. InFlightUndisputed'
  <2>1. ASSUME NEW l \in LateDrafts' PROVE l \in LateDrafts \/ l.record.conf \in Levels
    <3>1. l \in late' /\ l.tool = "record_finding"
      BY <2>1 DEF LateDrafts
    <3>2. CASE l \in late
      BY <3>1, <3>2 DEF LateDrafts
    <3>3. CASE l \notin late
      <4>1. ChainLoses
        BY <3>1, <3>3, ChainSteps DEF ChainIdle, ChainDraft, ChainLands, ChainDecides
      <4>2. CASE \E c \in Correlation :
                   late' = late \cup {[tool |-> "record_correlation", record |-> c]}
        BY <3>1, <3>3, <4>2
      <4>3. CASE \E f \in Fresh, level \in FirstLevels :
                   late' = late \cup {[tool |-> "record_finding", record |-> Draft(f, level)]}
        <5>1. PICK f \in Fresh, level \in FirstLevels :
                l = [tool |-> "record_finding", record |-> Draft(f, level)]
          BY <3>1, <3>3, <4>3
        <5> QED BY <5>1, DraftSound
      <4> QED BY <4>1, <4>2, <4>3 DEF ChainLoses
    <3> QED BY <3>2, <3>3
  <2> QED BY <2>1 DEF InFlightUndisputed
<1>2. ASSUME NEW c \in corrs' PROVE c.on \subseteq Drafts
  <2>1. \/ c \in corrs
        \/ c \in Correlation
        \/ \E l \in late : l.tool = "record_correlation" /\ c = l.record
    BY DEF vars, chainVars, stepVars, Next, Step, Call, DispatchAnalyst, EndAnalyze, EndCorrelate,
           StartPromote, Promote, PlanAndWrite, Correlate, LateCall
  <2> QED BY <2>1, CorrelationTyped DEF AboutDrafts
<1>3. ASSUME NEW l \in late', l.tool = "record_correlation" PROVE l.record.on \subseteq Drafts
  <2>1. CASE l \in late
    BY <1>3, <2>1 DEF AboutDrafts
  <2>2. CASE l \notin late
    <3>1. ChainLoses
      BY <1>3, <2>2, ChainSteps DEF ChainIdle, ChainDraft, ChainLands, ChainDecides
    <3>2. PICK c \in Correlation : l.record = c
      BY <1>3, <2>2, <3>1 DEF ChainLoses
    <3> QED BY <3>2, CorrelationTyped
  <2> QED BY <2>1, <2>2
<1>4. AboutDrafts'
  BY <1>2, <1>3 DEF AboutDrafts
<1> QED BY <1>1, <1>4

LEMMA LedgerInit == Init => LedgerInv
<1> SUFFICES ASSUME Init PROVE LedgerInv
  OBVIOUS
<1>1. (\A k \in DOMAIN chain : FALSE) /\ corrs = {} /\ late = {}
  <2>1. chain = <<>> /\ Len(chain) = 0 /\ corrs = {} /\ late = {}
    BY DEF Init
  <2>2. DOMAIN chain = 1..0
    BY <2>1, TypesInit DEF Types
  <2>3. \A k \in DOMAIN chain : FALSE
    BY <2>2
  <2> QED BY <2>1, <2>3
<1>2. LateDrafts = {}
  BY <1>1 DEF LateDrafts
<1> QED BY <1>1, <1>2 DEF LedgerInv, Verdicts, DisputesLast, InFlightUndisputed, AboutDrafts

LEMMA LedgerStep == LoopInv /\ LedgerInv /\ [Next]_vars => LedgerInv'
<1> SUFFICES ASSUME LoopInv, LedgerInv, [Next]_vars PROVE LedgerInv'
  OBVIOUS
<1>1. Types /\ Counted /\ History /\ Final /\ InFlight
  BY DEF LoopInv
<1>2. Verdicts' /\ DisputesLast'
  BY <1>1, VerdictsStep
<1>3. Drafts \subseteq Drafts'
  BY <1>1, HistoryStep
<1>4. InFlightUndisputed' /\ AboutDrafts'
  BY <1>1, <1>3, LateStep DEF LedgerInv
<1> QED BY <1>2, <1>4 DEF LedgerInv

LEMMA LedgerHolds == Spec => []LedgerInv
BY InvHolds, LedgerInit, LedgerStep, PTL DEF Spec

\* How a finding stands, by the records it has rather than by its last one.
DraftedBy(f)    == \E k \in DOMAIN chain : chain[k].fid = f
DisputedBy(f)   == \E k \in DOMAIN chain : chain[k].fid = f /\ chain[k].conf = "DISPUTED"
ConfirmedBy(f)  == \E k \in DOMAIN chain : chain[k].fid = f /\ chain[k].state = "CONFIRMED"

Stands(f) ==
  /\ ~ DraftedBy(f) => Standing[f] = "absent"
  /\ ConfirmedBy(f) => Standing[f] = "confirmed"
  /\ DisputedBy(f) => Standing[f] = "disputed"
  /\ DraftedBy(f) /\ ~ ConfirmedBy(f) /\ ~ DisputedBy(f) => Standing[f] = "draft"

LEMMA StandingIs == LoopInv /\ LedgerInv => \A f \in Findings : Stands(f)
<1> SUFFICES ASSUME LoopInv, LedgerInv, NEW f \in Findings PROVE Stands(f)
  OBVIOUS
<1>0. Types /\ History /\ Final /\ Verdicts /\ DisputesLast
  BY DEF LoopInv, LedgerInv
<1> USE <1>0
<1> DEFINE s ==
      CASE f \notin Drafts -> "absent"
        [] f \in Drafts /\ Settled(f) -> "confirmed"
        [] f \in Disputed /\ ~Settled(f) -> "disputed"
        [] f \in Drafts \ Disputed /\ ~Settled(f) -> "draft"
<1>1. Standing[f] = s
  BY DEF Standing
<1>2. f \in Drafts <=> DraftedBy(f)
  BY DEF Drafts, History, DraftedBy
<1>3. CASE f \notin Drafts
  <2>1. s = "absent"
    BY <1>3 DEF Disputed
  <2> QED BY <1>1, <1>2, <1>3, <2>1 DEF Stands, DraftedBy, ConfirmedBy, DisputedBy
<1>4. CASE f \in Drafts
  <2>1. PICK m \in DOMAIN chain :
          /\ StateOf(f) = chain[m] /\ chain[m].fid = f
          /\ \A k \in DOMAIN chain : chain[k].fid = f => k <= m
    BY <1>4, StateIsOnChain
  <2>2. ConfirmedBy(f) => chain[m].state = "CONFIRMED"
    <3>1. ASSUME NEW k \in DOMAIN chain, chain[k].fid = f, chain[k].state = "CONFIRMED"
          PROVE  k = m
      <4>1. k <= m /\ m <= k /\ k \in Nat /\ m \in Nat
        BY <2>1, <3>1 DEF Final, Types
      <4> QED BY <4>1
    <3> QED BY <3>1 DEF ConfirmedBy
  <2>3. DisputedBy(f) => chain[m].conf = "DISPUTED"
    BY <2>1 DEF DisputedBy, DisputesLast
  <2>4. chain[m].conf = "DISPUTED" => chain[m].state = "DRAFT"
    BY DEF Verdicts
  <2>5. Settled(f) <=> chain[m].state = "CONFIRMED"
    BY <2>1 DEF Settled
  <2>6. f \in Disputed <=> chain[m].conf = "DISPUTED"
    BY <1>4, <2>1 DEF Disputed
  <2>7. ConfirmedBy(f) => s = "confirmed"
    BY <1>4, <2>2, <2>4, <2>5, <2>6
  <2>8. DisputedBy(f) => s = "disputed"
    BY <1>4, <2>3, <2>4, <2>5, <2>6
  <2>9. ~ ConfirmedBy(f) /\ ~ DisputedBy(f) => s = "draft"
    BY <1>4, <2>1, <2>5, <2>6 DEF ConfirmedBy, DisputedBy
  <2> QED BY <1>1, <1>2, <1>4, <2>7, <2>8, <2>9 DEF Stands
<1> QED BY <1>3, <1>4

LEMMA StandingDomain ==
  /\ DOMAIN Standing = Findings /\ DOMAIN Standing' = Findings
  /\ Standing = [f \in Findings |-> Standing[f]] /\ Standing' = [f \in Findings |-> Standing'[f]]
BY DEF Standing

LEMMA StandingSame ==
  ASSUME UNCHANGED chain
  PROVE  Standing' = Standing
BY DEF Standing, Drafts, Disputed, Settled, StateOf

\* A sound record changes how its own finding stands, and no other.
LEMMA StandingAppend ==
  ASSUME LoopInv, LedgerInv, LoopInv', LedgerInv',
         NEW e \in Entry, Sound(e), chain' = Append(chain, e),
         ~ ConfirmedBy(e.fid)
  PROVE  /\ IsDraft(e) => /\ Standing[e.fid] = "absent"
                          /\ Standing' = [Standing EXCEPT ![e.fid] = "draft"]
         /\ e.kind = "update" /\ e.fid \in Drafts /\ e.fid \in NamedBy(seen) =>
              \/ Standing' = Standing
              \/ /\ Standing[e.fid] = "draft"
                 /\ Standing' = [Standing EXCEPT ![e.fid] = "disputed"]
         /\ e.kind = "update" /\ e.fid \in Drafts /\ e.fid \notin NamedBy(seen) =>
              /\ Standing[e.fid] = "draft"
              /\ Standing' = [Standing EXCEPT ![e.fid] = "confirmed"]
<1>0. Types /\ History /\ Verdicts
  BY DEF LoopInv, LedgerInv
<1> USE <1>0
<1> DEFINE n == Len(chain) + 1
<1>1. /\ DOMAIN chain' = DOMAIN chain \cup {n}
      /\ \A k \in DOMAIN chain : chain'[k] = chain[k]
      /\ n \in DOMAIN chain' /\ chain'[n] = e /\ e.fid \in Findings
  BY Appended DEF Entry
<1> HIDE DEF n
<1>2. ASSUME NEW f \in Findings
      PROVE  /\ DraftedBy(f)' <=> DraftedBy(f) \/ f = e.fid
             /\ DisputedBy(f)' <=> DisputedBy(f) \/ (f = e.fid /\ e.conf = "DISPUTED")
             /\ ConfirmedBy(f)' <=> ConfirmedBy(f) \/ (f = e.fid /\ e.state = "CONFIRMED")
  BY <1>1 DEF DraftedBy, DisputedBy, ConfirmedBy
<1>3. \A f \in Findings : Stands(f)
  BY StandingIs
<1>3a. \A f \in Findings : Stands(f)'
  <2>1. (\A f \in Findings : Stands(f))'
    BY StandingIs, PTL
  <2> QED BY <2>1
<1>4. ASSUME NEW f \in Findings, f # e.fid PROVE Standing'[f] = Standing[f]
  BY <1>2, <1>3, <1>3a, <1>4 DEF Stands
<1>5. ASSUME NEW s, Standing'[e.fid] = s PROVE Standing' = [Standing EXCEPT ![e.fid] = s]
  <2>1. \A f \in Findings : Standing'[f] = [Standing EXCEPT ![e.fid] = s][f]
    BY <1>1, <1>4, <1>5, StandingDomain
  <2> QED BY <2>1, StandingDomain
<1>6. e.fid \in Drafts <=> DraftedBy(e.fid)
  BY DEF Drafts, History, DraftedBy
<1>7. "DISPUTED" \notin Levels
  BY DEF Levels
<1>8. CASE IsDraft(e)
  <2>1. ~ DraftedBy(e.fid) /\ e.conf # "DISPUTED" /\ e.state = "DRAFT" /\ e.kind = "draft"
    BY <1>6, <1>7, <1>8 DEF Sound, IsDraft
  <2>2. Standing[e.fid] = "absent" /\ Standing'[e.fid] = "draft"
    BY <1>1, <1>2, <1>3, <1>3a, <2>1 DEF Stands, DraftedBy, DisputedBy, ConfirmedBy
  <2> QED BY <1>5, <2>1, <2>2
<1>9. CASE e.kind = "update" /\ e.fid \in Drafts /\ e.fid \in NamedBy(seen)
  <2>1. e.conf = "DISPUTED"
    BY <1>9 DEF Sound, IsDraft
  <2>2. Standing'[e.fid] = "disputed"
    BY <1>1, <1>2, <1>3a, <2>1 DEF Stands
  <2>3. Standing[e.fid] \in {"draft", "disputed"}
    BY <1>1, <1>3, <1>6, <1>9 DEF Stands
  <2>4. CASE Standing[e.fid] = "disputed"
    <3>1. \A f \in Findings : Standing'[f] = Standing[f]
      BY <1>4, <2>2, <2>4
    <3>2. Standing' = Standing
      BY <3>1, StandingDomain
    <3> QED BY <1>9, <3>2 DEF IsDraft
  <2> QED BY <1>5, <1>9, <2>2, <2>3, <2>4 DEF IsDraft
<1>10. CASE e.kind = "update" /\ e.fid \in Drafts /\ e.fid \notin NamedBy(seen)
  <2>1. e.state = "CONFIRMED"
    BY <1>10 DEF Sound, IsDraft
  <2>2. Standing'[e.fid] = "confirmed"
    BY <1>1, <1>2, <1>3a, <2>1 DEF Stands
  <2>3. ~ DisputedBy(e.fid)
    BY <1>10 DEF DisputedBy, Verdicts
  <2>4. Standing[e.fid] = "draft"
    BY <1>1, <1>3, <1>6, <1>10, <2>3 DEF Stands
  <2> QED BY <1>5, <1>10, <2>2, <2>4 DEF IsDraft
<1> QED BY <1>8, <1>9, <1>10

\* A step that leaves chains, snapshot and records alone and does not end the run.
LEMMA LedgerStutters ==
  ASSUME UNCHANGED <<chain, corrs, seen, records>>, (pc = "done") <=> (pc' = "done")
  PROVE  UNCHANGED Ledger!vars
<1>1. Standing' = Standing /\ Reported' = Reported
  BY StandingSame DEF Reported
<1>2. NamedBy(corrs)' = NamedBy(corrs) /\ NamedBy(seen)' = NamedBy(seen)
  BY DEF NamedBy
<1>3. (pc = "done")' = (pc = "done")
  OBVIOUS
<1> QED BY <1>1, <1>2, <1>3 DEF Ledger!vars

\* A draft that lands is entered.
LEMMA LedgerRecords ==
  ASSUME LoopInv, LedgerInv, LoopInv', LedgerInv',
         NEW e \in Entry, Sound(e), IsDraft(e), chain' = Append(chain, e),
         UNCHANGED <<corrs, seen, records, pc>>
  PROVE  Ledger!Next
<1>1. ~ ConfirmedBy(e.fid) /\ e.fid \in Findings
  BY DEF LoopInv, History, ConfirmedBy, Sound, IsDraft, Entry
<1>2. Standing[e.fid] = "absent" /\ Standing' = [Standing EXCEPT ![e.fid] = "draft"]
  BY <1>1, StandingAppend
<1>3. /\ Reported' = Reported /\ NamedBy(corrs)' = NamedBy(corrs)
      /\ NamedBy(seen)' = NamedBy(seen) /\ (pc = "done")' = (pc = "done")
  BY DEF Reported, NamedBy
<1>4. Ledger!Record(e.fid)
  BY <1>2, <1>3 DEF Ledger!Record
<1> QED BY <1>1, <1>4 DEF Ledger!Next

\* A correlation that lands contradicts, or says nothing to the ledger.
LEMMA LedgerContradicts ==
  ASSUME LoopInv, LedgerInv, LedgerInv', corrs \subseteq corrs',
         UNCHANGED <<chain, seen, records, pc>>
  PROVE  Ledger!Next
<1>1. /\ Standing' = Standing /\ Reported' = Reported
      /\ NamedBy(seen)' = NamedBy(seen) /\ (pc = "done")' = (pc = "done")
  BY StandingSame DEF Reported, NamedBy
<1>2. NamedBy(corrs) \subseteq NamedBy(corrs)'
  BY DEF NamedBy
<1>3. NamedBy(corrs)' \subseteq {f \in Findings : Standing[f] # "absent"}
  <2>1. ASSUME NEW f \in NamedBy(corrs)' PROVE f \in Findings /\ f \in Drafts
    <3>1. f \in Findings /\ \E c \in corrs' : f \in c.on
      BY DEF NamedBy
    <3>2. Drafts' = Drafts
      BY DEF Drafts
    <3> QED BY <3>1, <3>2 DEF LedgerInv, AboutDrafts
  <2>2. ASSUME NEW f \in Findings, f \in Drafts PROVE Standing[f] # "absent"
    <3>1. DraftedBy(f) /\ Stands(f)
      BY <2>2, StandingIs DEF Drafts, DraftedBy
    <3> QED BY <3>1 DEF Stands
  <2> QED BY <2>1, <2>2
<1>4. Ledger!Contradict
  BY <1>1, <1>2, <1>3 DEF Ledger!Contradict, Ledger!Known
<1> QED BY <1>4 DEF Ledger!Next

\* PROMOTE's snapshot weighs what is contradicted.
LEMMA LedgerWeighs ==
  ASSUME seen' = corrs, UNCHANGED <<chain, corrs, records>>, pc # "done", pc' # "done"
  PROVE  Ledger!Next
<1>1. /\ Standing' = Standing /\ Reported' = Reported
      /\ NamedBy(seen)' = NamedBy(corrs) /\ NamedBy(corrs)' = NamedBy(corrs)
      /\ (pc = "done")' = (pc = "done")
  BY StandingSame DEF Reported, NamedBy
<1>2. Ledger!Weigh
  BY <1>1 DEF Ledger!Weigh
<1> QED BY <1>2 DEF Ledger!Next

\* A decision that lands decides, or disputes once more what is disputed.
LEMMA LedgerDecides ==
  ASSUME LoopInv, LedgerInv, LoopInv', LedgerInv', NEW f \in Findings, Promote(f)
  PROVE  Ledger!Next \/ UNCHANGED Ledger!vars
<1>1. /\ f \in Drafts /\ pc = "promote" /\ Types /\ Final
      /\ \/ UNCHANGED chain
         \/ /\ ~ Settled(f) /\ Decision(f).rule # "R6"
            /\ chain' = Append(chain, Update(f, Decision(f)))
  BY PromoteEffect DEF LoopInv
<1>2. UNCHANGED <<corrs, seen, records, pc>>
  BY DEF Promote
<1>3. CASE UNCHANGED chain
  BY <1>2, <1>3, LedgerStutters
<1>4. CASE /\ ~ Settled(f) /\ Decision(f).rule # "R6"
           /\ chain' = Append(chain, Update(f, Decision(f)))
  <2> DEFINE e == Update(f, Decision(f))
  <2>1. e \in Entry /\ Sound(e) /\ e.fid = f /\ e.kind = "update"
    BY <1>1, <1>4, UpdateSound, UpdateIsUpdate
  <2>2. ~ ConfirmedBy(f)
    BY <1>1, <1>4, UnsettledIsDraft DEF ConfirmedBy
  <2>3. chain' = Append(chain, e)
    BY <1>4
  <2> HIDE DEF e
  <2>4. /\ f \in NamedBy(seen) =>
              \/ Standing' = Standing
              \/ /\ Standing[f] = "draft"
                 /\ Standing' = [Standing EXCEPT ![f] = "disputed"]
        /\ f \notin NamedBy(seen) =>
              /\ Standing[f] = "draft"
              /\ Standing' = [Standing EXCEPT ![f] = "confirmed"]
    BY <1>1, <2>1, <2>2, <2>3, StandingAppend
  <2>5. /\ Reported' = Reported /\ NamedBy(corrs)' = NamedBy(corrs)
        /\ NamedBy(seen)' = NamedBy(seen) /\ (pc = "done")' = (pc = "done") /\ pc # "done"
    BY <1>1, <1>2 DEF Reported, NamedBy
  <2>6. CASE Standing' = Standing
    BY <2>5, <2>6 DEF Ledger!vars
  <2>7. CASE /\ Standing[f] = "draft"
             /\ Standing' = [Standing EXCEPT ![f] =
                               IF f \in NamedBy(seen) THEN "disputed" ELSE "confirmed"]
    <3>1. Ledger!Decide(f)
      BY <2>5, <2>7 DEF Ledger!Decide
    <3> QED BY <3>1 DEF Ledger!Next
  <2> QED BY <2>4, <2>6, <2>7
<1> QED BY <1>1, <1>3, <1>4

\* What an iteration record says was applied stands when the record is written.
LEMMA AppliedStands ==
  ASSUME LoopInv, LedgerInv, pc = "promote", NEW p \in promotions, p.applied
  PROVE  p.fid \in Findings /\ Standing[p.fid] = Verdict(p.rule)
<1>1. p \in Proms /\ p.fid \in Findings
  BY DEF LoopInv, Types, Proms
<1>2. PICK k \in DOMAIN chain :
        chain[k].fid = p.fid /\ chain[k].kind = "update" /\ chain[k].rule = p.rule
  BY DEF LoopInv, AppliedNow, OnChain
<1>3. IF p.rule = "R1" THEN DisputedBy(p.fid) ELSE ConfirmedBy(p.fid)
  BY <1>2 DEF LedgerInv, Verdicts, DisputedBy, ConfirmedBy
<1>4. Stands(p.fid)
  BY <1>1, StandingIs
<1> QED BY <1>1, <1>3, <1>4 DEF Stands, Verdict

\* What the record of an iteration adds to the reports.
LEMMA LedgerNews ==
  ASSUME LoopInv, LedgerInv, PlanAndWrite
  PROVE  /\ Reported \subseteq Reported'
         /\ \A r \in Reported' \ Reported :
              \E f \in Findings : /\ r = [finding |-> f, verdict |-> Standing[f]]
                                 /\ Standing[f] \in {"disputed", "confirmed"}
<1>1. Types /\ Counted
  BY DEF LoopInv
<1>2. /\ pc = "promote"
      /\ iteration \in Nat /\ DOMAIN records = 1..(iteration - 1) /\ DOMAIN records' = 1..iteration
      /\ \A n \in DOMAIN records : records'[n] = records[n]
      /\ records'[iteration] = IterationRecord /\ iteration >= 1
  BY <1>1, Written
<1> DEFINE Now == {[finding |-> p.fid, verdict |-> Verdict(p.rule)] :
                     p \in {q \in promotions : q.applied}}
           Applied(n) == {[finding |-> p.fid, verdict |-> Verdict(p.rule)] :
                            p \in {q \in records[n].promotions : q.applied}}
           AppliedNext(n) == {[finding |-> p.fid, verdict |-> Verdict(p.rule)] :
                                p \in {q \in records'[n].promotions : q.applied}}
<1>3. IterationRecord.promotions = promotions
  BY DEF IterationRecord
<1>4. /\ \A n \in DOMAIN records : n \in DOMAIN records' /\ AppliedNext(n) = Applied(n)
      /\ iteration \in DOMAIN records' /\ AppliedNext(iteration) = Now
      /\ \A n \in DOMAIN records' : n \in DOMAIN records \/ n = iteration
  BY <1>2, <1>3
<1>5. /\ Reported = UNION {Applied(n) : n \in DOMAIN records}
      /\ Reported' = UNION {AppliedNext(n) : n \in DOMAIN records'}
  BY DEF Reported
<1> HIDE DEF Now, Applied, AppliedNext
<1>6. Reported' = Reported \cup Now
  BY <1>4, <1>5
<1>7. ASSUME NEW r \in Now
      PROVE  \E f \in Findings : /\ r = [finding |-> f, verdict |-> Standing[f]]
                                /\ Standing[f] \in {"disputed", "confirmed"}
  <2>1. PICK p \in promotions : p.applied /\ r = [finding |-> p.fid, verdict |-> Verdict(p.rule)]
    BY DEF Now
  <2>2. p.fid \in Findings /\ Standing[p.fid] = Verdict(p.rule)
    BY <1>2, <2>1, AppliedStands
  <2>3. Verdict(p.rule) \in {"disputed", "confirmed"}
    BY DEF Verdict
  <2> QED BY <2>1, <2>2, <2>3
<1> QED BY <1>6, <1>7

LEMMA LedgerReports ==
  ASSUME LoopInv, LedgerInv, PlanAndWrite
  PROVE  Ledger!Next
<1>1. pc = "promote" /\ UNCHANGED <<chain, corrs, seen>>
  BY Written DEF LoopInv
<1>2. /\ Standing' = Standing /\ NamedBy(corrs)' = NamedBy(corrs)
      /\ NamedBy(seen)' = NamedBy(seen) /\ (pc = "done")' \in BOOLEAN /\ pc # "done"
  BY <1>1, StandingSame DEF NamedBy
<1>3. Reported' \subseteq Reported \cup
        {[finding |-> f, verdict |-> Standing[f]] : f \in {g \in Findings : Standing[g] # "absent"}}
  BY LedgerNews
<1>4. Ledger!Report
  BY <1>2, <1>3, LedgerNews DEF Ledger!Report, Ledger!Known
<1> QED BY <1>4 DEF Ledger!Next

LEMMA LedgerMaps ==
  ASSUME LoopInv, LedgerInv, LoopInv', LedgerInv', Next
  PROVE  Ledger!Next \/ UNCHANGED Ledger!vars
<1>1. Types /\ InFlight /\ InFlightUndisputed /\ seen \subseteq corrs
  BY DEF LoopInv, LedgerInv, Types
<1>2. ASSUME NEW u \in Units, DispatchAnalyst(u) PROVE Ledger!Next \/ UNCHANGED Ledger!vars
  <2>1. UNCHANGED <<corrs, seen, records, pc>>
    BY <1>2 DEF DispatchAnalyst, stepVars
  <2>2. CASE UNCHANGED chain
    BY <2>1, <2>2, LedgerStutters
  <2>3. ASSUME NEW f \in Fresh, NEW level \in FirstLevels, chain' = Append(chain, Draft(f, level))
        PROVE  Ledger!Next
    <3>1. Draft(f, level) \in Entry /\ Sound(Draft(f, level)) /\ IsDraft(Draft(f, level))
      BY <1>1, DraftSound, DraftIsDraft, FreshUnused
    <3> QED BY <2>1, <2>3, <3>1, LedgerRecords
  <2> QED BY <1>2, <2>2, <2>3 DEF DispatchAnalyst
<1>3. ASSUME EndAnalyze \/ EndCorrelate PROVE Ledger!Next \/ UNCHANGED Ledger!vars
  <2>1. /\ UNCHANGED <<chain, corrs, records>> /\ pc # "done" /\ pc' # "done"
        /\ UNCHANGED seen \/ seen' = corrs
    BY <1>3 DEF EndAnalyze, EndCorrelate, StartPromote, chainVars
  <2> QED BY <2>1, LedgerStutters, LedgerWeighs
<1>4. ASSUME NEW c, Correlate(c) PROVE Ledger!Next
  <2>1. UNCHANGED <<chain, seen, records, pc>> /\ corrs \subseteq corrs'
    BY <1>4 DEF Correlate, stepVars
  <2> QED BY <2>1, LedgerContradicts
<1>5. ASSUME NEW l \in late, LateCall(l) PROVE Ledger!Next
  <2>1. UNCHANGED <<seen, records, pc>>
    BY <1>5 DEF LateCall, stepVars
  <2>2. CASE l.tool = "record_finding" /\ chain' = Append(chain, l.record) /\ UNCHANGED corrs
    <3>1. l.record \in Entry /\ Sound(l.record) /\ IsDraft(l.record)
      BY <1>1, <2>2, LateSound DEF InFlight
    <3> QED BY <2>1, <2>2, <3>1, LedgerRecords
  <2>3. CASE corrs' = corrs \cup {l.record} /\ UNCHANGED chain
    BY <2>1, <2>3, LedgerContradicts
  <2> QED BY <1>5, <2>2, <2>3 DEF LateCall
<1> QED BY <1>2, <1>3, <1>4, <1>5, LedgerDecides, LedgerReports DEF Next, Step, Call

\* The loop implements FindingLedger: each step of it drafts, contradicts, weighs,
\* decides, reports, or leaves the ledger as it is, whatever answers are lost and
\* whatever calls land late.
THEOREM LedgerKept == Spec => RefinesFindingLedger
<1>1. Init => Ledger!Init
  <2> SUFFICES ASSUME Init PROVE Ledger!Init
    OBVIOUS
  <2>1. corrs = {} /\ seen = {} /\ (pc = "done") = FALSE
    BY DEF Init
  <2>2. \A k \in DOMAIN chain : FALSE
    <3>1. chain = <<>> /\ Len(chain) = 0
      BY DEF Init
    <3>2. DOMAIN chain = 1..0
      BY <3>1, TypesInit DEF Types
    <3> QED BY <3>2
  <2>3. \A n \in DOMAIN records : FALSE
    <3>1. records = <<>> /\ Len(records) = 0
      BY DEF Init
    <3>2. DOMAIN records = 1..0
      BY <3>1, TypesInit DEF Types
    <3> QED BY <3>2
  <2>4. Drafts = {} /\ Disputed = {}
    BY <2>2 DEF Drafts, Disputed
  <2>5. Standing = [f \in Findings |-> "absent"]
    BY <2>4 DEF Standing
  <2>6. Reported = {}
    BY <2>3 DEF Reported
  <2>7. NamedBy(corrs) = {} /\ NamedBy(seen) = {}
    BY <2>1 DEF NamedBy
  <2> QED BY <2>1, <2>5, <2>6, <2>7 DEF Ledger!Init
<1>2. LoopInv /\ LedgerInv /\ LoopInv' /\ LedgerInv' /\ [Next]_vars => [Ledger!Next]_Ledger!vars
  <2> SUFFICES ASSUME LoopInv, LedgerInv, LoopInv', LedgerInv', [Next]_vars
               PROVE  Ledger!Next \/ UNCHANGED Ledger!vars
    OBVIOUS
  <2>1. CASE UNCHANGED vars
    BY <2>1, LedgerStutters DEF vars, chainVars, stepVars
  <2> QED BY <2>1, LedgerMaps
<1> QED BY <1>1, <1>2, InvHolds, LedgerHolds, PTL DEF Spec, RefinesFindingLedger, Ledger!Spec

\* No step changes how a decided finding stands.
VerdictKept ==
  \A f \in Findings : Standing[f] \in {"disputed", "confirmed"} => Standing'[f] = Standing[f]

\* What the records of the run report of a finding is how it stands.
ReportsStand ==
  \A r \in Reported : /\ r.finding \in Findings /\ Standing[r.finding] = r.verdict
                      /\ r.verdict \in {"disputed", "confirmed"}

\* A verdict is final: a finding that is disputed or confirmed stays so to the end
\* of the run, and what a record of the run reports of it stays true.
THEOREM VerdictsStand == Spec => [][VerdictKept]_vars /\ []ReportsStand
<1>1. LoopInv /\ LedgerInv /\ LoopInv' /\ LedgerInv' /\ [Next]_vars => VerdictKept
  <2> SUFFICES ASSUME LoopInv, LedgerInv, LoopInv', LedgerInv', [Next]_vars,
                      NEW f \in Findings, Standing[f] \in {"disputed", "confirmed"}
               PROVE  Standing'[f] = Standing[f]
    BY DEF VerdictKept
  <2>1. CASE UNCHANGED vars
    BY <2>1, StandingSame DEF vars, chainVars
  <2>2. CASE UNCHANGED Ledger!vars
    BY <2>2 DEF Ledger!vars
  <2>3. ASSUME NEW g \in Findings, Ledger!Record(g) \/ Ledger!Decide(g)
        PROVE  Standing'[f] = Standing[f]
    <3>1. f # g /\ \E s : Standing' = [Standing EXCEPT ![g] = s]
      BY <2>3 DEF Ledger!Record, Ledger!Decide
    <3> QED BY <3>1, StandingDomain
  <2>4. CASE Ledger!Contradict \/ Ledger!Weigh \/ Ledger!Report
    BY <2>4 DEF Ledger!Contradict, Ledger!Weigh, Ledger!Report
  <2> QED BY <2>1, <2>2, <2>3, <2>4, LedgerMaps DEF Ledger!Next
<1>2. Init => ReportsStand
  <2> SUFFICES ASSUME Init PROVE Reported = {}
    BY DEF ReportsStand
  <2>1. records = <<>> /\ Len(records) = 0
    BY DEF Init
  <2>2. DOMAIN records = 1..0
    BY <2>1, TypesInit DEF Types
  <2>3. \A n \in DOMAIN records : FALSE
    BY <2>2
  <2> QED BY <2>3 DEF Reported
<1>3. LoopInv /\ LedgerInv /\ LoopInv' /\ LedgerInv' /\ ReportsStand /\ [Next]_vars => ReportsStand'
  <2> SUFFICES ASSUME LoopInv, LedgerInv, LoopInv', LedgerInv', ReportsStand, [Next]_vars
               PROVE  ReportsStand'
    OBVIOUS
  <2>1. VerdictKept
    BY <1>1
  <2>2. CASE Reported' = Reported
    BY <2>1, <2>2 DEF VerdictKept, ReportsStand
  <2>3. CASE Reported' # Reported
    <3>1. PlanAndWrite
      <4>1. ~ UNCHANGED records
        BY <2>3 DEF Reported
      <4> QED BY <4>1, Unwritten
    <3>2. Ledger!Report
      <4>1. Ledger!Next
        BY <3>1, LedgerReports
      <4> QED BY <2>3, <4>1
              DEF Ledger!Next, Ledger!Record, Ledger!Decide, Ledger!Weigh, Ledger!Contradict
    <3>3. Standing' = Standing
      BY <3>2 DEF Ledger!Report
    <3>4. ASSUME NEW r \in Reported' PROVE r \in Reported \/
            \E f \in Findings : /\ r = [finding |-> f, verdict |-> Standing[f]]
                               /\ Standing[f] \in {"disputed", "confirmed"}
      BY <3>1, LedgerNews
    <3>5. ASSUME NEW f \in Findings, NEW r, r = [finding |-> f, verdict |-> Standing[f]]
          PROVE  r.finding = f /\ r.verdict = Standing[f]
      BY <3>5
    <3> QED BY <3>3, <3>4, <3>5 DEF ReportsStand
  <2> QED BY <2>2, <2>3
<1> QED BY <1>1, <1>2, <1>3, InvHolds, LedgerHolds, PTL DEF Spec
=============================================================================
