-------------------------- MODULE SelfCorrectionLoop --------------------------
(***************************************************************************)
(* The orchestrator's loop (orchestrator/loop.py): ANALYZE, CORRELATE,     *)
(* PROMOTE, PLAN, WRITE, until a termination flag fires.  Analysts and the *)
(* validator are dispatched subagents: what they record is chosen freely,  *)
(* they may time out, and a tool call in flight when a dispatch is killed  *)
(* may still land later.  The chains themselves are ChainLog's subject:    *)
(* here a record is on its chain or it is not.                             *)
(*                                                                         *)
(* multiHost tells run_loop_multi_host (units are hosts) from run_loop     *)
(* (units are analysts); they share PROMOTE and PLAN.                      *)
(***************************************************************************)
EXTENDS Promotion, Sequences, FiniteSets, FiniteSetsExt

CONSTANTS
  Units,          \* what an iteration dispatches: analysts, or hosts
  Findings,       \* the finding ids analysts may record
  FirstLevels,    \* the confidences they record them with
  Kinds,          \* the kinds of correlation the validator records
  MaxIterations,  \* max_iterations
  TokenBudget,    \* token_budget
  MaxCorrelations,\* bound: correlations recorded in a run
  MaxFaults       \* bound: timed-out dispatches and failed updates in a run

ASSUME LevelsAssumption == FirstLevels \subseteq Levels
ASSUME KindsAssumption  == Kinds \subseteq CorrelationKinds
ASSUME LimitsAssumption ==
  /\ MaxIterations \in Nat \ {0} /\ TokenBudget \in Nat
  /\ MaxCorrelations \in Nat /\ MaxFaults \in Nat

VARIABLES
  multiHost,  \* run_loop_multi_host? chosen for the run
  pc,         \* the step the loop is in
  iteration,  \* iteration_number
  waiting,    \* units still to dispatch in this ANALYZE
  chain,      \* findings.jsonl: drafts and updates, oldest first
  corrs,      \* correlations.jsonl
  before,     \* drafts and correlations read at the start of the iteration
  added,      \* analyst_finding_ids_added of this iteration
  seen,       \* the correlations PROMOTE read
  todo,       \* drafts PROMOTE has yet to decide on
  promotions, \* promotions_made of this iteration
  tokens,     \* cumulative_tokens, capped at the budget
  prior,      \* prior_disputed
  records,    \* iterations.jsonl
  reason,     \* termination_reason, "" while the loop runs
  late,       \* tool calls of killed dispatches that have not landed
  faults

chainVars == <<chain, corrs>>
stepVars  == <<before, added, seen, todo, promotions>>
vars == <<multiHost, pc, iteration, waiting, chainVars, stepVars, tokens, prior, records,
          reason, late, faults>>

-----------------------------------------------------------------------------
(* Readers of the findings chain. *)

Drafts == {chain[k].fid : k \in {j \in DOMAIN chain : chain[j].kind = "draft"}}

\* read_finding_state: the last record of finding f.
StateOf(f) == chain[Max({k \in DOMAIN chain : chain[k].fid = f})]

Unresolved == {f \in Drafts : StateOf(f).state = "DRAFT" \/ StateOf(f).conf = "DISPUTED"}
Disputed   == {f \in Drafts : StateOf(f).conf = "DISPUTED"}

\* The validator is shown the findings whose latest state is DRAFT.
Summary == {f \in Drafts : StateOf(f).state = "DRAFT"}

\* Mutant: a finding's own follow-up requests do not name it.
NamingButFollowups(f, cs) ==
  {c \in cs : f \in c.on /\ c.kind \notin {"cross_host", "request_followup"}}

\* _correlations_for_finding: every type but cross_host is matched.
Naming(f, cs) == {c \in cs : f \in c.on /\ c.kind # "cross_host"}

Followups(cs) == {c \in cs : c.kind = "request_followup"}

-----------------------------------------------------------------------------
Init ==
  /\ multiHost \in BOOLEAN
  /\ pc = "analyze" /\ iteration = 1 /\ waiting = Units
  /\ chain = <<>> /\ corrs = {}
  /\ before = [drafts |-> {}, corrs |-> {}]
  /\ added = {} /\ seen = {} /\ todo = {} /\ promotions = {}
  /\ tokens = 0 /\ prior = {} /\ records = <<>> /\ reason = ""
  /\ late = {} /\ faults = 0

Draft(f, level) ==
  [fid |-> f, kind |-> "draft", state |-> "DRAFT", conf |-> level, rule |-> "none",
   iter |-> iteration]

\* Ids not used yet: record_finding draws a fresh UUID.
Fresh == Findings \ (Drafts \cup {l.record.fid : l \in {m \in late : m.tool = "record_finding"}})

Spend == tokens' \in {tokens, IF tokens < TokenBudget THEN tokens + 1 ELSE tokens}

\* dispatch_analyst: at most one finding per dispatch here; a dispatch that
\* times out may leave a record_finding call in flight.
DispatchAnalyst(u) ==
  /\ pc = "analyze" /\ u \in waiting
  /\ waiting' = waiting \ {u}
  /\ Spend
  /\ \/ UNCHANGED <<chain, late, faults>>
     \/ \E f \in Fresh, level \in FirstLevels :
          /\ chain' = Append(chain, Draft(f, level))
          /\ UNCHANGED <<late, faults>>
     \/ \E f \in Fresh, level \in FirstLevels :
          /\ faults < MaxFaults /\ faults' = faults + 1
          /\ late' = late \cup {[tool |-> "record_finding", record |-> Draft(f, level)]}
          /\ UNCHANGED chain
  /\ UNCHANGED <<pc, iteration, corrs, stepVars, prior, records, reason>>

\* Mutant: PROMOTE considers the correlations of its own iteration only.
StartPromoteThisRound ==
  /\ pc' = "promote"
  /\ seen' = corrs \ before.corrs
  /\ todo' = Drafts
  /\ promotions' = {}

\* PROMOTE reads both chains once.
StartPromote ==
  /\ pc' = "promote"
  /\ seen' = corrs
  /\ todo' = Drafts
  /\ promotions' = {}

\* Mutant: the drafts of the whole run count as new in every iteration.
EndAnalyzeNoSnapshot ==
  /\ pc = "analyze" /\ waiting = {}
  /\ added' = Drafts
  /\ before' = [before EXCEPT !.corrs = corrs]
  /\ \/ Summary # {} /\ pc' = "correlate" /\ UNCHANGED <<seen, todo, promotions>>
     \/ Summary = {} /\ StartPromote
  /\ UNCHANGED <<iteration, waiting, chainVars, tokens, prior, records, reason, late, faults>>

\* The delta of the drafts, then CORRELATE unless there is nothing to show.
EndAnalyze ==
  /\ pc = "analyze" /\ waiting = {}
  /\ added' = Drafts \ before.drafts
  /\ before' = [before EXCEPT !.corrs = corrs]
  /\ \/ Summary # {} /\ pc' = "correlate" /\ UNCHANGED <<seen, todo, promotions>>
     \/ Summary = {} /\ StartPromote
  /\ UNCHANGED <<iteration, waiting, chainVars, tokens, prior, records, reason, late, faults>>

\* A correlation the validator may record: on one or two findings of the
\* chain; a request_followup names the unit to run again, or none ("all").
Correlation ==
  [id : {Cardinality(corrs) + Cardinality(late) + 1}, kind : Kinds \ {"request_followup"},
   on : {s \in SUBSET Drafts : Cardinality(s) \in {1, 2}}, to : {"none"},
   iter : {iteration}]
  \cup
  [id : {Cardinality(corrs) + Cardinality(late) + 1}, kind : Kinds \cap {"request_followup"},
   on : {s \in SUBSET Drafts : Cardinality(s) = 1},
   to : IF multiHost THEN Units \cup {"all"} ELSE Units, iter : {iteration}]

\* record_correlation, called by the running validator.
Correlate(c) ==
  /\ pc = "correlate" /\ c \in Correlation
  /\ Cardinality(corrs) + Cardinality(late) < MaxCorrelations
  /\ corrs' = corrs \cup {c}
  /\ UNCHANGED <<pc, iteration, waiting, chain, stepVars, tokens, prior, records,
                 reason, late, faults>>

\* The validator returns, or is killed with one call in flight.
EndCorrelate ==
  /\ pc = "correlate"
  /\ Spend
  /\ StartPromote
  /\ \/ UNCHANGED <<late, faults>>
     \/ \E c \in Correlation :
          /\ Cardinality(corrs) + Cardinality(late) < MaxCorrelations
          /\ faults < MaxFaults /\ faults' = faults + 1
          /\ late' = late \cup {[tool |-> "record_correlation", record |-> c]}
  /\ UNCHANGED <<iteration, waiting, chainVars, before, added, prior, records, reason>>

\* The call in flight when its dispatch was killed lands after all.
LateCall(l) ==
  /\ l \in late /\ late' = late \ {l}
  /\ \/ /\ l.tool = "record_finding"
        /\ chain' = Append(chain, l.record) /\ UNCHANGED corrs
     \/ /\ l.tool = "record_correlation"
        /\ corrs' = corrs \cup {l.record} /\ UNCHANGED chain
  /\ UNCHANGED <<pc, iteration, waiting, stepVars, tokens, prior, records, reason, faults>>

-----------------------------------------------------------------------------
(* PROMOTE. *)

ValidTransition(old, new) ==
  IF old = "DRAFT" THEN new \in States ELSE old = "CONFIRMED" /\ new = "CONFIRMED"

\* The gates of update_finding that a decision can meet.
Accepted(f, d) ==
  /\ d.driving = {} => d.rule = "R5"
  /\ f \in Drafts
  /\ ValidTransition(StateOf(f).state, d.state)
  /\ d.driving \subseteq corrs

Update(f, d) ==
  [fid |-> f, kind |-> "update", state |-> d.state, conf |-> d.conf, rule |-> d.rule,
   iter |-> iteration]

\* Mutant: whether a finding is settled is taken from the iteration records.
SettledByRecords(f) ==
  \E n \in DOMAIN records : \E p \in records[n].promotions :
    p.fid = f /\ p.applied /\ p.rule # "R1"

Settled(f) == StateOf(f).state = "CONFIRMED"

Recorded(f, d, applied, error) ==
  promotions' = promotions
    \cup {[fid |-> f, rule |-> d.rule, applied |-> applied, error |-> error]}

\* Mutant of Outcome: every call that was made counts as applied.
OutcomeAlwaysApplied(f, d) ==
  \/ /\ Accepted(f, d)
     /\ chain' = Append(chain, Update(f, d))
     /\ Recorded(f, d, TRUE, FALSE) /\ UNCHANGED faults
  \/ /\ UNCHANGED chain
     /\ Recorded(f, d, TRUE, FALSE)
     /\ faults < MaxFaults /\ faults' = faults + 1

\* The outcome of one update_finding call: it lands and is answered, it lands
\* and the answer is lost, or it fails before it writes.
Outcome(f, d) ==
  \/ /\ Accepted(f, d)
     /\ chain' = Append(chain, Update(f, d))
     /\ \/ Recorded(f, d, TRUE, FALSE) /\ UNCHANGED faults
        \/ Recorded(f, d, FALSE, TRUE) /\ faults < MaxFaults /\ faults' = faults + 1
  \/ /\ UNCHANGED chain
     /\ Recorded(f, d, FALSE, TRUE)
     /\ \/ ~Accepted(f, d) /\ UNCHANGED faults
        \/ faults < MaxFaults /\ faults' = faults + 1

\* What R1 to R6 decide on finding f now.
Decision(f) == promote(StateOf(f).conf, Naming(f, seen), iteration - 1)

\* One finding of the loop over the drafts.
Promote(f) ==
  /\ pc = "promote" /\ f \in todo /\ todo' = todo \ {f}
  /\ \/ Settled(f) /\ UNCHANGED <<chain, promotions, faults>>
     \/ /\ ~Settled(f) /\ Decision(f).rule = "R6"
        /\ Recorded(f, Decision(f), FALSE, FALSE) /\ UNCHANGED <<chain, faults>>
     \/ ~Settled(f) /\ Decision(f).rule # "R6" /\ Outcome(f, Decision(f))
  /\ UNCHANGED <<pc, iteration, waiting, corrs, before, added, seen, tokens, prior,
                 records, reason, late>>

-----------------------------------------------------------------------------
(* PLAN and WRITE. *)

NewCorrelations == seen \ before.corrs

\* The four flags, in the order that names the termination reason.
FlagA == Unresolved = {}

\* Mutant of FlagB: a set of disputes that has grown counts as unchanged.
FlagBGrown == iteration > 1 /\ prior \subseteq Disputed /\ Disputed # {}
FlagB == iteration > 1 /\ prior = Disputed /\ Disputed # {}
FlagC == tokens >= TokenBudget

\* Mutant of FlagMax: one iteration too many.
FlagMaxLate == iteration > MaxIterations
FlagMax == iteration >= MaxIterations

Flag ==
  IF FlagA THEN "R_a" ELSE IF FlagB THEN "R_b" ELSE IF FlagC THEN "R_c"
  ELSE IF FlagMax THEN "max_iterations" ELSE ""

\* Mutant of NextUnits: a follow-up is served only if the finding it is about
\* is still disputed.
NextUnitsDisputed ==
  {c.to : c \in {d \in Followups(NewCorrelations) : d.on \subseteq Disputed}}

\* What the follow-up requests of this iteration ask to run next.  Without any
\* the multi-host loop passes None on, which stands for every host.
NextUnits ==
  LET asked == {c.to : c \in Followups(NewCorrelations)} IN
  IF ~multiHost THEN asked
  ELSE IF asked = {} \/ "all" \in asked THEN Units
  ELSE asked

\* The line of iterations.jsonl, with the sets its flags were computed from.
IterationRecord ==
  [number |-> iteration, added |-> added, correlated |-> NewCorrelations,
   promotions |-> promotions, flag |-> Flag, disputed |-> Disputed, next |-> NextUnits]

NextIteration ==
  /\ iteration' = iteration + 1
  /\ prior' = Disputed
  /\ waiting' = NextUnits
  /\ before' = [before EXCEPT !.drafts = Drafts]
  /\ pc' = "analyze" /\ UNCHANGED reason

Finish(why) ==
  /\ pc' = "done" /\ reason' = why
  /\ UNCHANGED <<iteration, prior, waiting, before>>

PlanAndWrite ==
  /\ pc = "promote" /\ todo = {}
  /\ records' = Append(records, IterationRecord)
  /\ \/ Flag # "" /\ Finish(Flag)
     \/ Flag = "" /\ NextUnits = {} /\ Finish("no_followup_pending")
     \/ Flag = "" /\ NextUnits # {} /\ NextIteration
  /\ UNCHANGED <<chainVars, added, seen, todo, promotions, tokens, late, faults>>

Step ==
  /\ UNCHANGED multiHost
  /\ \/ \E u \in Units : DispatchAnalyst(u)
     \/ EndAnalyze
     \/ EndCorrelate
     \/ \E f \in Findings : Promote(f)
     \/ PlanAndWrite

\* What validators record, and what dispatches that were killed had begun to.
Call ==
  /\ UNCHANGED multiHost
  /\ \/ pc = "correlate" /\ \E c \in Correlation : Correlate(c)
     \/ \E l \in late : LateCall(l)

Next == Step \/ Call

\* Dispatches end (they have a timeout) and update_finding answers or fails.
Fairness == WF_vars(Step)

Spec == Init /\ [][Next]_vars /\ Fairness

-----------------------------------------------------------------------------
(* Properties. *)

Entry == [fid : Findings, kind : {"draft", "update"}, state : States,
          conf : Confidences, rule : Rules \cup {"none"}, iter : 1..MaxIterations]

\* Every variable keeps its type.
TypeOK ==
  /\ multiHost \in BOOLEAN
  /\ pc \in {"analyze", "correlate", "promote", "done"}
  /\ iteration \in 1..MaxIterations
  /\ waiting \subseteq Units
  /\ chain \in Seq(Entry)
  /\ \A c \in corrs \cup seen : c.kind \in Kinds /\ c.on \subseteq Findings
  /\ before.drafts \subseteq Findings /\ before.corrs \subseteq corrs
  /\ added \subseteq Findings /\ todo \subseteq Findings /\ prior \subseteq Findings
  /\ tokens \in 0..TokenBudget /\ faults \in 0..MaxFaults
  /\ \A p \in promotions : p.fid \in Findings /\ p.rule \in Rules

\* A finding is confirmed at most once: an update whose answer was lost is not
\* sent again in the next iteration.
ConfirmedOnce ==
  \A f \in Findings :
    Cardinality({k \in DOMAIN chain : chain[k].fid = f /\ chain[k].state = "CONFIRMED"}) <= 1

\* No call of a killed dispatch is, or was, in flight and no update has failed.
Undisturbed == faults = 0

\* In an undisturbed run no finding is confirmed while a material or fundamental
\* contradiction that names it is on record (promotion.py: "Disputes outrank
\* corroboration").
ContradictionBlocks ==
  Undisturbed =>
    \A k \in DOMAIN chain : chain[k].state = "CONFIRMED" =>
      \A c \in corrs :
        c.kind \in Serious /\ chain[k].fid \in c.on => c.iter > chain[k].iter

\* In an undisturbed run R5 confirms by silence only: no correlation of any other
\* type than cross_host, a pending follow-up included, has ever named the finding.
SilenceIsSilence ==
  Undisturbed =>
    \A k \in DOMAIN chain : chain[k].rule = "R5" =>
      \A c \in corrs :
        c.kind # "cross_host" /\ chain[k].fid \in c.on => c.iter > chain[k].iter

\* A promotion recorded as applied is on the findings chain.
AppliedIsOnChain ==
  \A n \in DOMAIN records : \A p \in records[n].promotions : p.applied =>
    \E k \in DOMAIN chain : /\ chain[k].fid = p.fid /\ chain[k].kind = "update"
                            /\ chain[k].iter = records[n].number
                            /\ chain[k].rule = p.rule

\* A run that stops on R_b has seen the same findings disputed at the end of
\* its last two iterations.
StalemateIsReal ==
  reason = "R_b" =>
    /\ Len(records) >= 2
    /\ records[Len(records)].disputed # {}
    /\ records[Len(records)].disputed = records[Len(records) - 1].disputed

\* In an undisturbed run the follow-up a validator asked for is run in the next
\* iteration, or no further iteration runs; and a run does not stop for want of
\* follow-ups while one is pending.
FollowupsServed ==
  Undisturbed =>
    \A n \in DOMAIN records : \A c \in Followups(corrs) : c.iter = n =>
      /\ c.to = "all" \/ c.to \in records[n].next
      /\ n = Len(records) => reason # "no_followup_pending"

\* In an undisturbed run each draft of a finished iteration is counted in exactly
\* one iteration.
FindingsAccounted ==
  \A f \in Drafts :
    LET counted == {n \in DOMAIN records : f \in records[n].added} IN
    /\ Cardinality(counted) <= 1
    /\ Undisturbed /\ counted = {} =>
         \A k \in DOMAIN chain :
           chain[k].fid = f /\ chain[k].kind = "draft" => chain[k].iter > Len(records)

\* The findings as a ledger: how each stands by its last record, which of them
\* the contradictions on record name, and which those PROMOTE has read.
Standing ==
  [f \in Findings |->
     CASE f \notin Drafts -> "absent"
       [] f \in Drafts /\ Settled(f) -> "confirmed"
       [] f \in Disputed /\ ~Settled(f) -> "disputed"
       [] f \in Drafts \ Disputed /\ ~Settled(f) -> "draft"]

NamedBy(cs) == {f \in Findings : \E c \in cs : c.kind \in Serious /\ f \in c.on}

Verdict(rule) == IF rule = "R1" THEN "disputed" ELSE "confirmed"

\* What the iteration records say was applied.
Reported ==
  UNION {{[finding |-> p.fid, verdict |-> Verdict(p.rule)] :
            p \in {q \in records[n].promotions : q.applied}} : n \in DOMAIN records}

Ledger == INSTANCE FindingLedger WITH
  standing <- Standing, contradicted <- NamedBy(corrs), weighed <- NamedBy(seen),
  reported <- Reported, over <- (pc = "done")

\* The loop implements the ledger: whatever is lost or late, a finding is decided
\* at most once, by what PROMOTE has read; a dispute is not lifted by anything that
\* comes later; and what a record says was applied stands.
RefinesFindingLedger == Ledger!Spec

\* The run gets on to its end: until a flag has fired the loop can go on, it
\* writes one record per iteration and never more than max_iterations (each
\* step of an iteration uses up a dispatch, a finding to decide on, or the
\* iteration), although the multi-host loop never runs out of hosts.
RunEnds ==
  /\ pc # "done" => ENABLED Step
  /\ iteration <= MaxIterations
  /\ Len(records) = iteration - (IF pc = "done" THEN 0 ELSE 1)
  /\ pc = "done" <=> reason # ""

-----------------------------------------------------------------------------
(* What docs and comments say and the loop does not do. *)

\* promotion.py: if a finding is DISPUTED and a new corroboration arrives, R3
\* and R4 still fire and override the dispute.
CorroborationOverridesDispute ==
  \A f \in todo \cap Disputed :
    OfKind(Naming(f, seen), {"strong", "moderate"}) # {} => Decision(f).rule \in {"R3", "R4"}

\* loop.py: cross_host correlations feed R3 like same-host corroboration.
CrossHostCorroborates ==
  \A f \in todo :
    LET named == {c \in seen : f \in c.on} IN
    named # {} /\ (\A c \in named : c.kind = "cross_host") => Decision(f).rule = "R3"
=============================================================================
