------------------------- MODULE RecordGatesProofs -------------------------
(***************************************************************************)
(* For any callers, calls and bounds: what records cite is on the audit    *)
(* log, and what they name is on its own log.  A caller's gates are read   *)
(* long before its record lands; the argument is that the logs only grow,  *)
(* so that what a gate has seen is still there, and that each job carries  *)
(* what its gates have seen.  And if one caller at a time may update, what *)
(* it has read of a finding is still so when its update lands.             *)
(* The last section proves the types and who holds the audit log's lock.   *)
(***************************************************************************)
EXTENDS RecordGates, SequenceTheorems, FiniteSetTheorems, WellFoundedInduction, TLAPS

\* Some sequence, whatever its elements.
IsLog(s) == \E S : s \in Seq(S)

\* What the gates of record_finding leave of a reference.
Rests(ref) ==
    /\ ref.line \in DOMAIN audit /\ audit[ref.line].tool = ref.tool
    /\ ref.tool \in FindingTools \/ Cites(ref)

\* What the gates of update_finding have seen.
Drives(call) ==
    /\ \E j \in Drafts : findings[j].id = call.id
    /\ call.driving \subseteq DOMAIN correlations
    /\ call.driving = {} => call.rule = "R5"

Correlating(j) ==
    /\ j = [pc |-> j.pc, then |-> "correlate", call |-> j.call]
    /\ j.pc \in {"resolved", "reserve", "correlate"}
    /\ \A r \in j.call.refs : Cites(r)

Updating(j) ==
    /\ j = [pc |-> j.pc, then |-> "update", call |-> j.call, from |-> j.from]
    /\ j.pc \in {"reserve", "update"}
    /\ Drives(j.call)

\* The job of a caller carries what its gates have seen.
JobHolds(j) ==
    \/ j.pc \in {"idle", "log"}
    \/ /\ j = [pc |-> j.pc, call |-> j.call] /\ j.pc \in {"correct", "draft"}
       /\ \A r \in j.call.refs : Rests(r)
    \/ Correlating(j)
    \/ Updating(j)

\* A record of the findings log is a draft or an update.
Kinds == \A i \in DOMAIN findings : findings[i].kind \in {"draft", "update"}

GatesInv ==
    /\ IsLog(audit) /\ IsLog(findings) /\ IsLog(correlations)
    /\ \E S : job \in [Callers -> S]
    /\ \A c \in Callers : JobHolds(job[c])
    /\ Kinds /\ CitationsHold /\ RecordsResolve

-----------------------------------------------------------------------------
(* Logs. *)

LEMMA LogAppend ==
  ASSUME NEW s, IsLog(s), NEW e
  PROVE  /\ IsLog(Append(s, e)) /\ Len(s) \in Nat /\ DOMAIN s = 1 .. Len(s)
         /\ DOMAIN Append(s, e) = 1 .. (Len(s) + 1)
         /\ \A i \in DOMAIN s : Append(s, e)[i] = s[i]
         /\ Append(s, e)[Len(s) + 1] = e
<1>1. PICK S : s \in Seq(S)
  BY DEF IsLog
<1>2. s \in Seq(S \cup {e}) /\ e \in S \cup {e}
  BY <1>1
<1>3. Append(s, e) \in Seq(S \cup {e}) /\ Len(Append(s, e)) = Len(s) + 1
  BY <1>2, AppendProperties
<1> QED BY <1>1, <1>2, <1>3, AppendProperties DEF IsLog

\* A log that was there is there, record by record.
Extends(s, t) == \A i \in DOMAIN s : i \in DOMAIN t /\ t[i] = s[i]

LEMMA AppendExtends ==
  ASSUME NEW s, IsLog(s), NEW e
  PROVE  Extends(s, Append(s, e)) /\ IsLog(Append(s, e))
  BY LogAppend DEF Extends

\* What gates have seen stays true while the logs grow.
LEMMA SeenStays ==
  ASSUME Extends(audit, audit'), Extends(findings, findings'),
         Extends(correlations, correlations')
  PROVE  /\ \A r : (Cites(r) => Cites(r)') /\ (Rests(r) => Rests(r)')
         /\ \A call : Drives(call) => Drives(call)'
         /\ \A j : JobHolds(j) => JobHolds(j)'
<1>1. \A r : (Cites(r) => Cites(r)') /\ (Rests(r) => Rests(r)')
  BY DEF Extends, Cites, Rests
<1>2. \A call : Drives(call) => Drives(call)'
  BY DEF Extends, Drives, Drafts
<1> QED BY <1>1, <1>2 DEF JobHolds, Correlating, Updating

-----------------------------------------------------------------------------
(* Gates. *)

\* No tool has more than six gates.
LEMMA LeastIndex ==
  ASSUME NEW T, T \subseteq 1 .. 6, T # {}
  PROVE  \E i \in T : \A j \in T : i <= j
<1>1. 1 .. 6 = {1, 2, 3, 4, 5, 6}
  OBVIOUS
<1>2. CASE 1 \in T
  BY <1>1, <1>2
<1>3. CASE 1 \notin T /\ 2 \in T
  BY <1>1, <1>3
<1>4. CASE T \cap {1, 2} = {} /\ 3 \in T
  BY <1>1, <1>4
<1>5. CASE T \cap {1, 2, 3} = {} /\ 4 \in T
  BY <1>1, <1>5
<1>6. CASE T \cap {1, 2, 3, 4} = {} /\ 5 \in T
  BY <1>1, <1>6
<1>7. CASE T = {6}
  BY <1>7
<1> QED BY <1>1, <1>2, <1>3, <1>4, <1>5, <1>6, <1>7

\* If no rejection is named, no gate has failed.
LEMMA NoGateFails ==
  ASSUME NEW gates, NEW n \in 1 .. 6, DOMAIN gates = 1 .. n,
         FirstFailing(gates) = None, NEW k \in 1 .. n
  PROVE  gates[k] = None
<1> DEFINE bad == {i \in DOMAIN gates : gates[i] # None}
<1>1. SUFFICES ASSUME bad # {} PROVE FALSE
  OBVIOUS
<1>2. PICK i \in bad : \A j \in bad : i <= j
  BY <1>1, LeastIndex
<1>3. (CHOOSE m \in bad : \A j \in bad : m <= j) \in bad
  BY <1>2
<1> HIDE DEF bad
<1>4. FirstFailing(gates) = gates[CHOOSE m \in bad : \A j \in bad : m <= j]
  BY <1>1 DEF FirstFailing, bad
<1> QED BY <1>3, <1>4 DEF bad

LEMMA NoneIsNoText ==
  /\ "invalid_audit_ref" # None /\ "empty_correlations_for_non_R5" # None
  /\ "unknown_finding" # None /\ "unknown_correlation" # None
  /\ "role_not_permitted" # None /\ "invalid_state_transition" # None
  BY CallsAssumption DEF Rejections

LEMMA FindingAdmitted ==
  ASSUME NEW c, NEW call, FindingRefusal(c, call) = None, NEW r \in call.refs
  PROVE  Cites(r) \/ Correctable(r)
<1> DEFINE g1 == Gate(Role[c] # None /\ Role[c] # call.analyst, "role_not_permitted")
           g2 == Gate(~ call.registered, "evidence_not_found")
           g3 == Gate(call.analyst \notin Analysts, "unknown_analyst")
           g4 == Gate(call.confidence = "DISPUTED", "disputed_self_marked")
           g5 == Gate(\E ref \in call.refs : ~ Cites(ref) /\ ~ Correctable(ref),
                      "invalid_audit_ref")
<1>1. FirstFailing(<<g1, g2, g3, g4, g5>>) = None
  BY DEF FindingRefusal
<1> HIDE DEF g1, g2, g3, g4, g5
<1>2. DOMAIN <<g1, g2, g3, g4, g5>> = 1 .. 5 /\ <<g1, g2, g3, g4, g5>>[5] = g5
  OBVIOUS
<1>3. g5 = None
  BY <1>1, <1>2, NoGateFails
<1>4. (\E ref \in call.refs : ~ Cites(ref) /\ ~ Correctable(ref)) => g5 = "invalid_audit_ref"
  BY DEF g5, Gate
<1> QED BY <1>3, <1>4, NoneIsNoText

LEMMA CorrelationAdmitted ==
  ASSUME NEW c, NEW call, CorrelationRefusal(c, call) = None, NEW r \in call.refs
  PROVE  Cites(r)
<1> DEFINE g1 == Gate(Role[c] # None /\ Role[c] # "validator", "role_not_permitted")
           g2 == Gate(call.type \notin Types, "unknown_type")
           g3 == Gate(~ call.registered, "unknown_case_id")
           g4 == Gate(\E ref \in call.refs : ~ Cites(ref), "invalid_audit_ref")
<1>1. FirstFailing(<<g1, g2, g3, g4>>) = None
  BY DEF CorrelationRefusal
<1> HIDE DEF g1, g2, g3, g4
<1>2. DOMAIN <<g1, g2, g3, g4>> = 1 .. 4 /\ <<g1, g2, g3, g4>>[4] = g4
  OBVIOUS
<1>3. g4 = None
  BY <1>1, <1>2, NoGateFails
<1>4. (\E ref \in call.refs : ~ Cites(ref)) => g4 = "invalid_audit_ref"
  BY DEF g4, Gate
<1> QED BY <1>3, <1>4, NoneIsNoText

LEMMA UpdateAdmitted ==
  ASSUME NEW c, NEW call, UpdateRefusal(c, call) = None
  PROVE  /\ Of(call.id) # {} /\ call.driving \subseteq DOMAIN correlations
         /\ call.driving = {} => call.rule = "R5"
         /\ Role[c] \in {None, "orchestrator"}
         /\ ValidTransition(StateOf(call.id), call.to)
<1> DEFINE g1 == Gate(Role[c] # None /\ Role[c] # "orchestrator", "role_not_permitted")
           g2 == Gate(call.rule \notin Rules, "unknown_rule")
           g3 == Gate(Unsupported(call), "empty_correlations_for_non_R5")
           g4 == Gate(Of(call.id) = {}, "unknown_finding")
           g5 == Gate(Of(call.id) # {} /\ ~ ValidTransition(StateOf(call.id), call.to),
                      "invalid_state_transition")
           g6 == Gate(~ (call.driving \subseteq DOMAIN correlations), "unknown_correlation")
<1>1. FirstFailing(<<g1, g2, g3, g4, g5, g6>>) = None
  BY DEF UpdateRefusal
<1> HIDE DEF g1, g2, g3, g4, g5, g6
<1> DEFINE gates == <<g1, g2, g3, g4, g5, g6>>
<1>2. DOMAIN gates = 1 .. 6 /\ gates[1] = g1 /\ gates[3] = g3 /\ gates[4] = g4
        /\ gates[5] = g5 /\ gates[6] = g6
  OBVIOUS
<1>3. g1 = None /\ g3 = None /\ g4 = None /\ g5 = None /\ g6 = None
  <2> HIDE DEF gates
  <2> QED BY <1>1, <1>2, NoGateFails DEF gates
<1>4. /\ Unsupported(call) => g3 = "empty_correlations_for_non_R5"
      /\ Of(call.id) = {} => g4 = "unknown_finding"
      /\ ~ (call.driving \subseteq DOMAIN correlations) => g6 = "unknown_correlation"
      /\ Role[c] \notin {None, "orchestrator"} => g1 = "role_not_permitted"
      /\ Of(call.id) # {} /\ ~ ValidTransition(StateOf(call.id), call.to)
           => g5 = "invalid_state_transition"
  BY DEF g1, g3, g4, g5, g6, Gate
<1>5. /\ ~ Unsupported(call) /\ Of(call.id) # {} /\ call.driving \subseteq DOMAIN correlations
      /\ Role[c] \in {None, "orchestrator"} /\ ValidTransition(StateOf(call.id), call.to)
  BY <1>3, <1>4, NoneIsNoText
<1> QED BY <1>5 DEF Unsupported

-----------------------------------------------------------------------------
(* Steps in general. *)

LEMMA JobSet ==
  ASSUME NEW c \in Callers, \E S : job \in [Callers -> S], NEW x,
         job' = [job EXCEPT ![c] = x]
  PROVE  /\ \E S : job' \in [Callers -> S]
         /\ job'[c] = x /\ \A v \in Callers \ {c} : job'[v] = job[v]
<1>1. PICK S : job \in [Callers -> S]
  OBVIOUS
<1>2. job' \in [Callers -> S \cup {x}]
  BY <1>1
<1> QED BY <1>1, <1>2

LEMMA RecordsStay ==
  ASSUME GatesInv, Extends(audit, audit'), findings' = findings, correlations' = correlations
  PROVE  Kinds' /\ CitationsHold' /\ RecordsResolve'
<1>0. Kinds'
  BY DEF GatesInv, Kinds
<1>1. RecordsResolve'
  BY DEF GatesInv, RecordsResolve, Drafts, Updates
<1>2. \A r : Cites(r) => Cites(r)'
  BY DEF Extends, Cites
<1>3. CitationsHold'
  BY <1>2 DEF GatesInv, CitationsHold, Drafts, Extends
<1> QED BY <1>0, <1>1, <1>3

LEMMA CallerStep ==
  ASSUME GatesInv, NEW c \in Callers, NEW x, job' = [job EXCEPT ![c] = x], JobHolds(x)',
         Extends(audit, audit'), Extends(findings, findings'),
         Extends(correlations, correlations'),
         IsLog(audit'), IsLog(findings'), IsLog(correlations'),
         Kinds', CitationsHold', RecordsResolve'
  PROVE  GatesInv'
<1>1. /\ \E S : job' \in [Callers -> S]
      /\ job'[c] = x /\ \A v \in Callers \ {c} : job'[v] = job[v]
  BY JobSet DEF GatesInv
<1>2. \A j : JobHolds(j) => JobHolds(j)'
  BY SeenStays
<1>3. ASSUME NEW v \in Callers PROVE JobHolds(job[v])'
  <2>1. CASE v = c
    BY <1>1, <2>1
  <2>2. CASE v # c
    BY <1>1, <1>2, <2>2 DEF GatesInv
  <2> QED BY <2>1, <2>2
<1> QED BY <1>1, <1>3 DEF GatesInv

\* A step of one caller that writes no record.
LEMMA QuietStep ==
  ASSUME GatesInv, NEW c \in Callers, NEW x, job' = [job EXCEPT ![c] = x], JobHolds(x),
         audit' = audit \/ (\E e : audit' = Append(audit, e)),
         findings' = findings, correlations' = correlations
  PROVE  GatesInv'
<1>1. Extends(audit, audit') /\ IsLog(audit')
  BY AppendExtends DEF GatesInv, Extends
<1>2. Extends(findings, findings') /\ Extends(correlations, correlations')
  BY DEF Extends
<1>3. IsLog(findings') /\ IsLog(correlations')
  BY DEF GatesInv
<1>4. JobHolds(x)'
  BY <1>1, <1>2, SeenStays
<1> QED BY <1>1, <1>2, <1>3, <1>4, CallerStep, RecordsStay

LEMMA Ended == JobHolds(Idle) /\ \A t, s : JobHolds(ToLog(t, s))
  BY DEF JobHolds, Idle, ToLog

-----------------------------------------------------------------------------
(* The steps of a call before its record. *)

LEMMA BeginFindingStep ==
  ASSUME GatesInv, NEW c \in Callers, NEW call \in FindingCalls, BeginFinding(c, call)
  PROVE  GatesInv'
<1> DEFINE why == FindingRefusal(c, call)
           kept == [call EXCEPT !.refs = {Corrected(r) : r \in call.refs},
                                !.host = HostOf(c, call)]
           pc == IF \E r \in call.refs : ~ Cites(r) THEN "correct" ELSE "draft"
<1>1. UNCHANGED <<audit, findings, correlations>>
  BY DEF BeginFinding
<1>2. CASE why # None
  <2>1. job' = [job EXCEPT ![c] = ToLog("record_finding", why)]
    BY <1>2 DEF BeginFinding
  <2> QED BY <1>1, <2>1, QuietStep, Ended
<1>3. CASE why = None
  <2>1. job' = [job EXCEPT ![c] = [pc |-> pc, call |-> kept]]
    BY <1>3 DEF BeginFinding
  <2>2. kept.refs = {Corrected(r) : r \in call.refs}
    BY CallsAssumption
  <2>3. \A r \in call.refs : Cites(r) \/ Correctable(r)
    BY <1>3, FindingAdmitted
  <2>4. ASSUME NEW r \in call.refs PROVE Rests(Corrected(r))
    <3>1. CASE Cites(r)
      BY <3>1 DEF Corrected, Rests, Cites, Ok
    <3>2. CASE ~ Cites(r)
      <4>1. r.line \in DOMAIN audit /\ audit[r.line].tool \in FindingTools
        BY <2>3, <3>2 DEF Correctable
      <4>2. Corrected(r).line = r.line /\ Corrected(r).tool = audit[r.line].tool
        BY <3>2 DEF Corrected
      <4> QED BY <4>1, <4>2 DEF Rests
    <3> QED BY <3>1, <3>2
  <2> HIDE DEF kept
  <2>5. PICK x : x = [pc |-> pc, call |-> kept]
    OBVIOUS
  <2>6. x.pc = pc /\ x.call = kept /\ x = [pc |-> x.pc, call |-> x.call]
    BY <2>5
  <2>7. \A r \in x.call.refs : Rests(r)
    BY <2>2, <2>4, <2>6
  <2>8. JobHolds(x)
    BY <2>6, <2>7 DEF JobHolds
  <2> QED BY <1>1, <2>1, <2>5, <2>8, QuietStep
<1> QED BY <1>2, <1>3

LEMMA BeginCorrelationStep ==
  ASSUME GatesInv, NEW c \in Callers, NEW call \in CorrelationCalls, BeginCorrelation(c, call)
  PROVE  GatesInv'
<1> DEFINE why == CorrelationRefusal(c, call)
           full == Resolved(call)
           pc == IF full # call THEN "resolved" ELSE "reserve"
<1>1. UNCHANGED <<audit, findings, correlations>>
  BY DEF BeginCorrelation
<1>2. CASE why # None
  <2>1. job' = [job EXCEPT ![c] = ToLog("record_correlation", why)]
    BY <1>2 DEF BeginCorrelation
  <2> QED BY <1>1, <2>1, QuietStep, Ended
<1>3. CASE why = None
  <2>1. job' = [job EXCEPT ![c] = [pc |-> pc, then |-> "correlate", call |-> full]]
    BY <1>3 DEF BeginCorrelation
  <2>2. full.refs = call.refs
    BY CallsAssumption DEF Resolved
  <2>3. \A r \in full.refs : Cites(r)
    BY <1>3, <2>2, CorrelationAdmitted
  <2> HIDE DEF full
  <2>4. PICK x : x = [pc |-> pc, then |-> "correlate", call |-> full]
    OBVIOUS
  <2>5. /\ x.pc = pc /\ x.call = full
        /\ x = [pc |-> x.pc, then |-> "correlate", call |-> x.call]
    BY <2>4
  <2>6. JobHolds(x)
    BY <2>3, <2>5 DEF JobHolds, Correlating
  <2> QED BY <1>1, <2>1, <2>4, <2>6, QuietStep
<1> QED BY <1>2, <1>3

LEMMA BeginUpdateStep ==
  ASSUME GatesInv, NEW c \in Callers, NEW call \in UpdateCalls, BeginUpdate(c, call)
  PROVE  GatesInv'
<1> DEFINE why == UpdateRefusal(c, call)
<1>1. UNCHANGED <<audit, findings, correlations>>
  BY DEF BeginUpdate
<1>2. CASE why # None
  <2>1. job' = [job EXCEPT ![c] = ToLog("update_finding", why)]
    BY <1>2 DEF BeginUpdate
  <2> QED BY <1>1, <2>1, QuietStep, Ended
<1>3. CASE why = None
  <2>1. PICK x : x = [pc |-> "reserve", then |-> "update", call |-> call,
                      from |-> StateOf(call.id)]
    OBVIOUS
  <2>2. job' = [job EXCEPT ![c] = x]
    BY <1>3, <2>1 DEF BeginUpdate
  <2>3. \E j \in Drafts : findings[j].id = call.id
    <3>1. PICK i \in DOMAIN findings : findings[i].id = call.id
      BY <1>3, UpdateAdmitted DEF Of
    <3>2. CASE i \in Updates
      BY <3>1, <3>2 DEF GatesInv, RecordsResolve
    <3>3. CASE i \notin Updates
      BY <3>1, <3>3 DEF GatesInv, Kinds, Drafts, Updates
    <3> QED BY <3>2, <3>3
  <2>4. Drives(call)
    BY <1>3, <2>3, UpdateAdmitted DEF Drives
  <2>5. /\ x.pc = "reserve" /\ x.call = call
        /\ x = [pc |-> x.pc, then |-> "update", call |-> x.call, from |-> x.from]
    BY <2>1
  <2>6. JobHolds(x)
    BY <2>4, <2>5 DEF JobHolds, Updating
  <2> QED BY <1>1, <2>2, <2>6, QuietStep
<1> QED BY <1>2, <1>3

LEMMA ToolCallStep ==
  ASSUME GatesInv, NEW c \in Callers, NEW t, NEW s, ToolCall(c, t, s)
  PROVE  GatesInv'
<1>1. job' = [job EXCEPT ![c] = job[c]]
  BY DEF ToolCall, GatesInv
<1>2. JobHolds(job[c])
  BY DEF GatesInv
<1>3. PICK x : x = job[c]
  OBVIOUS
<1> QED BY <1>1, <1>2, <1>3, QuietStep DEF ToolCall

LEMMA LogDriftStep ==
  ASSUME GatesInv, NEW c \in Callers, LogDrift(c)
  PROVE  GatesInv'
<1>1. \E e : audit' = Append(audit, e)
  BY DEF LogDrift
<1>2. JobHolds(job[c]) /\ job[c].pc \in {"correct", "resolved"}
  BY DEF GatesInv, LogDrift
<1>3. PICK x : x = [job[c] EXCEPT !.pc = IF @ = "correct" THEN "draft" ELSE "reserve"]
  OBVIOUS
<1>4. job' = [job EXCEPT ![c] = x]
  BY <1>3 DEF LogDrift
<1>5. CASE job[c].pc = "correct"
  <2>1. /\ job[c] = [pc |-> "correct", call |-> job[c].call]
        /\ \A r \in job[c].call.refs : Rests(r)
    BY <1>2, <1>5 DEF JobHolds, Correlating, Updating
  <2>2. x = [pc |-> "draft", call |-> job[c].call]
    BY <1>3, <2>1
  <2>3. JobHolds(x)
    BY <2>1, <2>2 DEF JobHolds
  <2> QED BY <1>1, <1>4, <2>3, QuietStep DEF LogDrift
<1>6. CASE job[c].pc = "resolved"
  <2>1. /\ job[c] = [pc |-> "resolved", then |-> "correlate", call |-> job[c].call]
        /\ \A r \in job[c].call.refs : Cites(r)
    BY <1>2, <1>6 DEF JobHolds, Correlating, Updating
  <2>2. x = [pc |-> "reserve", then |-> "correlate", call |-> job[c].call]
    BY <1>3, <2>1
  <2>3. JobHolds(x)
    BY <2>1, <2>2 DEF JobHolds, Correlating
  <2> QED BY <1>1, <1>4, <2>3, QuietStep DEF LogDrift
<1> QED BY <1>2, <1>5, <1>6

LEMMA ReserveLineStep ==
  ASSUME GatesInv, NEW c \in Callers, ReserveLine(c)
  PROVE  GatesInv'
<1>1. UNCHANGED <<audit, findings, correlations>>
  BY DEF ReserveLine
<1>2. JobHolds(job[c]) /\ job[c].pc = "reserve"
  BY DEF GatesInv, ReserveLine
<1>3. PICK x : x = [job[c] EXCEPT !.pc = job[c].then]
  OBVIOUS
<1>4. job' = [job EXCEPT ![c] = x]
  BY <1>3 DEF ReserveLine
<1>5. CASE Correlating(job[c])
  <2>1. x = [pc |-> "correlate", then |-> "correlate", call |-> job[c].call]
    BY <1>3, <1>5 DEF Correlating
  <2>2. JobHolds(x)
    BY <1>5, <2>1 DEF JobHolds, Correlating
  <2> QED BY <1>1, <1>4, <2>2, QuietStep
<1>6. CASE Updating(job[c])
  <2>1. x = [pc |-> "update", then |-> "update", call |-> job[c].call, from |-> job[c].from]
    BY <1>3, <1>6 DEF Updating
  <2>2. JobHolds(x)
    BY <1>6, <2>1 DEF JobHolds, Updating
  <2> QED BY <1>1, <1>4, <2>2, QuietStep
<1> QED BY <1>2, <1>5, <1>6 DEF JobHolds

LEMMA LogOutcomeStep ==
  ASSUME GatesInv, NEW c \in Callers, LogOutcome(c)
  PROVE  GatesInv'
  BY QuietStep, Ended DEF LogOutcome

LEMMA CrashStep ==
  ASSUME GatesInv, NEW c \in Callers, Crash(c)
  PROVE  GatesInv'
  BY QuietStep, Ended DEF Crash

-----------------------------------------------------------------------------
(* The records. *)

LEMMA Idled ==
  ASSUME NEW c \in Callers, NEW t, NEW s, job' = [job EXCEPT ![c] = ToLog(t, s)],
         GatesInv, UNCHANGED <<audit, findings, correlations>>
  PROVE  GatesInv'
  BY QuietStep, Ended

LEMMA LandFindingStep ==
  ASSUME GatesInv, NEW c \in Callers, NEW p, LandFinding(c, p)
  PROVE  GatesInv'
<1>1. CASE ~ DraftFits(job[c].call)
  BY <1>1, Idled DEF LandFinding
<1>2. CASE DraftFits(job[c].call)
  <2>1. JobHolds(job[c]) /\ job[c].pc = "draft"
    BY DEF GatesInv, LandFinding
  <2>2. \A r \in job[c].call.refs : Rests(r)
    BY <2>1 DEF JobHolds, Correlating, Updating
  <2>3. PICK e : e = [kind |-> "draft", id |-> <<p, Cardinality(Drafts) + 1>>,
                      state |-> "DRAFT", host |-> job[c].call.host, refs |-> job[c].call.refs]
    OBVIOUS
  <2>4. /\ findings' = Append(findings, e) /\ UNCHANGED <<audit, correlations>>
        /\ job' = [job EXCEPT ![c] = ToLog("record_finding", "ok")]
    BY <1>2, <2>3 DEF LandFinding
  <2>5. e.kind = "draft" /\ \A r \in e.refs : Rests(r)
    BY <2>2, <2>3
  <2>6. /\ DOMAIN findings' = 1 .. (Len(findings) + 1) /\ Len(findings) \in Nat
        /\ DOMAIN findings = 1 .. Len(findings) /\ IsLog(findings')
        /\ \A i \in DOMAIN findings : findings'[i] = findings[i]
        /\ findings'[Len(findings) + 1] = e
    BY <2>4, LogAppend DEF GatesInv
  <2>7. \A i \in DOMAIN findings' : i \in DOMAIN findings \/ i = Len(findings) + 1
    BY <2>6
  <2>8. Kinds'
    BY <2>5, <2>6, <2>7 DEF GatesInv, Kinds
  <2>9. CitationsHold'
    BY <2>4, <2>5, <2>6, <2>7 DEF GatesInv, CitationsHold, Drafts, Rests, Cites
  <2>10. Updates' = Updates /\ \A j \in Drafts : j \in Drafts' /\ findings'[j] = findings[j]
    BY <2>5, <2>6, <2>7 DEF Drafts, Updates
  <2>11. \A i \in Updates : findings'[i] = findings[i]
    BY <2>6 DEF Updates
  <2>12. RecordsResolve'
    <3>1. \A k \in DOMAIN correlations' :
            correlations'[k].ids \subseteq {findings'[i].id : i \in Drafts'}
      <4> SUFFICES ASSUME NEW k \in DOMAIN correlations, NEW id \in correlations[k].ids
                   PROVE  \E i \in Drafts' : findings'[i].id = id
        BY <2>4
      <4>1. PICK i \in Drafts : findings[i].id = id
        BY DEF GatesInv, RecordsResolve
      <4> QED BY <2>10, <4>1
    <3>2. ASSUME NEW i \in Updates' PROVE
            /\ \E j \in Drafts' : j < i /\ findings'[j].id = findings'[i].id
            /\ findings'[i].driving \subseteq DOMAIN correlations'
            /\ findings'[i].driving = {} => findings'[i].rule = "R5"
      BY <2>4, <2>10, <2>11, <3>2 DEF GatesInv, RecordsResolve
    <3> QED BY <3>1, <3>2 DEF RecordsResolve
  <2>13. Extends(findings, findings')
    BY <2>6 DEF Extends
  <2>14. Extends(audit, audit') /\ Extends(correlations, correlations')
    BY <2>4 DEF Extends
  <2>15. IsLog(audit') /\ IsLog(correlations')
    BY <2>4 DEF GatesInv
  <2>16. PICK x : x = ToLog("record_finding", "ok")
    OBVIOUS
  <2>17. JobHolds(x)'
    BY <2>16 DEF JobHolds, ToLog
  <2> QED BY <2>4, <2>6, <2>8, <2>9, <2>12, <2>13, <2>14, <2>15, <2>16, <2>17, CallerStep
<1> QED BY <1>1, <1>2

\* Whatever is known of findings began with a draft.
LEMMA KnownDrafted ==
  ASSUME GatesInv
  PROVE  KnownIds \subseteq {findings[i].id : i \in Drafts}
<1> SUFFICES ASSUME NEW i \in DOMAIN findings
             PROVE  \E j \in Drafts : findings[j].id = findings[i].id
  BY DEF KnownIds
<1>1. CASE i \in Updates
  BY <1>1 DEF GatesInv, RecordsResolve
<1>2. CASE i \notin Updates
  BY <1>2 DEF GatesInv, Kinds, Drafts, Updates
<1> QED BY <1>1, <1>2

LEMMA LandCorrelationStep ==
  ASSUME GatesInv, NEW c \in Callers, LandCorrelation(c)
  PROVE  GatesInv'
<1> DEFINE call == job[c].call
           ids == {About(call)[i] : i \in DOMAIN About(call)}
<1>1. CASE ~ PayloadFits(call) \/ ~ (ids \subseteq KnownIds)
  BY <1>1, Idled DEF LandCorrelation
<1>2. CASE PayloadFits(call) /\ ids \subseteq KnownIds
  <2>1. JobHolds(job[c]) /\ job[c].pc = "correlate"
    BY DEF GatesInv, LandCorrelation
  <2>2. \A r \in job[c].call.refs : Cites(r)
    BY <2>1 DEF JobHolds, Correlating, Updating
  <2>3. PICK e : e = [type |-> call.type, ids |-> ids, refs |-> call.refs,
                      hosts |-> call.hosts, line |-> Len(audit) + 1]
    OBVIOUS
  <2>4. /\ correlations' = Append(correlations, e) /\ UNCHANGED <<audit, findings>>
        /\ job' = [job EXCEPT ![c] = ToLog("record_correlation", "ok")]
    BY <1>2, <2>3 DEF LandCorrelation
  <2>5. e.ids \subseteq {findings[i].id : i \in Drafts} /\ \A r \in e.refs : Cites(r)
    <3>1. e.ids = ids /\ e.refs = call.refs
      BY <2>3
    <3> QED BY <1>2, <2>2, <3>1, KnownDrafted
  <2>6. /\ DOMAIN correlations' = 1 .. (Len(correlations) + 1) /\ Len(correlations) \in Nat
        /\ DOMAIN correlations = 1 .. Len(correlations) /\ IsLog(correlations')
        /\ \A k \in DOMAIN correlations : correlations'[k] = correlations[k]
        /\ correlations'[Len(correlations) + 1] = e
    BY <2>4, LogAppend DEF GatesInv
  <2>7. \A k \in DOMAIN correlations' : k \in DOMAIN correlations \/ k = Len(correlations) + 1
    BY <2>6
  <2>8. DOMAIN correlations \subseteq DOMAIN correlations'
    BY <2>6
  <2>9. CitationsHold'
    BY <2>4, <2>5, <2>6, <2>7 DEF GatesInv, CitationsHold, Drafts, Cites
  <2>10. RecordsResolve'
    BY <2>4, <2>5, <2>6, <2>7, <2>8 DEF GatesInv, RecordsResolve, Drafts, Updates
  <2>11. Kinds'
    BY <2>4 DEF GatesInv, Kinds
  <2>12. /\ Extends(correlations, correlations') /\ Extends(audit, audit')
         /\ Extends(findings, findings')
    BY <2>4, <2>6, <2>8 DEF Extends
  <2>13. IsLog(audit') /\ IsLog(findings')
    BY <2>4 DEF GatesInv
  <2>14. PICK x : x = ToLog("record_correlation", "ok")
    OBVIOUS
  <2>15. JobHolds(x)'
    BY <2>14 DEF JobHolds, ToLog
  <2> QED BY <2>4, <2>6, <2>9, <2>10, <2>11, <2>12, <2>13, <2>14, <2>15, CallerStep
<1> QED BY <1>1, <1>2

LEMMA LandUpdateStep ==
  ASSUME GatesInv, NEW c \in Callers, LandUpdate(c)
  PROVE  GatesInv'
<1> DEFINE call == job[c].call
<1>1. CASE ~ call.fits
  BY <1>1, Idled DEF LandUpdate
<1>2. CASE call.fits
  <2>1. JobHolds(job[c]) /\ job[c].pc = "update"
    BY DEF GatesInv, LandUpdate
  <2>2. Drives(call)
    BY <2>1 DEF JobHolds, Correlating, Updating
  <2>3. PICK e : e = [kind |-> "update", id |-> call.id, state |-> call.to,
                      from |-> job[c].from, rule |-> call.rule,
                      driving |-> call.driving, line |-> Len(audit) + 1]
    OBVIOUS
  <2>4. /\ findings' = Append(findings, e) /\ UNCHANGED <<audit, correlations>>
        /\ job' = [job EXCEPT ![c] = ToLog("update_finding", "ok")]
    BY <1>2, <2>3 DEF LandUpdate
  <2>5. /\ e.kind = "update" /\ e.id = call.id /\ e.driving = call.driving
        /\ e.rule = call.rule
    BY <2>3
  <2>6. /\ DOMAIN findings' = 1 .. (Len(findings) + 1) /\ Len(findings) \in Nat
        /\ DOMAIN findings = 1 .. Len(findings) /\ IsLog(findings')
        /\ \A i \in DOMAIN findings : findings'[i] = findings[i]
        /\ findings'[Len(findings) + 1] = e
    BY <2>4, LogAppend DEF GatesInv
  <2>7. \A i \in DOMAIN findings' : i \in DOMAIN findings \/ i = Len(findings) + 1
    BY <2>6
  <2>8. Kinds'
    BY <2>5, <2>6, <2>7 DEF GatesInv, Kinds
  <2>9. Drafts' = Drafts /\ \A j \in Drafts : findings'[j] = findings[j]
    BY <2>5, <2>6, <2>7 DEF Drafts
  <2>10. CitationsHold'
    BY <2>4, <2>9 DEF GatesInv, CitationsHold, Cites
  <2>11. ASSUME NEW i \in Updates' PROVE
           /\ \E j \in Drafts : j < i /\ findings[j].id = findings'[i].id
           /\ findings'[i].driving \subseteq DOMAIN correlations
           /\ findings'[i].driving = {} => findings'[i].rule = "R5"
    <3>1. CASE i \in DOMAIN findings
      <4>1. i \in Updates /\ findings'[i] = findings[i]
        BY <2>6, <2>11, <3>1 DEF Updates
      <4> QED BY <4>1 DEF GatesInv, RecordsResolve
    <3>2. CASE i = Len(findings) + 1
      <4>1. PICK j \in Drafts : findings[j].id = call.id
        BY <2>2 DEF Drives
      <4>2. j < i
        BY <2>6, <3>2, <4>1 DEF Drafts
      <4> QED BY <2>2, <2>5, <2>6, <3>2, <4>1, <4>2 DEF Drives
    <3> QED BY <2>7, <2>11, <3>1, <3>2 DEF Updates
  <2>12. RecordsResolve'
    <3>1. \A k \in DOMAIN correlations' :
            correlations'[k].ids \subseteq {findings'[i].id : i \in Drafts'}
      <4> SUFFICES ASSUME NEW k \in DOMAIN correlations, NEW id \in correlations[k].ids
                   PROVE  \E i \in Drafts' : findings'[i].id = id
        BY <2>4
      <4>1. PICK i \in Drafts : findings[i].id = id
        BY DEF GatesInv, RecordsResolve
      <4> QED BY <2>9, <4>1
    <3>2. ASSUME NEW i \in Updates' PROVE
            /\ \E j \in Drafts' : j < i /\ findings'[j].id = findings'[i].id
            /\ findings'[i].driving \subseteq DOMAIN correlations'
            /\ findings'[i].driving = {} => findings'[i].rule = "R5"
      BY <2>4, <2>9, <2>11, <3>2
    <3> QED BY <3>1, <3>2 DEF RecordsResolve
  <2>13. /\ Extends(correlations, correlations') /\ Extends(audit, audit')
         /\ Extends(findings, findings')
    BY <2>4, <2>6 DEF Extends
  <2>14. IsLog(audit') /\ IsLog(correlations')
    BY <2>4 DEF GatesInv
  <2>15. PICK x : x = ToLog("update_finding", "ok")
    OBVIOUS
  <2>16. JobHolds(x)'
    BY <2>15 DEF JobHolds, ToLog
  <2> QED BY <2>4, <2>6, <2>8, <2>10, <2>12, <2>13, <2>14, <2>15, <2>16, CallerStep
<1> QED BY <1>1, <1>2

-----------------------------------------------------------------------------
(* The invariant and what follows from it. *)

LEMMA GatesStart == Init => GatesInv
<1> SUFFICES ASSUME Init PROVE GatesInv
  OBVIOUS
<1>1. IsLog(findings) /\ IsLog(correlations)
  <2>1. <<>> \in Seq({})
    OBVIOUS
  <2> QED BY <2>1 DEF Init, IsLog
<1>2. IsLog(audit)
  <2>1. PICK e : e = Ok("register_evidence")
    OBVIOUS
  <2>2. <<e>> \in Seq({e})
    OBVIOUS
  <2> QED BY <2>1, <2>2 DEF Init, IsLog
<1>3. \E S : job \in [Callers -> S]
  <2>1. job \in [Callers -> {Idle}]
    BY DEF Init
  <2> QED BY <2>1
<1>4. \A c \in Callers : JobHolds(job[c])
  BY Ended DEF Init
<1>5. DOMAIN findings = {} /\ DOMAIN correlations = {}
  BY DEF Init
<1> QED BY <1>1, <1>2, <1>3, <1>4, <1>5
        DEF GatesInv, Kinds, CitationsHold, RecordsResolve, Drafts, Updates

LEMMA GatesStep == GatesInv /\ [Next]_vars => GatesInv'
<1> SUFFICES ASSUME GatesInv, [Next]_vars PROVE GatesInv'
  OBVIOUS
<1>1. ASSUME NEW c \in Callers, NEW t \in RunTools, NEW s \in Outcomes, ToolCall(c, t, s)
      PROVE  GatesInv'
  BY <1>1, ToolCallStep
<1>2. ASSUME NEW c \in Callers, NEW call \in FindingCalls, BeginFinding(c, call)
      PROVE  GatesInv'
  BY <1>2, BeginFindingStep
<1>3. ASSUME NEW c \in Callers, NEW call \in CorrelationCalls, BeginCorrelation(c, call)
      PROVE  GatesInv'
  BY <1>3, BeginCorrelationStep
<1>4. ASSUME NEW c \in Callers, NEW call \in UpdateCalls, BeginUpdate(c, call)
      PROVE  GatesInv'
  BY <1>4, BeginUpdateStep
<1>5. ASSUME NEW c \in Callers, NEW p \in Prefixes, LandFinding(c, p) PROVE GatesInv'
  BY <1>5, LandFindingStep
<1>6. ASSUME NEW c \in Callers,
             LandCorrelation(c) \/ LandUpdate(c) \/ LogDrift(c) \/ ReserveLine(c)
               \/ LogOutcome(c) \/ Crash(c)
      PROVE  GatesInv'
  BY <1>6, LandCorrelationStep, LandUpdateStep, LogDriftStep, ReserveLineStep,
     LogOutcomeStep, CrashStep
<1>7. CASE UNCHANGED vars
  <2>1. UNCHANGED <<audit, findings, correlations, job>>
    BY <1>7 DEF vars
  <2>2. Extends(audit, audit')
    BY <2>1 DEF Extends
  <2>3. Kinds' /\ CitationsHold' /\ RecordsResolve'
    BY <2>1, <2>2, RecordsStay
  <2>4. \A c \in Callers : JobHolds(job[c])'
    BY <2>1 DEF GatesInv, JobHolds, Correlating, Updating, Rests, Cites, Drives, Drafts
  <2> QED BY <2>1, <2>3, <2>4 DEF GatesInv
<1> QED BY <1>1, <1>2, <1>3, <1>4, <1>5, <1>6, <1>7 DEF Next

LEMMA GatesHold == Spec => []GatesInv
  BY GatesStart, GatesStep, PTL DEF Spec

\* What a finding or a correlation cites is the line it names, whatever other
\* callers have logged since its gates were read (record_finding,
\* record_correlation).
THEOREM Citations == Spec => []CitationsHold
<1>1. GatesInv => CitationsHold
  BY DEF GatesInv
<1> QED BY <1>1, GatesHold, PTL

\* Findings that correlations are about, and findings and correlations that
\* updates name, are on their logs (record_correlation, update_finding).
THEOREM Resolution == Spec => []RecordsResolve
<1>1. GatesInv => RecordsResolve
  BY DEF GatesInv
<1> QED BY <1>1, GatesHold, PTL
-----------------------------------------------------------------------------
(* What an update has read of its finding. *)

\* At most one caller may update: every server the orchestrator starts has its
\* SIFT_GUARD_ROLE, and the loop waits for one update before the next.
OneUpdater ==
    \A c, d \in Callers :
        Role[c] \in {None, "orchestrator"} /\ Role[d] \in {None, "orchestrator"} => c = d

Waiting(j) == j.pc \in {"reserve", "update"} /\ j.then = "update"

\* The state an admitted update has read is that of its finding until it lands.
Held(c, j) ==
    /\ Role[c] \in {None, "orchestrator"}
    /\ j.from = StateOf(j.call.id) /\ ValidTransition(j.from, j.call.to)

\* The ids of drafts count them, so that the next one is new.
Numbered == \A i \in Drafts : findings[i].id[2] \in 1 .. Cardinality(Drafts)

UpdatesInv ==
    /\ GatesInv /\ Numbered /\ PredecessorNamed /\ ConfirmedStays
    /\ \A c \in Callers : Waiting(job[c]) => Held(c, job[c])

\* The last of a set of positions is the one that CHOOSE names.
LEMMA LastOf ==
  ASSUME NEW n \in Nat, NEW S \in SUBSET (1 .. n), S # {}
  PROVE  \E m \in S : \A k \in S : k <= m
<1> DEFINE T == {n - k : k \in S}
<1> DEFINE R == {ss \in Nat \X Nat : ss[1] < ss[2]}
<1>1. IsWellFoundedOn(R, Nat)
  BY NatLessThanWellFounded DEF OpToRel
<1>2. T \subseteq Nat /\ T # {}
  <2>1. \A k \in S : k \in Nat /\ n - k \in Nat
    OBVIOUS
  <2>2. PICK k \in S : TRUE
    OBVIOUS
  <2> QED BY <2>1, <2>2
<1>3. PICK x \in T : \A y \in T : ~ (<<y, x>> \in R)
  <2> HIDE DEF T, R
  <2> QED BY <1>1, <1>2, WFMin
<1>4. ASSUME NEW y \in T PROVE x <= y
  <2>1. x \in Nat /\ y \in Nat
    BY <1>2, <1>3
  <2>2. ~ (x > y)
    BY <1>3, <2>1
  <2> QED BY <2>1, <2>2
<1>5. PICK m \in S : x = n - m
  BY DEF T
<1>6. ASSUME NEW k \in S PROVE k <= m
  <2>1. n - m <= n - k
    BY <1>4, <1>5
  <2>2. m \in Nat /\ k \in Nat
    OBVIOUS
  <2> HIDE DEF T
  <2> QED BY <2>1, <2>2
<1> QED BY <1>6

LEMMA TheLast ==
  ASSUME NEW S, S \subseteq Nat, NEW m \in S, \A k \in S : k <= m
  PROVE  (CHOOSE i \in S : \A j \in S : j <= i) = m
<1>1. \A i \in S : (\A j \in S : j <= i) => i = m
  OBVIOUS
<1> QED BY <1>1

LEMMA StateIsLast ==
  ASSUME GatesInv, NEW id, Of(id) # {}
  PROVE  \E m \in Of(id) : (\A k \in Of(id) : k <= m) /\ StateOf(id) = findings[m].state
<1>1. Len(findings) \in Nat /\ DOMAIN findings = 1 .. Len(findings)
  BY LogAppend DEF GatesInv
<1>2. Of(id) \in SUBSET (1 .. Len(findings))
  BY <1>1 DEF Of
<1>3. PICK m \in Of(id) : \A k \in Of(id) : k <= m
  BY <1>1, <1>2, LastOf
<1>4. Of(id) \subseteq Nat
  BY <1>1, <1>2
<1>5. (CHOOSE i \in Of(id) : \A j \in Of(id) : j <= i) = m
  BY <1>3, <1>4, TheLast
<1> QED BY <1>3, <1>5 DEF StateOf

LEMMA DraftsFinite ==
  ASSUME GatesInv
  PROVE  IsFiniteSet(Drafts) /\ Cardinality(Drafts) \in Nat
<1>1. Len(findings) \in Nat /\ DOMAIN findings = 1 .. Len(findings)
  BY LogAppend DEF GatesInv
<1>2. IsFiniteSet(1 .. Len(findings))
  BY <1>1, FS_Interval
<1>3. Drafts \subseteq 1 .. Len(findings)
  BY <1>1 DEF Drafts
<1>4. IsFiniteSet(Drafts)
  BY <1>2, <1>3, FS_Subset
<1> QED BY <1>4, FS_CardinalityType

\* No record has the id that the next draft gets.
LEMMA NextIsNew ==
  ASSUME GatesInv, Numbered, NEW p
  PROVE  Of(<<p, Cardinality(Drafts) + 1>>) = {}
<1> SUFFICES ASSUME NEW i \in DOMAIN findings,
                    findings[i].id = <<p, Cardinality(Drafts) + 1>>
             PROVE  FALSE
  BY DEF Of
<1>1. PICK j \in Drafts : findings[j].id = findings[i].id
  BY KnownDrafted DEF KnownIds
<1>2. findings[j].id[2] = Cardinality(Drafts) + 1
  BY <1>1
<1>3. findings[j].id[2] \in 1 .. Cardinality(Drafts)
  BY DEF Numbered
<1> QED BY <1>2, <1>3, DraftsFinite

\* A record of one finding leaves the state of the others.
LEMMA OthersKeepState ==
  ASSUME GatesInv, NEW e, findings' = Append(findings, e), NEW id, Of(id) # {}, e.id # id
  PROVE  StateOf(id)' = StateOf(id)
<1>1. PICK m \in Of(id) : (\A k \in Of(id) : k <= m) /\ StateOf(id) = findings[m].state
  BY StateIsLast
<1>2. /\ DOMAIN findings' = 1 .. (Len(findings) + 1) /\ Len(findings) \in Nat
      /\ DOMAIN findings = 1 .. Len(findings)
      /\ \A i \in DOMAIN findings : findings'[i] = findings[i]
      /\ findings'[Len(findings) + 1] = e
  BY LogAppend DEF GatesInv
<1>3. Of(id)' = Of(id)
  BY <1>2 DEF Of
<1>4. Of(id)' \subseteq Nat /\ m \in Of(id)' /\ \A k \in Of(id)' : k <= m
  BY <1>1, <1>2, <1>3 DEF Of
<1>5. (CHOOSE i \in Of(id)' : \A j \in Of(id)' : j <= i) = m
  BY <1>4, TheLast
<1>6. findings'[m] = findings[m]
  BY <1>2 DEF Of
<1> QED BY <1>1, <1>5, <1>6 DEF StateOf

-----------------------------------------------------------------------------
(* Steps that append no finding. *)

LEMMA UnrecordedStep ==
  ASSUME UpdatesInv, GatesInv', NEW c \in Callers, NEW x, job' = [job EXCEPT ![c] = x],
         findings' = findings, Waiting(x) => Held(c, x)
  PROVE  UpdatesInv'
<1>1. job'[c] = x /\ \A v \in Callers \ {c} : job'[v] = job[v]
  BY JobSet DEF UpdatesInv, GatesInv
<1>2. \A id : StateOf(id)' = StateOf(id)
  BY DEF StateOf, Of
<1>3. \A v \in Callers : Waiting(job'[v]) => Held(v, job'[v])
  BY <1>1 DEF UpdatesInv
<1>4. \A v \in Callers : Waiting(job[v])' => Held(v, job[v])'
  BY <1>2, <1>3 DEF Waiting, Held
<1>5. Numbered' /\ PredecessorNamed' /\ ConfirmedStays'
  BY DEF UpdatesInv, Numbered, PredecessorNamed, ConfirmedStays, Drafts, Updates, Of
<1> QED BY <1>4, <1>5 DEF UpdatesInv

LEMMA NotWaiting ==
  /\ ~ Waiting(Idle)
  /\ \A t, s : ~ Waiting(ToLog(t, s))
  /\ \A call : ~ Waiting([pc |-> "correct", call |-> call])
  /\ \A call : ~ Waiting([pc |-> "draft", call |-> call])
  /\ \A pc, call : ~ Waiting([pc |-> pc, then |-> "correlate", call |-> call])
  BY DEF Waiting, Idle, ToLog

LEMMA BeginUpdateReads ==
  ASSUME UpdatesInv, GatesInv', NEW c \in Callers, NEW call, BeginUpdate(c, call)
  PROVE  UpdatesInv'
<1> DEFINE why == UpdateRefusal(c, call)
<1>1. CASE why # None
  <2>1. PICK x : x = ToLog("update_finding", why)
    OBVIOUS
  <2>2. job' = [job EXCEPT ![c] = x] /\ findings' = findings
    BY <1>1, <2>1 DEF BeginUpdate
  <2> QED BY <2>1, <2>2, NotWaiting, UnrecordedStep
<1>2. CASE why = None
  <2>1. PICK x : x = [pc |-> "reserve", then |-> "update", call |-> call,
                      from |-> StateOf(call.id)]
    OBVIOUS
  <2>2. job' = [job EXCEPT ![c] = x] /\ findings' = findings
    BY <1>2, <2>1 DEF BeginUpdate
  <2>3. /\ Role[c] \in {None, "orchestrator"}
        /\ ValidTransition(StateOf(call.id), call.to)
    BY <1>2, UpdateAdmitted
  <2>4. Held(c, x)
    BY <2>1, <2>3 DEF Held
  <2> QED BY <2>2, <2>4, UnrecordedStep
<1> QED BY <1>1, <1>2

LEMMA OtherStepsRead ==
  ASSUME UpdatesInv, GatesInv', NEW c \in Callers,
         \/ \E t \in RunTools, s \in Outcomes : ToolCall(c, t, s)
         \/ \E call \in FindingCalls : BeginFinding(c, call)
         \/ \E call \in CorrelationCalls : BeginCorrelation(c, call)
         \/ LandCorrelation(c) \/ LogDrift(c) \/ ReserveLine(c) \/ LogOutcome(c) \/ Crash(c)
  PROVE  UpdatesInv'
<1>0. findings' = findings /\ JobHolds(job[c]) /\ \E S : job \in [Callers -> S]
  BY DEF ToolCall, BeginFinding, BeginCorrelation, LandCorrelation, LogDrift, ReserveLine,
         LogOutcome, Crash, UpdatesInv, GatesInv
<1>1. ASSUME NEW t, NEW s, ToolCall(c, t, s) PROVE UpdatesInv'
  <2>1. PICK x : x = job[c]
    OBVIOUS
  <2>2. job' = [job EXCEPT ![c] = x]
    BY <1>0, <1>1, <2>1 DEF ToolCall
  <2>3. Waiting(x) => Held(c, x)
    BY <2>1 DEF UpdatesInv
  <2> QED BY <1>0, <2>2, <2>3, UnrecordedStep
<1>2. ASSUME NEW call, BeginFinding(c, call) PROVE UpdatesInv'
  <2>1. PICK x : job' = [job EXCEPT ![c] = x] /\ ~ Waiting(x)
    BY <1>2, NotWaiting DEF BeginFinding
  <2> QED BY <1>0, <2>1, UnrecordedStep
<1>3. ASSUME NEW call, BeginCorrelation(c, call) PROVE UpdatesInv'
  <2>1. PICK x : job' = [job EXCEPT ![c] = x] /\ ~ Waiting(x)
    BY <1>3, NotWaiting DEF BeginCorrelation
  <2> QED BY <1>0, <2>1, UnrecordedStep
<1>4. CASE LandCorrelation(c)
  <2>1. PICK x : job' = [job EXCEPT ![c] = x] /\ ~ Waiting(x)
    BY <1>4, NotWaiting DEF LandCorrelation
  <2> QED BY <1>0, <2>1, UnrecordedStep
<1>5. CASE LogDrift(c)
  <2>1. PICK x : x = [job[c] EXCEPT !.pc = IF @ = "correct" THEN "draft" ELSE "reserve"]
    OBVIOUS
  <2>2. job' = [job EXCEPT ![c] = x]
    BY <1>5, <2>1 DEF LogDrift
  <2>3. \/ x = [pc |-> "draft", call |-> job[c].call]
        \/ x = [pc |-> "reserve", then |-> "correlate", call |-> job[c].call]
    BY <1>0, <1>5, <2>1 DEF LogDrift, JobHolds, Correlating, Updating
  <2> QED BY <1>0, <2>2, <2>3, NotWaiting, UnrecordedStep
<1>6. CASE ReserveLine(c)
  <2>1. PICK x : x = [job[c] EXCEPT !.pc = job[c].then]
    OBVIOUS
  <2>2. job' = [job EXCEPT ![c] = x] /\ job[c].pc = "reserve"
    BY <1>6, <2>1 DEF ReserveLine
  <2>3. CASE Correlating(job[c])
    <3>1. x = [pc |-> "correlate", then |-> "correlate", call |-> job[c].call]
      BY <2>1, <2>3 DEF Correlating
    <3> QED BY <1>0, <2>2, <3>1, NotWaiting, UnrecordedStep
  <2>4. CASE Updating(job[c])
    <3>1. x = [pc |-> "update", then |-> "update", call |-> job[c].call, from |-> job[c].from]
      BY <2>1, <2>4 DEF Updating
    <3>2. Waiting(job[c])
      BY <2>2, <2>4 DEF Waiting, Updating
    <3>3. Held(c, job[c])
      BY <3>2 DEF UpdatesInv
    <3>4. x.from = job[c].from /\ x.call = job[c].call
      BY <3>1
    <3>5. Held(c, x)
      BY <3>3, <3>4 DEF Held
    <3> QED BY <1>0, <2>2, <3>5, UnrecordedStep
  <2> QED BY <1>0, <2>2, <2>3, <2>4 DEF JobHolds
<1>7. CASE LogOutcome(c)
  BY <1>0, <1>7, NotWaiting, UnrecordedStep DEF LogOutcome
<1>8. CASE Crash(c)
  BY <1>0, <1>8, NotWaiting, UnrecordedStep DEF Crash
<1> QED BY <1>1, <1>2, <1>3, <1>4, <1>5, <1>6, <1>7, <1>8

-----------------------------------------------------------------------------
(* Drafts and updates. *)

LEMMA DraftReads ==
  ASSUME UpdatesInv, GatesInv', NEW c \in Callers, NEW p, LandFinding(c, p)
  PROVE  UpdatesInv'
<1>1. CASE ~ DraftFits(job[c].call)
  BY <1>1, NotWaiting, UnrecordedStep DEF LandFinding
<1>2. CASE DraftFits(job[c].call)
  <2> DEFINE id == <<p, Cardinality(Drafts) + 1>>
  <2>1. PICK e : e = [kind |-> "draft", id |-> id, state |-> "DRAFT",
                      host |-> job[c].call.host, refs |-> job[c].call.refs]
    OBVIOUS
  <2>2. /\ findings' = Append(findings, e) /\ e.kind = "draft" /\ e.id = id
        /\ job' = [job EXCEPT ![c] = ToLog("record_finding", "ok")]
    BY <1>2, <2>1 DEF LandFinding
  <2>3. Of(id) = {}
    BY NextIsNew DEF UpdatesInv
  <2> HIDE DEF id
  <2>4. /\ DOMAIN findings' = 1 .. (Len(findings) + 1) /\ Len(findings) \in Nat
        /\ DOMAIN findings = 1 .. Len(findings)
        /\ \A i \in DOMAIN findings : findings'[i] = findings[i]
        /\ findings'[Len(findings) + 1] = e
    BY <2>2, LogAppend DEF GatesInv, UpdatesInv
  <2>5. Drafts' = Drafts \cup {Len(findings) + 1} /\ Len(findings) + 1 \notin Drafts
    BY <2>2, <2>4 DEF Drafts
  <2>6. /\ Cardinality(Drafts') = Cardinality(Drafts) + 1 /\ Cardinality(Drafts) \in Nat
    BY <2>5, DraftsFinite, FS_AddElement DEF UpdatesInv
  <2>7. Numbered'
    <3>1. ASSUME NEW i \in Drafts PROVE findings'[i].id[2] \in 1 .. Cardinality(Drafts')
      <4>1. findings'[i] = findings[i] /\ findings[i].id[2] \in 1 .. Cardinality(Drafts)
        BY <2>4 DEF UpdatesInv, Numbered, Drafts
      <4> QED BY <2>6, <4>1
    <3>2. id[2] \in 1 .. Cardinality(Drafts')
      BY <2>6 DEF id
    <3> QED BY <2>2, <2>4, <2>5, <3>1, <3>2 DEF Numbered
  <2>8. Updates' = Updates
    BY <2>2, <2>4 DEF Updates
  <2>9. \A i \in DOMAIN findings : findings[i].id # id
    BY <2>3 DEF Of
  <2>10. PredecessorNamed'
    <3>1. \A j \in Updates : j \in DOMAIN findings /\ findings'[j] = findings[j]
      BY <2>4 DEF Updates
    <3>2. \A j \in Updates : Of(findings[j].id)' = Of(findings[j].id)
      BY <2>2, <2>4, <2>9, <3>1 DEF Of
    <3>3. \A j \in Updates : \A i \in Of(findings[j].id) : findings'[i] = findings[i]
      BY <2>4 DEF Of
    <3> QED BY <2>8, <3>1, <3>2, <3>3 DEF PredecessorNamed, UpdatesInv
  <2>11. ConfirmedStays'
    BY <2>2, <2>4, <2>9 DEF ConfirmedStays, UpdatesInv
  <2>12. job'[c] = ToLog("record_finding", "ok") /\ \A v \in Callers \ {c} : job'[v] = job[v]
    BY <2>2, JobSet DEF UpdatesInv, GatesInv
  <2>13. ASSUME NEW v \in Callers, Waiting(job'[v]) PROVE Held(v, job[v])'
    <3>1. v # c /\ job'[v] = job[v] /\ Waiting(job[v])
      BY <2>12, <2>13, NotWaiting
    <3>2. Held(v, job[v]) /\ JobHolds(job[v])
      BY <3>1 DEF UpdatesInv, GatesInv
    <3>3. PICK j \in Drafts : findings[j].id = job[v].call.id
      BY <3>1, <3>2 DEF JobHolds, Updating, Correlating, Waiting, Drives
    <3>4. Of(job[v].call.id) # {} /\ job[v].call.id # id
      BY <2>9, <3>3 DEF Of, Drafts
    <3>5. StateOf(job[v].call.id)' = StateOf(job[v].call.id)
      <4>1. PICK f : f = job[v].call.id /\ f = job'[v].call.id
        BY <3>1
      <4>2. StateOf(f)' = StateOf(f)
        BY <2>2, <3>4, <4>1, OthersKeepState DEF UpdatesInv
      <4> QED BY <4>1, <4>2
    <3> QED BY <3>1, <3>2, <3>5 DEF Held
  <2> QED BY <2>7, <2>10, <2>11, <2>13 DEF UpdatesInv, Waiting
<1> QED BY <1>1, <1>2

LEMMA UpdateLands ==
  ASSUME OneUpdater, UpdatesInv, GatesInv', NEW c \in Callers, LandUpdate(c)
  PROVE  UpdatesInv'
<1> DEFINE call == job[c].call
<1>1. CASE ~ call.fits
  BY <1>1, NotWaiting, UnrecordedStep DEF LandUpdate
<1>2. CASE call.fits
  <2>1. PICK e : e = [kind |-> "update", id |-> call.id, state |-> call.to,
                      from |-> job[c].from, rule |-> call.rule,
                      driving |-> call.driving, line |-> Len(audit) + 1]
    OBVIOUS
  <2>2. /\ findings' = Append(findings, e) /\ e.kind = "update" /\ e.id = call.id
        /\ e.state = call.to /\ e.from = job[c].from
        /\ job' = [job EXCEPT ![c] = ToLog("update_finding", "ok")]
    BY <1>2, <2>1 DEF LandUpdate
  <2>3. Updating(job[c])
    BY DEF UpdatesInv, GatesInv, LandUpdate, JobHolds, Correlating
  <2>4. Held(c, job[c])
    BY <2>3 DEF UpdatesInv, Updating, Waiting
  <2>5. Of(call.id) # {}
    BY <2>3 DEF Updating, Drives, Of, Drafts
  <2>6. PICK m \in Of(call.id) :
          (\A k \in Of(call.id) : k <= m) /\ StateOf(call.id) = findings[m].state
    BY <2>5, StateIsLast DEF UpdatesInv
  <2>7. e.from = findings[m].state /\ ValidTransition(findings[m].state, e.state)
    BY <2>2, <2>4, <2>6 DEF Held
  <2>8. /\ DOMAIN findings' = 1 .. (Len(findings) + 1) /\ Len(findings) \in Nat
        /\ DOMAIN findings = 1 .. Len(findings)
        /\ \A i \in DOMAIN findings : findings'[i] = findings[i]
        /\ findings'[Len(findings) + 1] = e
    BY <2>2, LogAppend DEF GatesInv, UpdatesInv
  <2>9. Drafts' = Drafts /\ \A i \in Drafts : findings'[i] = findings[i]
    BY <2>2, <2>8 DEF Drafts
  <2>10. Numbered'
    BY <2>9 DEF Numbered, UpdatesInv
  <2>11. PredecessorNamed'
    <3> SUFFICES ASSUME NEW j \in Updates', NEW i \in Of(findings[j].id)', i < j,
                        \A k \in Of(findings[j].id)' : k < j => k <= i
                 PROVE  findings'[j].from = findings'[i].state
      BY DEF PredecessorNamed
    <3>1. j \in DOMAIN findings' /\ i \in DOMAIN findings' /\ findings'[i].id = findings'[j].id
          /\ i \in DOMAIN findings
      BY <2>8 DEF Updates, Of
    <3>2. CASE j \in DOMAIN findings
      <4>1. j \in Updates /\ i \in Of(findings[j].id)
        BY <2>8, <3>1, <3>2 DEF Updates, Of
      <4>2. ASSUME NEW k \in Of(findings[j].id), k < j PROVE k <= i
        BY <2>8, <3>2, <4>2 DEF Of
      <4>3. findings[j].from = findings[i].state
        BY <3>1, <4>1, <4>2 DEF UpdatesInv, PredecessorNamed
      <4> QED BY <2>8, <3>1, <3>2, <4>3
    <3>3. CASE j = Len(findings) + 1
      <4>1. findings'[j] = e /\ findings'[i] = findings[i] /\ findings[i].id = call.id
        BY <2>2, <2>8, <3>1, <3>3
      <4>2. i <= m
        BY <2>6, <3>1, <4>1 DEF Of
      <4>3. m \in DOMAIN findings /\ findings'[m].id = call.id /\ m < j
        BY <2>6, <2>8, <3>3 DEF Of
      <4>4. m <= i
        BY <2>2, <2>8, <4>1, <4>3 DEF Of
      <4>5. i = m
        BY <2>8, <3>1, <4>2, <4>3, <4>4
      <4> QED BY <2>7, <4>1, <4>5
    <3> QED BY <2>8, <3>1, <3>2, <3>3
  <2>12. ConfirmedStays'
    <3> SUFFICES ASSUME NEW i \in DOMAIN findings', NEW j \in DOMAIN findings', i < j,
                        findings'[i].id = findings'[j].id, findings'[i].state = "CONFIRMED"
                 PROVE  findings'[j].state = "CONFIRMED"
      BY DEF ConfirmedStays
    <3>1. i \in DOMAIN findings /\ findings'[i] = findings[i]
      BY <2>8
    <3>2. CASE j \in DOMAIN findings
      BY <2>8, <3>1, <3>2 DEF UpdatesInv, ConfirmedStays
    <3>3. CASE j = Len(findings) + 1
      <4>1. findings'[j] = e /\ i \in Of(call.id)
        BY <2>2, <2>8, <3>1, <3>3 DEF Of
      <4>2. i <= m /\ m \in DOMAIN findings /\ findings[m].id = findings[i].id
        BY <2>6, <4>1 DEF Of
      <4>3. findings[m].state = "CONFIRMED"
        <5>1. CASE i = m
          BY <3>1, <5>1
        <5>2. CASE i < m
          BY <3>1, <4>2, <5>2 DEF UpdatesInv, ConfirmedStays
        <5> QED BY <2>8, <3>1, <4>2, <5>1, <5>2
      <4>4. e.state = "CONFIRMED"
        BY <2>7, <4>3 DEF ValidTransition
      <4> QED BY <4>1, <4>4
    <3> QED BY <2>8, <3>2, <3>3
  <2>13. job'[c] = ToLog("update_finding", "ok") /\ \A v \in Callers \ {c} : job'[v] = job[v]
    BY <2>2, JobSet DEF UpdatesInv, GatesInv
  <2>14. ASSUME NEW v \in Callers PROVE ~ Waiting(job'[v])
    <3>1. CASE v = c
      BY <2>13, <3>1, NotWaiting
    <3>2. CASE v # c
      <4>1. ~ Waiting(job[v])
        BY <2>4, <3>2 DEF Held, OneUpdater, UpdatesInv
      <4> QED BY <2>13, <3>2, <4>1
    <3> QED BY <3>1, <3>2
  <2> QED BY <2>10, <2>11, <2>12, <2>14 DEF UpdatesInv, Waiting
<1> QED BY <1>1, <1>2

LEMMA UpdatesStart == Init => UpdatesInv
<1> SUFFICES ASSUME Init PROVE UpdatesInv
  OBVIOUS
<1>1. DOMAIN findings = {}
  BY DEF Init
<1>2. Numbered /\ PredecessorNamed /\ ConfirmedStays
  BY <1>1 DEF Numbered, PredecessorNamed, ConfirmedStays, Drafts, Updates
<1>3. \A c \in Callers : ~ Waiting(job[c])
  BY NotWaiting DEF Init
<1> QED BY <1>2, <1>3, GatesStart DEF UpdatesInv

LEMMA UpdatesStep ==
  ASSUME OneUpdater
  PROVE  UpdatesInv /\ [Next]_vars => UpdatesInv'
<1> SUFFICES ASSUME UpdatesInv, [Next]_vars PROVE UpdatesInv'
  OBVIOUS
<1>1. GatesInv'
  BY GatesStep DEF UpdatesInv
<1>2. ASSUME NEW c \in Callers, NEW call \in UpdateCalls, BeginUpdate(c, call)
      PROVE  UpdatesInv'
  BY <1>1, <1>2, BeginUpdateReads
<1>3. ASSUME NEW c \in Callers, NEW p \in Prefixes, LandFinding(c, p) PROVE UpdatesInv'
  BY <1>1, <1>3, DraftReads
<1>4. ASSUME NEW c \in Callers, LandUpdate(c) PROVE UpdatesInv'
  BY <1>1, <1>4, UpdateLands
<1>5. ASSUME NEW c \in Callers,
             \/ \E t \in RunTools, s \in Outcomes : ToolCall(c, t, s)
             \/ \E call \in FindingCalls : BeginFinding(c, call)
             \/ \E call \in CorrelationCalls : BeginCorrelation(c, call)
             \/ LandCorrelation(c) \/ LogDrift(c) \/ ReserveLine(c) \/ LogOutcome(c)
             \/ Crash(c)
      PROVE  UpdatesInv'
  BY <1>1, <1>5, OtherStepsRead
<1>6. CASE UNCHANGED vars
  <2>1. findings' = findings /\ job' = job
    BY <1>6 DEF vars
  <2>2. \A id : StateOf(id)' = StateOf(id)
    BY <2>1 DEF StateOf, Of
  <2>3. \A c \in Callers : Waiting(job[c])' => Held(c, job[c])'
    BY <2>1, <2>2 DEF UpdatesInv, Waiting, Held
  <2> QED BY <1>1, <2>1, <2>3 DEF UpdatesInv, Numbered, PredecessorNamed, ConfirmedStays,
             Drafts, Updates, Of
<1> QED BY <1>2, <1>3, <1>4, <1>5, <1>6 DEF Next

\* With one orchestrator, the previous state an update carries is that of the
\* record before it on the log, although it was read before the lock was taken
\* (update_finding).
THEOREM Predecessors ==
  ASSUME OneUpdater
  PROVE  Spec => []PredecessorNamed
<1>1. UpdatesInv => PredecessorNamed
  BY DEF UpdatesInv
<1> QED BY <1>1, UpdatesStart, UpdatesStep, PTL DEF Spec

\* With one orchestrator, no record un-confirms a finding (update_finding).
THEOREM Confirmations ==
  ASSUME OneUpdater
  PROVE  Spec => []ConfirmedStays
<1>1. UpdatesInv => ConfirmedStays
  BY DEF UpdatesInv
<1> QED BY <1>1, UpdatesStart, UpdatesStep, PTL DEF Spec
-----------------------------------------------------------------------------
(* Records and their success lines. *)

Records(w) == CASE w = "record_finding"     -> Cardinality(Drafts)
                [] w = "update_finding"     -> Cardinality(Updates)
                [] w = "record_correlation" -> Len(correlations)
Lines(w)   == {i \in DOMAIN audit : audit[i] = Ok(w)}
Pending(w) == {c \in Callers : job[c] = ToLog(w, "ok")}

\* The callers that died owe at most their number of lines.
Balanced(w) == \E lost \in 0 .. crashes :
    Records(w) = Cardinality(Lines(w)) + Cardinality(Pending(w)) + lost

\* A job that is to log has nothing but its line.
Ending(j) == j.pc = "log" => j = [pc |-> "log", line |-> j.line]

AccountsInv ==
    /\ GatesInv /\ crashes \in Nat
    /\ \A c \in Callers : Ending(job[c])
    /\ \A w \in Writers : Balanced(w)

LEMMA BalanceAccounts == AuditAccounts <=> \A w \in Writers : Balanced(w)
  BY DEF AuditAccounts, Balanced, Records, Lines, Pending

LEMMA CountsAreNatural ==
  ASSUME GatesInv, IsFiniteSet(Callers), NEW w
  PROVE  /\ IsFiniteSet(Drafts) /\ IsFiniteSet(Updates)
         /\ IsFiniteSet(Lines(w)) /\ IsFiniteSet(Pending(w))
         /\ Cardinality(Drafts) \in Nat /\ Cardinality(Updates) \in Nat
         /\ Cardinality(Lines(w)) \in Nat /\ Cardinality(Pending(w)) \in Nat
         /\ Len(correlations) \in Nat
<1>1. /\ Len(findings) \in Nat /\ DOMAIN findings = 1 .. Len(findings)
      /\ Len(audit) \in Nat /\ DOMAIN audit = 1 .. Len(audit) /\ Len(correlations) \in Nat
  BY LogAppend DEF GatesInv
<1>2. IsFiniteSet(1 .. Len(findings)) /\ IsFiniteSet(1 .. Len(audit))
  BY <1>1, FS_Interval
<1>3. /\ Drafts \subseteq 1 .. Len(findings) /\ Updates \subseteq 1 .. Len(findings)
      /\ Lines(w) \subseteq 1 .. Len(audit) /\ Pending(w) \subseteq Callers
  BY <1>1 DEF Drafts, Updates, Lines, Pending
<1>4. IsFiniteSet(Drafts) /\ IsFiniteSet(Updates) /\ IsFiniteSet(Lines(w))
      /\ IsFiniteSet(Pending(w))
  BY <1>2, <1>3, FS_Subset
<1> QED BY <1>1, <1>4, FS_CardinalityType

\* What a caller's move does to the calls that are to log a success.
LEMMA CallerMoves ==
  ASSUME GatesInv, IsFiniteSet(Callers), NEW c \in Callers, NEW x,
         job' = [job EXCEPT ![c] = x], NEW w
  PROVE  /\ job[c] # ToLog(w, "ok") /\ x # ToLog(w, "ok") => Pending(w)' = Pending(w)
         /\ job[c] # ToLog(w, "ok") /\ x = ToLog(w, "ok")
              => Cardinality(Pending(w)') = Cardinality(Pending(w)) + 1
         /\ job[c] = ToLog(w, "ok") /\ x # ToLog(w, "ok")
              => Cardinality(Pending(w)') = Cardinality(Pending(w)) - 1
<1>1. job'[c] = x /\ \A v \in Callers \ {c} : job'[v] = job[v]
  BY JobSet DEF GatesInv
<1>2. PICK t : t = ToLog(w, "ok")
  OBVIOUS
<1>3. /\ Pending(w) = {v \in Callers : job[v] = t}
      /\ Pending(w)' = {v \in Callers : job'[v] = t}
  BY <1>2 DEF Pending, ToLog
<1>4. IsFiniteSet(Pending(w))
  BY CountsAreNatural
<1>5. CASE job[c] # t /\ x # t
  BY <1>1, <1>2, <1>3, <1>5
<1>6. CASE job[c] # t /\ x = t
  <2>1. Pending(w)' = Pending(w) \cup {c} /\ c \notin Pending(w)
    BY <1>1, <1>3, <1>6
  <2>2. Cardinality(Pending(w)') = Cardinality(Pending(w)) + 1
    BY <1>4, <2>1, FS_AddElement
  <2> QED BY <1>2, <1>6, <2>2
<1>7. CASE job[c] = t /\ x # t
  <2>1. Pending(w)' = Pending(w) \ {c} /\ c \in Pending(w)
    BY <1>1, <1>3, <1>7
  <2>2. Cardinality(Pending(w)') = Cardinality(Pending(w)) - 1
    BY <1>4, <2>1, FS_RemoveElement
  <2> QED BY <1>2, <1>7, <2>2
<1> QED BY <1>2, <1>5, <1>6, <1>7

\* What an append to the audit log does to the success lines.
LEMMA LineLands ==
  ASSUME GatesInv, IsFiniteSet(Callers), NEW e, audit' = Append(audit, e), NEW w
  PROVE  /\ e # Ok(w) => Lines(w)' = Lines(w)
         /\ e = Ok(w) => Cardinality(Lines(w)') = Cardinality(Lines(w)) + 1
<1>1. /\ DOMAIN audit' = 1 .. (Len(audit) + 1) /\ Len(audit) \in Nat
      /\ DOMAIN audit = 1 .. Len(audit)
      /\ \A i \in DOMAIN audit : audit'[i] = audit[i]
      /\ audit'[Len(audit) + 1] = e
  BY LogAppend DEF GatesInv
<1>2. PICK t : t = Ok(w)
  OBVIOUS
<1>3. /\ Lines(w) = {i \in DOMAIN audit : audit[i] = t}
      /\ Lines(w)' = {i \in DOMAIN audit' : audit'[i] = t}
  BY <1>2 DEF Lines, Ok
<1>4. CASE e # t
  BY <1>1, <1>2, <1>3, <1>4
<1>5. CASE e = t
  <2>1. Lines(w)' = Lines(w) \cup {Len(audit) + 1} /\ Len(audit) + 1 \notin Lines(w)
    BY <1>1, <1>3, <1>5
  <2>2. IsFiniteSet(Lines(w))
    BY CountsAreNatural
  <2>3. Cardinality(Lines(w)') = Cardinality(Lines(w)) + 1
    BY <2>1, <2>2, FS_AddElement
  <2> QED BY <1>2, <1>5, <2>3
<1> QED BY <1>2, <1>4, <1>5

LEMMA RecordsUnchanged ==
  ASSUME findings' = findings, correlations' = correlations, NEW w
  PROVE  Records(w)' = Records(w)
  BY DEF Records, Drafts, Updates

\* A step that lands no record and no success line, of a call that has none to log.
LEMMA UncountedStep ==
  ASSUME AccountsInv, GatesInv', IsFiniteSet(Callers), NEW c \in Callers, NEW x,
         job' = [job EXCEPT ![c] = x], Ending(x), crashes' = crashes,
         findings' = findings, correlations' = correlations,
         \A w \in Writers : Lines(w)' = Lines(w),
         \A w \in Writers : x = ToLog(w, "ok") <=> job[c] = ToLog(w, "ok")
  PROVE  AccountsInv'
<1>1. job'[c] = x /\ \A v \in Callers \ {c} : job'[v] = job[v]
  BY JobSet DEF AccountsInv, GatesInv
<1>2. \A v \in Callers : Ending(job[v])'
  BY <1>1 DEF AccountsInv, Ending
<1>3. ASSUME NEW w \in Writers PROVE Balanced(w)'
  <2>1. Records(w)' = Records(w) /\ Lines(w)' = Lines(w)
    BY RecordsUnchanged
  <2>2. Pending(w)' = Pending(w)
    BY <1>1 DEF Pending, ToLog
  <2> QED BY <2>1, <2>2 DEF AccountsInv, Balanced
<1> QED BY <1>2, <1>3 DEF AccountsInv

LEMMA NoSuccess ==
  /\ Ending(Idle) /\ \A t, s : Ending(ToLog(t, s))
  /\ \A w : Idle # ToLog(w, "ok")
  /\ \A w, t, s : s # "ok" => ToLog(t, s) # ToLog(w, "ok") /\ Line(t, s) # Ok(w)
  /\ \A w, j : j.pc # "log" => Ending(j) /\ j # ToLog(w, "ok")
<1>1. /\ Ending(Idle) /\ \A t, s : Ending(ToLog(t, s))
      /\ \A w : Idle # ToLog(w, "ok")
      /\ \A w, j : j.pc # "log" => Ending(j) /\ j # ToLog(w, "ok")
  BY DEF Ending, Idle, ToLog
<1>2. ASSUME NEW w, NEW t, NEW s, s # "ok"
      PROVE  ToLog(t, s) # ToLog(w, "ok") /\ Line(t, s) # Ok(w)
  <2>1. Line(t, s).status = s /\ Ok(w).status = "ok" /\ Line(w, "ok").status = "ok"
    BY DEF Line, Ok
  <2>2. ToLog(t, s).line = Line(t, s) /\ ToLog(w, "ok").line = Line(w, "ok")
    BY DEF ToLog
  <2> QED BY <1>2, <2>1, <2>2
<1> QED BY <1>1, <1>2

\* A refusal has one of the reasons.
LEMMA RefusalIsNamed ==
  ASSUME NEW gates, NEW n \in 1 .. 6, DOMAIN gates = 1 .. n,
         \A k \in 1 .. n : gates[k] \in Rejections \cup {None},
         FirstFailing(gates) # None
  PROVE  FirstFailing(gates) \in Rejections
<1> DEFINE bad == {i \in DOMAIN gates : gates[i] # None}
<1>1. bad # {}
  BY DEF FirstFailing
<1>2. PICK i \in bad : \A j \in bad : i <= j
  BY <1>1, LeastIndex
<1>3. (CHOOSE m \in bad : \A j \in bad : m <= j) \in bad
  BY <1>2
<1>4. \A m \in bad : gates[m] \in Rejections
  OBVIOUS
<1> HIDE DEF bad
<1>5. FirstFailing(gates) = gates[CHOOSE m \in bad : \A j \in bad : m <= j]
  BY <1>1 DEF FirstFailing, bad
<1> QED BY <1>3, <1>4, <1>5

LEMMA RefusalsFail ==
  ASSUME NEW c, NEW call
  PROVE  /\ FindingRefusal(c, call) # "ok" \/ FindingRefusal(c, call) = None
         /\ CorrelationRefusal(c, call) # "ok" \/ CorrelationRefusal(c, call) = None
         /\ UpdateRefusal(c, call) # "ok" \/ UpdateRefusal(c, call) = None
<1>1. "ok" \notin Rejections
  BY DEF Rejections
<1>2. ASSUME FindingRefusal(c, call) # None PROVE FindingRefusal(c, call) \in Rejections
  <2> DEFINE gates ==
        << Gate(Role[c] # None /\ Role[c] # call.analyst, "role_not_permitted"),
           Gate(~ call.registered, "evidence_not_found"),
           Gate(call.analyst \notin Analysts, "unknown_analyst"),
           Gate(call.confidence = "DISPUTED", "disputed_self_marked"),
           Gate(\E r \in call.refs : ~ Cites(r) /\ ~ Correctable(r), "invalid_audit_ref") >>
  <2>1. DOMAIN gates = 1 .. 5
    OBVIOUS
  <2>2. \A k \in 1 .. 5 : gates[k] \in Rejections \cup {None}
    BY DEF Gate, Rejections
  <2>3. FirstFailing(gates) = FindingRefusal(c, call)
    BY DEF FindingRefusal
  <2> HIDE DEF gates
  <2> QED BY <1>2, <2>1, <2>2, <2>3, RefusalIsNamed
<1>3. ASSUME CorrelationRefusal(c, call) # None
      PROVE  CorrelationRefusal(c, call) \in Rejections
  <2> DEFINE gates ==
        << Gate(Role[c] # None /\ Role[c] # "validator", "role_not_permitted"),
           Gate(call.type \notin Types, "unknown_type"),
           Gate(~ call.registered, "unknown_case_id"),
           Gate(\E r \in call.refs : ~ Cites(r), "invalid_audit_ref") >>
  <2>1. DOMAIN gates = 1 .. 4
    OBVIOUS
  <2>2. \A k \in 1 .. 4 : gates[k] \in Rejections \cup {None}
    BY DEF Gate, Rejections
  <2>3. FirstFailing(gates) = CorrelationRefusal(c, call)
    BY DEF CorrelationRefusal
  <2> HIDE DEF gates
  <2> QED BY <1>3, <2>1, <2>2, <2>3, RefusalIsNamed
<1>4. ASSUME UpdateRefusal(c, call) # None PROVE UpdateRefusal(c, call) \in Rejections
  <2> DEFINE gates ==
        << Gate(Role[c] # None /\ Role[c] # "orchestrator", "role_not_permitted"),
           Gate(call.rule \notin Rules, "unknown_rule"),
           Gate(Unsupported(call), "empty_correlations_for_non_R5"),
           Gate(Of(call.id) = {}, "unknown_finding"),
           Gate(Of(call.id) # {} /\ ~ ValidTransition(StateOf(call.id), call.to),
                "invalid_state_transition"),
           Gate(~ (call.driving \subseteq DOMAIN correlations), "unknown_correlation") >>
  <2>1. DOMAIN gates = 1 .. 6
    OBVIOUS
  <2>2. \A k \in 1 .. 6 : gates[k] \in Rejections \cup {None}
    BY DEF Gate, Rejections
  <2>3. FirstFailing(gates) = UpdateRefusal(c, call)
    BY DEF UpdateRefusal
  <2> HIDE DEF gates
  <2> QED BY <1>4, <2>1, <2>2, <2>3, RefusalIsNamed
<1> QED BY <1>1, <1>2, <1>3, <1>4

\* The call of any tool that writes no record, and calls that are tried, on
\* their way, or over.
LEMMA UncountedSteps ==
  ASSUME AccountsInv, GatesInv', IsFiniteSet(Callers), NEW c \in Callers,
         \/ \E t \in RunTools, s \in Outcomes : ToolCall(c, t, s)
         \/ \E call \in FindingCalls : BeginFinding(c, call)
         \/ \E call \in CorrelationCalls : BeginCorrelation(c, call)
         \/ \E call \in UpdateCalls : BeginUpdate(c, call)
         \/ LogDrift(c) \/ ReserveLine(c)
  PROVE  AccountsInv'
<1>1. crashes' = crashes /\ findings' = findings /\ correlations' = correlations
  BY DEF ToolCall, BeginFinding, BeginCorrelation, BeginUpdate, LogDrift, ReserveLine
<1>2. ASSUME NEW t \in RunTools, NEW s, ToolCall(c, t, s) PROVE AccountsInv'
  <2>1. PICK x : x = job[c]
    OBVIOUS
  <2>2. \E S : job \in [Callers -> S]
    BY DEF AccountsInv, GatesInv
  <2>3. job' = [job EXCEPT ![c] = x] /\ audit' = Append(audit, Line(t, s))
    BY <1>2, <2>1, <2>2 DEF ToolCall
  <2>4. \A w \in Writers : Line(t, s) # Ok(w)
    <3>1. \A w \in Writers : t # w
      BY CallersAssumption DEF Writers
    <3>2. \A w : Line(t, s).tool = t /\ Ok(w).tool = w
      BY DEF Line, Ok
    <3> QED BY <3>1, <3>2
  <2>5. \A w \in Writers : Lines(w)' = Lines(w)
    BY <2>3, <2>4, LineLands DEF AccountsInv
  <2>6. Ending(x)
    BY <2>1 DEF AccountsInv
  <2> QED BY <1>1, <2>1, <2>3, <2>5, <2>6, UncountedStep
<1>3. ASSUME NEW call,
             BeginFinding(c, call) \/ BeginCorrelation(c, call) \/ BeginUpdate(c, call)
      PROVE  AccountsInv'
  <2>1. \A w \in Writers : Lines(w)' = Lines(w)
    BY <1>3 DEF BeginFinding, BeginCorrelation, BeginUpdate, Lines, Ok
  <2>2. \A w : job[c] # ToLog(w, "ok")
    BY <1>3, NoSuccess DEF BeginFinding, BeginCorrelation, BeginUpdate
  <2>3. PICK x : job' = [job EXCEPT ![c] = x] /\ Ending(x) /\ \A w : x # ToLog(w, "ok")
    <3>1. CASE BeginFinding(c, call)
      <4>1. CASE FindingRefusal(c, call) # None
        <5>1. PICK y : y = ToLog("record_finding", FindingRefusal(c, call))
          OBVIOUS
        <5>2. Ending(y) /\ \A w : y # ToLog(w, "ok")
          BY <4>1, <5>1, RefusalsFail, NoSuccess
        <5>3. job' = [job EXCEPT ![c] = y]
          BY <3>1, <4>1, <5>1 DEF BeginFinding
        <5> QED BY <5>2, <5>3
      <4>2. CASE FindingRefusal(c, call) = None
        <5>1. PICK y : y = [pc |-> IF \E r \in call.refs : ~ Cites(r) THEN "correct" ELSE "draft",
                         call |-> [call EXCEPT !.refs = {Corrected(r) : r \in call.refs},
                                               !.host = HostOf(c, call)]]
          OBVIOUS
        <5>2. job' = [job EXCEPT ![c] = y]
          BY <3>1, <4>2, <5>1 DEF BeginFinding
        <5>3. y.pc # "log"
          BY <5>1
        <5> QED BY <5>2, <5>3, NoSuccess
      <4> QED BY <4>1, <4>2
    <3>2. CASE BeginCorrelation(c, call)
      <4>1. CASE CorrelationRefusal(c, call) # None
        <5>1. PICK y : y = ToLog("record_correlation", CorrelationRefusal(c, call))
          OBVIOUS
        <5>2. Ending(y) /\ \A w : y # ToLog(w, "ok")
          BY <4>1, <5>1, RefusalsFail, NoSuccess
        <5>3. job' = [job EXCEPT ![c] = y]
          BY <3>2, <4>1, <5>1 DEF BeginCorrelation
        <5> QED BY <5>2, <5>3
      <4>2. CASE CorrelationRefusal(c, call) = None
        <5>1. PICK y : y = [pc |-> IF Resolved(call) # call THEN "resolved" ELSE "reserve",
                         then |-> "correlate", call |-> Resolved(call)]
          OBVIOUS
        <5>2. job' = [job EXCEPT ![c] = y]
          BY <3>2, <4>2, <5>1 DEF BeginCorrelation
        <5>3. y.pc # "log"
          BY <5>1
        <5> QED BY <5>2, <5>3, NoSuccess
      <4> QED BY <4>1, <4>2
    <3>3. CASE BeginUpdate(c, call)
      <4>1. CASE UpdateRefusal(c, call) # None
        <5>1. PICK y : y = ToLog("update_finding", UpdateRefusal(c, call))
          OBVIOUS
        <5>2. Ending(y) /\ \A w : y # ToLog(w, "ok")
          BY <4>1, <5>1, RefusalsFail, NoSuccess
        <5>3. job' = [job EXCEPT ![c] = y]
          BY <3>3, <4>1, <5>1 DEF BeginUpdate
        <5> QED BY <5>2, <5>3
      <4>2. CASE UpdateRefusal(c, call) = None
        <5>1. PICK y : y = [pc |-> "reserve", then |-> "update", call |-> call,
                         from |-> StateOf(call.id)]
          OBVIOUS
        <5>2. job' = [job EXCEPT ![c] = y]
          BY <3>3, <4>2, <5>1 DEF BeginUpdate
        <5>3. y.pc # "log"
          BY <5>1
        <5> QED BY <5>2, <5>3, NoSuccess
      <4> QED BY <4>1, <4>2
    <3> QED BY <1>3, <3>1, <3>2, <3>3
  <2> QED BY <1>1, <2>1, <2>2, <2>3, UncountedStep
<1>4. CASE LogDrift(c)
  <2>1. PICK x : x = [job[c] EXCEPT !.pc = IF @ = "correct" THEN "draft" ELSE "reserve"]
    OBVIOUS
  <2>2. PICK s : /\ s \in {"source_tool_corrected", "finding_id_prefix_resolved"}
                 /\ \E t : audit' = Append(audit, Line(t, s))
    BY <1>4 DEF LogDrift
  <2>3. PICK t : audit' = Append(audit, Line(t, s))
    BY <2>2
  <2>4. \A w \in Writers : Lines(w)' = Lines(w)
    <3>1. PICK e : e = Line(t, s)
      OBVIOUS
    <3>2. s # "ok"
      BY <2>2
    <3>3. \A w : e # Ok(w)
      BY <3>1, <3>2, NoSuccess
    <3> QED BY <2>3, <3>1, <3>3, LineLands DEF AccountsInv
  <2>5. JobHolds(job[c]) /\ job[c].pc \in {"correct", "resolved"}
    BY <1>4 DEF LogDrift, AccountsInv, GatesInv
  <2>6. job' = [job EXCEPT ![c] = x]
    BY <1>4, <2>1 DEF LogDrift
  <2>7. x.pc \in {"draft", "reserve"}
    BY <2>1, <2>5 DEF JobHolds, Correlating, Updating
  <2> QED BY <1>1, <2>4, <2>5, <2>6, <2>7, NoSuccess, UncountedStep
<1>5. CASE ReserveLine(c)
  <2>1. PICK x : x = [job[c] EXCEPT !.pc = job[c].then]
    OBVIOUS
  <2>2. job' = [job EXCEPT ![c] = x] /\ job[c].pc = "reserve" /\ JobHolds(job[c])
    BY <1>5, <2>1 DEF ReserveLine, AccountsInv, GatesInv
  <2>3. x.pc \in {"correlate", "update"}
    BY <2>1, <2>2 DEF JobHolds, Correlating, Updating
  <2>4. \A w \in Writers : Lines(w)' = Lines(w)
    BY <1>5 DEF ReserveLine, Lines, Ok
  <2> QED BY <1>1, <2>2, <2>3, <2>4, NoSuccess, UncountedStep
<1> QED BY <1>2, <1>3, <1>4, <1>5

\* A record and the line that is to come.
LEMMA CountedStep ==
  ASSUME AccountsInv, GatesInv', IsFiniteSet(Callers), NEW c \in Callers,
         NEW t \in Writers, job' = [job EXCEPT ![c] = ToLog(t, "ok")],
         job[c].pc # "log", UNCHANGED <<audit, crashes>>,
         Records(t)' = Records(t) + 1,
         \A w \in Writers \ {t} : Records(w)' = Records(w)
  PROVE  AccountsInv'
<1>1. PICK x : x = ToLog(t, "ok")
  OBVIOUS
<1>2. job' = [job EXCEPT ![c] = x] /\ Ending(x)
  BY <1>1, NoSuccess
<1>3. job'[c] = x /\ \A v \in Callers \ {c} : job'[v] = job[v]
  BY <1>2, JobSet DEF AccountsInv, GatesInv
<1>4. \A v \in Callers : Ending(job[v])'
  BY <1>2, <1>3 DEF AccountsInv, Ending
<1>5. ASSUME NEW w \in Writers PROVE Balanced(w)'
  <2>1. Lines(w)' = Lines(w)
    BY DEF Lines, Ok
  <2>2. job[c] # ToLog(w, "ok")
    BY NoSuccess
  <2>3. /\ Cardinality(Lines(w)) \in Nat /\ Cardinality(Pending(w)) \in Nat
    BY CountsAreNatural DEF AccountsInv
  <2>4. CASE w = t
    <3>1. Cardinality(Pending(w)') = Cardinality(Pending(w)) + 1
      BY <1>1, <1>2, <2>2, <2>4, CallerMoves DEF AccountsInv
    <3>2. PICK lost \in 0 .. crashes :
            Records(w) = Cardinality(Lines(w)) + Cardinality(Pending(w)) + lost
      BY DEF AccountsInv, Balanced
    <3>3. Records(w)' = Cardinality(Lines(w)') + Cardinality(Pending(w)') + lost
      BY <2>1, <2>3, <2>4, <3>1, <3>2
    <3> QED BY <3>3 DEF Balanced
  <2>5. CASE w # t
    <3>1. x # ToLog(w, "ok")
      <4>1. ToLog(t, "ok").line.tool = t /\ ToLog(w, "ok").line.tool = w
        BY DEF ToLog, Line
      <4> QED BY <1>1, <2>5, <4>1
    <3>2. Pending(w)' = Pending(w)
      BY <1>2, <2>2, <3>1, CallerMoves DEF AccountsInv
    <3> QED BY <2>1, <2>5, <3>2 DEF AccountsInv, Balanced
  <2> QED BY <2>4, <2>5
<1> QED BY <1>4, <1>5 DEF AccountsInv

LEMMA RefusedLanding ==
  ASSUME AccountsInv, GatesInv', IsFiniteSet(Callers), NEW c \in Callers, NEW t, NEW s,
         s # "ok", job' = [job EXCEPT ![c] = ToLog(t, s)], job[c].pc # "log",
         UNCHANGED <<audit, findings, correlations, crashes>>
  PROVE  AccountsInv'
<1>1. \A w \in Writers : Lines(w)' = Lines(w)
  BY DEF Lines, Ok
<1>2. PICK x : x = ToLog(t, s)
  OBVIOUS
<1>3. Ending(x) /\ \A w : x # ToLog(w, "ok") /\ job[c] # ToLog(w, "ok")
  BY <1>2, NoSuccess
<1> QED BY <1>1, <1>2, <1>3, UncountedStep

LEMMA LandingsCount ==
  ASSUME AccountsInv, GatesInv', IsFiniteSet(Callers), NEW c \in Callers,
         (\E p \in Prefixes : LandFinding(c, p)) \/ LandCorrelation(c) \/ LandUpdate(c)
  PROVE  AccountsInv'
<1>1. /\ Len(findings) \in Nat /\ DOMAIN findings = 1 .. Len(findings)
      /\ IsFiniteSet(Drafts) /\ IsFiniteSet(Updates)
  BY LogAppend, CountsAreNatural DEF AccountsInv, GatesInv
<1>2. ASSUME NEW p, LandFinding(c, p), DraftFits(job[c].call) PROVE AccountsInv'
  <2>1. PICK e : findings' = Append(findings, e) /\ e.kind = "draft"
    BY <1>2 DEF LandFinding
  <2>2. Drafts' = Drafts \cup {Len(findings) + 1} /\ Len(findings) + 1 \notin Drafts
        /\ Updates' = Updates
    BY <1>1, <2>1, LogAppend DEF Drafts, Updates, AccountsInv, GatesInv
  <2>3. Cardinality(Drafts') = Cardinality(Drafts) + 1
    BY <1>1, <2>2, FS_AddElement
  <2>4. /\ correlations' = correlations /\ UNCHANGED <<audit, crashes>>
        /\ job[c].pc # "log" /\ job' = [job EXCEPT ![c] = ToLog("record_finding", "ok")]
    BY <1>2 DEF LandFinding
  <2>5. /\ Records("record_finding")' = Records("record_finding") + 1
        /\ \A w \in Writers \ {"record_finding"} : Records(w)' = Records(w)
    BY <2>2, <2>3, <2>4 DEF Records, Writers
  <2> QED BY <2>4, <2>5, CountedStep DEF Writers
<1>3. ASSUME NEW p, LandFinding(c, p), ~ DraftFits(job[c].call) PROVE AccountsInv'
  BY <1>3, RefusedLanding DEF LandFinding
<1>4. ASSUME LandUpdate(c), job[c].call.fits PROVE AccountsInv'
  <2>1. PICK e : findings' = Append(findings, e) /\ e.kind = "update"
    BY <1>4 DEF LandUpdate
  <2>2. Updates' = Updates \cup {Len(findings) + 1} /\ Len(findings) + 1 \notin Updates
        /\ Drafts' = Drafts
    BY <1>1, <2>1, LogAppend DEF Drafts, Updates, AccountsInv, GatesInv
  <2>3. Cardinality(Updates') = Cardinality(Updates) + 1
    BY <1>1, <2>2, FS_AddElement
  <2>4. /\ correlations' = correlations /\ UNCHANGED <<audit, crashes>>
        /\ job[c].pc # "log" /\ job' = [job EXCEPT ![c] = ToLog("update_finding", "ok")]
    BY <1>4 DEF LandUpdate
  <2>5. /\ Records("update_finding")' = Records("update_finding") + 1
        /\ \A w \in Writers \ {"update_finding"} : Records(w)' = Records(w)
    BY <2>2, <2>3, <2>4 DEF Records, Writers
  <2> QED BY <2>4, <2>5, CountedStep DEF Writers
<1>5. ASSUME LandUpdate(c), ~ job[c].call.fits PROVE AccountsInv'
  BY <1>5, RefusedLanding DEF LandUpdate
<1>6. CASE LandCorrelation(c)
  <2> DEFINE call == job[c].call
             ids == {About(call)[i] : i \in DOMAIN About(call)}
  <2>1. CASE PayloadFits(call) /\ ids \subseteq KnownIds
    <3>1. PICK e : correlations' = Append(correlations, e)
      BY <1>6, <2>1 DEF LandCorrelation
    <3>2. /\ findings' = findings /\ UNCHANGED <<audit, crashes>> /\ job[c].pc # "log"
          /\ job' = [job EXCEPT ![c] = ToLog("record_correlation", "ok")]
      BY <1>6, <2>1 DEF LandCorrelation
    <3>3. Len(correlations') = Len(correlations) + 1
      <4>1. /\ IsLog(correlations') /\ DOMAIN correlations' = 1 .. (Len(correlations) + 1)
            /\ Len(correlations) \in Nat
        BY <3>1, LogAppend DEF AccountsInv, GatesInv
      <4>2. PICK S : correlations' \in Seq(S)
        BY <4>1 DEF IsLog
      <4> QED BY <4>1, <4>2
    <3>4. /\ Records("record_correlation")' = Records("record_correlation") + 1
          /\ \A w \in Writers \ {"record_correlation"} : Records(w)' = Records(w)
      BY <3>2, <3>3 DEF Records, Writers, Drafts, Updates
    <3> QED BY <3>2, <3>4, CountedStep DEF Writers
  <2>2. CASE ~ (PayloadFits(call) /\ ids \subseteq KnownIds)
    BY <1>6, <2>2, RefusedLanding DEF LandCorrelation
  <2> QED BY <2>1, <2>2
<1> QED BY <1>2, <1>3, <1>4, <1>5, <1>6

\* The line of a success takes the place of the call that was to log it; the
\* call of a caller that died is one more that is lost.
LEMMA EndingsCount ==
  ASSUME AccountsInv, GatesInv', IsFiniteSet(Callers), NEW c \in Callers,
         LogOutcome(c) \/ Crash(c)
  PROVE  AccountsInv'
<1>1. /\ findings' = findings /\ correlations' = correlations
      /\ job' = [job EXCEPT ![c] = Idle] /\ crashes' \in Nat /\ crashes <= crashes'
  BY DEF LogOutcome, Crash, AccountsInv
<1>2. PICK x : x = Idle /\ Ending(x) /\ \A w : x # ToLog(w, "ok")
  BY NoSuccess
<1>3. job' = [job EXCEPT ![c] = x]
  BY <1>1, <1>2
<1>4. job'[c] = x /\ \A v \in Callers \ {c} : job'[v] = job[v]
  BY <1>3, JobSet DEF AccountsInv, GatesInv
<1>5. \A v \in Callers : Ending(job[v])'
  BY <1>2, <1>4 DEF AccountsInv, Ending
<1>6. ASSUME NEW w \in Writers PROVE Balanced(w)'
  <2>1. Records(w)' = Records(w)
    BY <1>1, RecordsUnchanged
  <2>2. PICK lost \in 0 .. crashes :
          Records(w) = Cardinality(Lines(w)) + Cardinality(Pending(w)) + lost
    BY DEF AccountsInv, Balanced
  <2>3. /\ Cardinality(Lines(w)) \in Nat /\ Cardinality(Pending(w)) \in Nat
        /\ crashes \in Nat
    BY CountsAreNatural DEF AccountsInv
  <2>4. /\ job[c] # ToLog(w, "ok") => Pending(w)' = Pending(w)
        /\ job[c] = ToLog(w, "ok")
             => Cardinality(Pending(w)') = Cardinality(Pending(w)) - 1
    BY <1>2, <1>3, CallerMoves DEF AccountsInv
  <2>5. CASE LogOutcome(c)
    <3>1. PICK e : e = job[c].line
      OBVIOUS
    <3>2. audit' = Append(audit, e) /\ job[c] = [pc |-> "log", line |-> e]
      BY <2>5, <3>1 DEF LogOutcome, AccountsInv, Ending
    <3>3. job[c] = ToLog(w, "ok") <=> e = Ok(w)
      BY <3>2 DEF ToLog, Line, Ok
    <3>4. /\ e # Ok(w) => Lines(w)' = Lines(w)
          /\ e = Ok(w) => Cardinality(Lines(w)') = Cardinality(Lines(w)) + 1
      BY <3>2, LineLands DEF AccountsInv
    <3>5. Cardinality(Lines(w)') + Cardinality(Pending(w)')
            = Cardinality(Lines(w)) + Cardinality(Pending(w))
      BY <2>3, <2>4, <3>3, <3>4
    <3>6. crashes' = crashes
      BY <2>5 DEF LogOutcome
    <3> QED BY <2>1, <2>2, <3>5, <3>6 DEF Balanced
  <2>6. CASE Crash(c)
    <3>1. Lines(w)' = Lines(w) /\ crashes' = crashes + 1
      BY <2>6 DEF Crash, Lines, Ok
    <3>2. CASE job[c] = ToLog(w, "ok")
      <4>1. Records(w)' = Cardinality(Lines(w)') + Cardinality(Pending(w)') + (lost + 1)
        BY <2>1, <2>2, <2>3, <2>4, <3>1, <3>2
      <4>2. lost + 1 \in 0 .. crashes'
        BY <2>3, <3>1
      <4> QED BY <4>1, <4>2 DEF Balanced
    <3>3. CASE job[c] # ToLog(w, "ok")
      <4>1. Records(w)' = Cardinality(Lines(w)') + Cardinality(Pending(w)') + lost
        BY <2>1, <2>2, <2>4, <3>1, <3>3
      <4>2. lost \in 0 .. crashes'
        BY <2>3, <3>1
      <4> QED BY <4>1, <4>2 DEF Balanced
    <3> QED BY <3>2, <3>3
  <2> QED BY <2>5, <2>6
<1> QED BY <1>1, <1>5, <1>6 DEF AccountsInv

LEMMA AccountsStart ==
  ASSUME IsFiniteSet(Callers)
  PROVE  Init => AccountsInv
<1> SUFFICES ASSUME Init PROVE AccountsInv
  OBVIOUS
<1>1. GatesInv /\ crashes = 0 /\ \A c \in Callers : job[c] = Idle
  BY GatesStart DEF Init
<1>2. ASSUME NEW w \in Writers PROVE Balanced(w)
  <2>1. Pending(w) = {}
    BY <1>1, NoSuccess DEF Pending
  <2>2. Lines(w) = {}
    <3>1. PICK e : e = Ok("register_evidence") /\ audit = <<e>>
      BY DEF Init
    <3>2. "register_evidence" # w
      BY DEF Writers
    <3>3. Ok("register_evidence").tool = "register_evidence" /\ Ok(w).tool = w
      BY DEF Ok
    <3>4. e # Ok(w)
      BY <3>1, <3>2, <3>3
    <3>5. \A i \in DOMAIN audit : audit[i] = e
      BY <3>1
    <3> QED BY <3>4, <3>5 DEF Lines
  <2>3. Drafts = {} /\ Updates = {} /\ Len(correlations) = 0
    BY DEF Init, Drafts, Updates
  <2>4. Records(w) = 0
    BY <2>3, FS_EmptySet DEF Records, Writers
  <2>5. Records(w) = Cardinality(Lines(w)) + Cardinality(Pending(w)) + 0
    BY <2>1, <2>2, <2>4, FS_EmptySet
  <2> QED BY <1>1, <2>5 DEF Balanced
<1> QED BY <1>1, <1>2, NoSuccess DEF AccountsInv

LEMMA AccountsStep ==
  ASSUME IsFiniteSet(Callers)
  PROVE  AccountsInv /\ [Next]_vars => AccountsInv'
<1> SUFFICES ASSUME AccountsInv, [Next]_vars PROVE AccountsInv'
  OBVIOUS
<1>1. GatesInv'
  BY GatesStep DEF AccountsInv
<1>2. ASSUME NEW c \in Callers,
             \/ \E t \in RunTools, s \in Outcomes : ToolCall(c, t, s)
             \/ \E call \in FindingCalls : BeginFinding(c, call)
             \/ \E call \in CorrelationCalls : BeginCorrelation(c, call)
             \/ \E call \in UpdateCalls : BeginUpdate(c, call)
             \/ LogDrift(c) \/ ReserveLine(c)
      PROVE  AccountsInv'
  BY <1>1, <1>2, UncountedSteps
<1>3. ASSUME NEW c \in Callers,
             (\E p \in Prefixes : LandFinding(c, p)) \/ LandCorrelation(c) \/ LandUpdate(c)
      PROVE  AccountsInv'
  BY <1>1, <1>3, LandingsCount
<1>4. ASSUME NEW c \in Callers, LogOutcome(c) \/ Crash(c) PROVE AccountsInv'
  BY <1>1, <1>4, EndingsCount
<1>5. CASE UNCHANGED vars
  <2>1. UNCHANGED <<audit, findings, correlations, job, crashes>>
    BY <1>5 DEF vars
  <2>2. \A w : Records(w)' = Records(w)
    BY <2>1, RecordsUnchanged
  <2>3. \A w : Lines(w)' = Lines(w) /\ Pending(w)' = Pending(w)
    BY <2>1 DEF Lines, Pending, Ok, ToLog
  <2>4. \A w \in Writers : Balanced(w)'
    BY <2>1, <2>2, <2>3 DEF AccountsInv, Balanced
  <2> QED BY <1>1, <2>1, <2>4 DEF AccountsInv, Ending
<1> QED BY <1>2, <1>3, <1>4, <1>5 DEF Next

\* Records and success lines match, but for the calls that are about to log
\* and those of callers that died in between (record_finding,
\* record_correlation, update_finding).
THEOREM Accounts ==
  ASSUME IsFiniteSet(Callers)
  PROVE  Spec => []AuditAccounts
<1>1. AccountsInv => AuditAccounts
  BY BalanceAccounts DEF AccountsInv
<1> QED BY <1>1, AccountsStart, AccountsStep, PTL DEF Spec

-----------------------------------------------------------------------------
(* The types, and the lock of the audit log. *)

\* A job that is to log writes a line of a record-writing tool, and one with a
\* correlation under way has one of a known type.
Shaped(j) ==
    /\ j.pc = "log" => j.line.tool \in Writers
    /\ j.pc \in {"resolved", "reserve", "correlate"} /\ j.then = "correlate"
         => j.call.type \in Types

LineTools == FindingTools \cup {Rag} \cup Writers
Reserved == {"correlate", "update"}

\* Whoever is inside the reservation holds the lock, and the lock is held by
\* nobody who is not on the way to its own line.
Locked ==
    /\ holder \in Callers \cup {None} /\ (holder # None => job[holder].pc \in Inside)
    /\ \A c \in Callers : job[c].pc \in Reserved => holder = c

ShapesInv ==
    /\ GatesInv /\ Locked /\ \A c \in Callers : Shaped(job[c])
    /\ audit # <<>> /\ \A i \in DOMAIN audit : audit[i].tool \in LineTools
    /\ \A i \in Drafts : findings[i].id \in Names /\ IsFull(findings[i].id)
    /\ \A k \in DOMAIN correlations : correlations[k].type \in Types
    /\ crashes \in 0 .. MaxFindings

\* Every record is a draft or an update, and none is both.
LEMMA RecordsAreCounted ==
  ASSUME GatesInv
  PROVE  Cardinality(Drafts) + Cardinality(Updates) = Len(findings)
<1>1. PICK n \in Nat : n = Len(findings) /\ DOMAIN findings = 1 .. n
  BY LogAppend DEF GatesInv
<1>2. /\ Drafts \cup Updates = 1 .. n /\ Drafts \cap Updates = {}
      /\ Drafts \subseteq 1 .. n /\ Updates \subseteq 1 .. n
  BY <1>1 DEF GatesInv, Kinds, Drafts, Updates
<1>3. IsFiniteSet(1 .. n) /\ Cardinality(1 .. n) = n
  <2>1. Cardinality(1 .. n) = IF 1 > n THEN 0 ELSE n - 1 + 1
    BY FS_Interval
  <2>2. IsFiniteSet(1 .. n)
    BY FS_Interval
  <2> QED BY <2>1, <2>2
<1>4. IsFiniteSet(Drafts) /\ IsFiniteSet(Updates)
  BY <1>2, <1>3, FS_Subset
<1>5. Cardinality(Drafts \cup Updates)
        = Cardinality(Drafts) + Cardinality(Updates) - Cardinality(Drafts \cap Updates)
  BY <1>4, FS_Union
<1>6. /\ Cardinality({}) = 0
      /\ Cardinality(Drafts) \in Nat /\ Cardinality(Updates) \in Nat
  BY <1>4, FS_EmptySet, FS_CardinalityType
<1>7. n = Cardinality(Drafts) + Cardinality(Updates) - 0
  BY <1>2, <1>3, <1>5, <1>6
<1> QED BY <1>1, <1>6, <1>7

LEMMA ShapesAreTypes == ShapesInv => TypeOK
<1> SUFFICES ASSUME ShapesInv PROVE TypeOK
  OBVIOUS
<1>1. ASSUME NEW i \in DOMAIN findings
      PROVE  findings[i].id \in Names /\ IsFull(findings[i].id)
  <2>1. i \in Drafts \/ i \in Updates
    BY DEF ShapesInv, GatesInv, Kinds, Drafts, Updates
  <2>2. i \in Updates => \E j \in Drafts : findings[j].id = findings[i].id
    BY DEF ShapesInv, GatesInv, RecordsResolve
  <2> QED BY <2>1, <2>2 DEF ShapesInv
<1>2. Cardinality(Drafts) + Cardinality(Updates) = Len(findings)
  BY RecordsAreCounted DEF ShapesInv
<1> QED BY <1>1, <1>2 DEF ShapesInv, Locked, LineTools, Reserved, TypeOK

\* What a step of one caller may do to the lock.
LEMMA LockMoves ==
  ASSUME GatesInv, Locked, NEW c \in Callers, NEW x, job' = [job EXCEPT ![c] = x],
         \/ /\ holder' = holder /\ (holder = c => x.pc \in Inside)
            /\ x.pc \in Reserved => holder = c
         \/ holder = None /\ holder' = c /\ x.pc \in Inside
         \/ holder \in {None, c} /\ holder' = None /\ x.pc \notin Reserved
  PROVE  Locked'
<1>1. job'[c] = x /\ \A v \in Callers \ {c} : job'[v] = job[v]
  BY JobSet DEF GatesInv
<1>2. c # None
  BY CallersAssumption
<1>3. holder' \in Callers \cup {None}
  BY DEF Locked
<1>4. holder' # None => job'[holder'].pc \in Inside
  <2>1. holder \in Callers /\ holder # c => job'[holder] = job[holder]
    BY <1>1
  <2> QED BY <1>1, <2>1 DEF Locked
<1>5. ASSUME NEW v \in Callers, job'[v].pc \in Reserved PROVE holder' = v
  <2>1. CASE v = c
    BY <1>1, <1>5, <2>1
  <2>2. CASE v # c
    <3>1. holder = v
      BY <1>1, <1>5, <2>2 DEF Locked
    <3> QED BY <1>2, <2>2, <3>1, CallersAssumption
  <2> QED BY <2>1, <2>2
<1> QED BY <1>3, <1>4, <1>5 DEF Locked

\* A step of one caller, to the job x.
LEMMA ShapesMove ==
  ASSUME ShapesInv, GatesInv', Locked', NEW c \in Callers, NEW x,
         job' = [job EXCEPT ![c] = x], Shaped(x),
         audit' = audit \/ \E e : audit' = Append(audit, e) /\ e.tool \in LineTools,
         \/ findings' = findings
         \/ \E e : /\ findings' = Append(findings, e)
                   /\ e.kind = "draft" => e.id \in Names /\ IsFull(e.id),
         \/ correlations' = correlations
         \/ \E e : correlations' = Append(correlations, e) /\ e.type \in Types,
         crashes' \in 0 .. MaxFindings
  PROVE  ShapesInv'
<1>1. job'[c] = x /\ \A v \in Callers \ {c} : job'[v] = job[v]
  BY JobSet DEF ShapesInv, GatesInv
<1>2. \A v \in Callers : Shaped(job[v])'
  BY <1>1 DEF ShapesInv, Shaped
<1>3. audit' # <<>> /\ \A i \in DOMAIN audit' : audit'[i].tool \in LineTools
  <2>1. CASE audit' = audit
    BY <2>1 DEF ShapesInv
  <2>2. ASSUME NEW e, audit' = Append(audit, e), e.tool \in LineTools
        PROVE  audit' # <<>> /\ \A i \in DOMAIN audit' : audit'[i].tool \in LineTools
    <3>1. /\ DOMAIN audit' = 1 .. (Len(audit) + 1) /\ Len(audit) \in Nat
          /\ DOMAIN audit = 1 .. Len(audit)
          /\ \A i \in DOMAIN audit : audit'[i] = audit[i]
          /\ audit'[Len(audit) + 1] = e
      BY <2>2, LogAppend DEF ShapesInv, GatesInv
    <3>2. Len(audit) + 1 \in DOMAIN audit'
      BY <3>1
    <3>3. \A i \in DOMAIN audit' : i \in DOMAIN audit \/ i = Len(audit) + 1
      BY <3>1
    <3>4. \A i \in DOMAIN audit : audit'[i].tool \in LineTools
      BY <3>1 DEF ShapesInv
    <3>5. audit'[Len(audit) + 1].tool \in LineTools
      <4>1. audit'[Len(audit) + 1] = e
        BY <3>1
      <4>2. e.tool \in LineTools
        BY <2>2
      <4> QED BY <4>1, <4>2, Zenon
    <3>6. audit' # <<>>
      <4>1. DOMAIN <<>> = {}
        OBVIOUS
      <4> QED BY <3>2, <4>1
    <3> QED BY <3>3, <3>4, <3>5, <3>6
  <2> QED BY <2>1, <2>2
<1>4. \A i \in Drafts' : findings'[i].id \in Names /\ IsFull(findings'[i].id)
  <2>1. CASE findings' = findings
    BY <2>1 DEF ShapesInv, Drafts
  <2>2. ASSUME NEW e, findings' = Append(findings, e),
               e.kind = "draft" => e.id \in Names /\ IsFull(e.id)
        PROVE  \A i \in Drafts' : findings'[i].id \in Names /\ IsFull(findings'[i].id)
    <3>1. /\ DOMAIN findings' = 1 .. (Len(findings) + 1) /\ Len(findings) \in Nat
          /\ DOMAIN findings = 1 .. Len(findings)
          /\ \A i \in DOMAIN findings : findings'[i] = findings[i]
          /\ findings'[Len(findings) + 1] = e
      BY <2>2, LogAppend DEF ShapesInv, GatesInv
    <3>2. \A i \in DOMAIN findings' : i \in DOMAIN findings \/ i = Len(findings) + 1
      BY <3>1
    <3>3. ASSUME NEW i \in Drafts' PROVE findings'[i].id \in Names /\ IsFull(findings'[i].id)
      <4>1. i \in DOMAIN findings' /\ findings'[i].kind = "draft"
        BY DEF Drafts
      <4>2. CASE i \in DOMAIN findings
        <5>1. findings'[i] = findings[i] /\ i \in Drafts
          BY <3>1, <4>1, <4>2 DEF Drafts
        <5> QED BY <5>1 DEF ShapesInv
      <4>3. CASE i = Len(findings) + 1
        <5>1. findings'[i] = e
          BY <3>1, <4>3
        <5> QED BY <2>2, <4>1, <5>1
      <4> QED BY <3>2, <4>1, <4>2, <4>3
    <3> QED BY <3>3
  <2> QED BY <2>1, <2>2
<1>5. \A k \in DOMAIN correlations' : correlations'[k].type \in Types
  <2>1. CASE correlations' = correlations
    BY <2>1 DEF ShapesInv
  <2>2. ASSUME NEW e, correlations' = Append(correlations, e), e.type \in Types
        PROVE  \A k \in DOMAIN correlations' : correlations'[k].type \in Types
    <3>1. /\ DOMAIN correlations' = 1 .. (Len(correlations) + 1) /\ Len(correlations) \in Nat
          /\ DOMAIN correlations = 1 .. Len(correlations)
          /\ \A k \in DOMAIN correlations : correlations'[k] = correlations[k]
          /\ correlations'[Len(correlations) + 1] = e
      BY <2>2, LogAppend DEF ShapesInv, GatesInv
    <3>2. \A k \in DOMAIN correlations' : k \in DOMAIN correlations \/ k = Len(correlations) + 1
      BY <3>1
    <3>3. \A k \in DOMAIN correlations : correlations'[k].type \in Types
      BY <3>1 DEF ShapesInv
    <3>4. correlations'[Len(correlations) + 1].type \in Types
      <4>1. correlations'[Len(correlations) + 1] = e
        BY <3>1
      <4>2. e.type \in Types
        BY <2>2
      <4> QED BY <4>1, <4>2, Zenon
    <3> QED BY <3>2, <3>3, <3>4
  <2> QED BY <2>1, <2>2
<1> QED BY <1>2, <1>3, <1>4, <1>5 DEF ShapesInv, Names, IsFull, LineTools

\* Jobs that end or log.
LEMMA LogsAreShaped ==
  /\ Shaped(Idle) /\ Idle.pc = "idle"
  /\ \A t \in Writers : \A s : Shaped(ToLog(t, s)) /\ ToLog(t, s).pc = "log"
  /\ \A t, s : Line(t, s).tool = t
  BY DEF Shaped, Idle, ToLog, Line

\* A caller that is not inside the reservation does not hold the lock.
LEMMA OutsideIsFree ==
  ASSUME Locked, NEW c \in Callers, job[c].pc \notin Inside
  PROVE  holder # c
  BY CallersAssumption DEF Locked

LEMMA TypeAdmitted ==
  ASSUME NEW c, NEW call, CorrelationRefusal(c, call) = None
  PROVE  call.type \in Types
<1> DEFINE g1 == Gate(Role[c] # None /\ Role[c] # "validator", "role_not_permitted")
           g2 == Gate(call.type \notin Types, "unknown_type")
           g3 == Gate(~ call.registered, "unknown_case_id")
           g4 == Gate(\E ref \in call.refs : ~ Cites(ref), "invalid_audit_ref")
<1>1. FirstFailing(<<g1, g2, g3, g4>>) = None
  BY DEF CorrelationRefusal
<1> HIDE DEF g1, g2, g3, g4
<1>2. DOMAIN <<g1, g2, g3, g4>> = 1 .. 4 /\ <<g1, g2, g3, g4>>[2] = g2
  OBVIOUS
<1>3. g2 = None
  BY <1>1, <1>2, NoGateFails
<1>4. call.type \notin Types => g2 = "unknown_type"
  BY DEF g2, Gate
<1>5. "unknown_type" # None
  BY CallsAssumption DEF Rejections
<1> QED BY <1>3, <1>4, <1>5

\* A call of record_finding is refused, or goes on to correct or to draft.
LEMMA FindingMoves ==
  ASSUME NEW c \in Callers, NEW call \in FindingCalls, BeginFinding(c, call)
  PROVE  \E x : /\ job' = [job EXCEPT ![c] = x]
                /\ \/ \E s : x = ToLog("record_finding", s)
                   \/ x.pc \in {"correct", "draft"}
<1> DEFINE why == FindingRefusal(c, call)
           kept == [call EXCEPT !.refs = {Corrected(r) : r \in call.refs},
                                !.host = HostOf(c, call)]
           pc == IF \E r \in call.refs : ~ Cites(r) THEN "correct" ELSE "draft"
<1>1. CASE why # None
  <2>1. job' = [job EXCEPT ![c] = ToLog("record_finding", why)]
    BY <1>1 DEF BeginFinding
  <2> QED BY <2>1
<1>2. CASE why = None
  <2>1. job' = [job EXCEPT ![c] = [pc |-> pc, call |-> kept]]
    BY <1>2 DEF BeginFinding
  <2> HIDE DEF kept
  <2>2. PICK x : x = [pc |-> pc, call |-> kept]
    OBVIOUS
  <2>3. x.pc \in {"correct", "draft"}
    BY <2>2
  <2> QED BY <2>1, <2>2, <2>3
<1> QED BY <1>1, <1>2

\* What callers pass, what their gates let through, and what they are to log.
LEMMA BeginsKeepShape ==
  ASSUME ShapesInv, GatesInv', NEW c \in Callers,
         \/ \E call \in FindingCalls : BeginFinding(c, call)
         \/ \E call \in CorrelationCalls : BeginCorrelation(c, call)
         \/ \E call \in UpdateCalls : BeginUpdate(c, call)
  PROVE  ShapesInv'
<1>1. job[c] = Idle /\ UNCHANGED <<audit, findings, correlations, holder, crashes>>
  <2>1. ASSUME NEW call, BeginFinding(c, call)
        PROVE  job[c] = Idle /\ UNCHANGED <<audit, findings, correlations, holder, crashes>>
    BY <2>1, Zenon DEF BeginFinding
  <2>2. ASSUME NEW call, BeginCorrelation(c, call)
        PROVE  job[c] = Idle /\ UNCHANGED <<audit, findings, correlations, holder, crashes>>
    BY <2>2, Zenon DEF BeginCorrelation
  <2>3. ASSUME NEW call, BeginUpdate(c, call)
        PROVE  job[c] = Idle /\ UNCHANGED <<audit, findings, correlations, holder, crashes>>
    BY <2>3, Zenon DEF BeginUpdate
  <2> QED BY <2>1, <2>2, <2>3
<1>2. holder # c
  BY <1>1, LogsAreShaped, OutsideIsFree DEF Inside, ShapesInv
<1>3. ASSUME NEW x, job' = [job EXCEPT ![c] = x], Shaped(x), x.pc \notin Reserved
      PROVE  ShapesInv'
  <2>1. Locked'
    BY <1>1, <1>2, <1>3, LockMoves DEF ShapesInv
  <2>2. crashes' \in 0 .. MaxFindings
    BY <1>1 DEF ShapesInv
  <2> QED BY <1>1, <1>3, <2>1, <2>2, ShapesMove
<1>4. ASSUME NEW t \in Writers, NEW s, job' = [job EXCEPT ![c] = ToLog(t, s)]
      PROVE  ShapesInv'
  <2>1. PICK x : x = ToLog(t, s)
    OBVIOUS
  <2>2. Shaped(x) /\ x.pc \notin Reserved
    BY <2>1, LogsAreShaped DEF Reserved
  <2> QED BY <1>3, <1>4, <2>1, <2>2
<1>5. ASSUME NEW call \in FindingCalls, BeginFinding(c, call) PROVE ShapesInv'
  <2>1. PICK x : /\ job' = [job EXCEPT ![c] = x]
                 /\ \/ \E s : x = ToLog("record_finding", s)
                    \/ x.pc \in {"correct", "draft"}
    BY <1>5, FindingMoves
  <2>2. Shaped(x) /\ x.pc \notin Reserved
    BY <2>1, LogsAreShaped DEF Shaped, Reserved, Writers
  <2> QED BY <1>3, <2>1, <2>2
<1>6. ASSUME NEW call \in CorrelationCalls, BeginCorrelation(c, call) PROVE ShapesInv'
  <2>1. CASE CorrelationRefusal(c, call) # None
    BY <1>4, <1>6, <2>1 DEF BeginCorrelation, Writers
  <2>2. CASE CorrelationRefusal(c, call) = None
    <3>1. PICK full : full = Resolved(call)
      OBVIOUS
    <3>2. PICK x : x = [pc |-> IF full # call THEN "resolved" ELSE "reserve",
                        then |-> "correlate", call |-> full]
      OBVIOUS
    <3>3. job' = [job EXCEPT ![c] = x]
      BY <1>6, <2>2, <3>1, <3>2 DEF BeginCorrelation
    <3>4. x.pc \in {"resolved", "reserve"} /\ x.call = full
      BY <3>2
    <3>5. full.type = call.type
      BY <3>1, CallsAssumption DEF Resolved
    <3>6. Shaped(x) /\ x.pc \notin Reserved
      BY <2>2, <3>4, <3>5, TypeAdmitted DEF Shaped, Reserved
    <3> QED BY <1>3, <3>3, <3>6
  <2> QED BY <2>1, <2>2
<1>7. ASSUME NEW call \in UpdateCalls, BeginUpdate(c, call) PROVE ShapesInv'
  <2>1. CASE UpdateRefusal(c, call) # None
    BY <1>4, <1>7, <2>1 DEF BeginUpdate, Writers
  <2>2. CASE UpdateRefusal(c, call) = None
    <3>1. PICK x : x = [pc |-> "reserve", then |-> "update", call |-> call,
                        from |-> StateOf(call.id)]
      OBVIOUS
    <3>2. job' = [job EXCEPT ![c] = x]
      BY <1>7, <2>2, <3>1 DEF BeginUpdate
    <3>3. x.pc = "reserve" /\ x.then = "update"
      BY <3>1
    <3>4. Shaped(x) /\ x.pc \notin Reserved
      BY <3>3 DEF Shaped, Reserved
    <3> QED BY <1>3, <3>2, <3>4
  <2> QED BY <2>1, <2>2
<1> QED BY <1>5, <1>6, <1>7

LEMMA LinesKeepShape ==
  ASSUME ShapesInv, GatesInv', NEW c \in Callers,
         \/ \E t \in RunTools, s \in Outcomes : ToolCall(c, t, s)
         \/ LogDrift(c) \/ LogOutcome(c)
  PROVE  ShapesInv'
<1>1. UNCHANGED <<findings, correlations, crashes>> /\ crashes' \in 0 .. MaxFindings
  BY DEF ToolCall, LogDrift, LogOutcome, ShapesInv
<1>2. ASSUME NEW t \in RunTools, NEW s, ToolCall(c, t, s) PROVE ShapesInv'
  <2>1. PICK x : x = job[c]
    OBVIOUS
  <2>2. job' = [job EXCEPT ![c] = x] /\ Shaped(x) /\ holder' = holder
    BY <1>2, <2>1 DEF ToolCall, ShapesInv, GatesInv
  <2>3. Locked'
    BY <1>2 DEF ToolCall, ShapesInv, Locked
  <2>4. PICK e : e = Line(t, s)
    OBVIOUS
  <2>5. audit' = Append(audit, e) /\ e.tool \in LineTools
    BY <1>2, <2>4, LogsAreShaped, CallersAssumption DEF ToolCall, LineTools
  <2> QED BY <1>1, <2>2, <2>3, <2>5, ShapesMove
<1>3. CASE LogDrift(c)
  <2>1. PICK x : x = [job[c] EXCEPT !.pc = IF @ = "correct" THEN "draft" ELSE "reserve"]
    OBVIOUS
  <2>2. /\ job' = [job EXCEPT ![c] = x] /\ JobHolds(job[c]) /\ Shaped(job[c])
        /\ job[c].pc \in {"correct", "resolved"} /\ holder' = holder
    BY <1>3, <2>1 DEF LogDrift, ShapesInv, GatesInv
  <2>3. /\ x.pc \in {"draft", "reserve"}
        /\ x.pc = "reserve" => job[c].pc = "resolved" /\ x.then = job[c].then
                                 /\ x.call = job[c].call
    BY <2>1, <2>2 DEF JobHolds, Correlating, Updating
  <2>4. Shaped(x) /\ x.pc \notin Reserved
    BY <2>2, <2>3 DEF Shaped, Reserved
  <2>5. holder # c
    BY <2>2, OutsideIsFree DEF ShapesInv, Inside
  <2>6. Locked'
    BY <2>2, <2>4, <2>5, LockMoves DEF ShapesInv
  <2>7. PICK e : audit' = Append(audit, e) /\ e.tool \in Writers
    <3>1. PICK t \in Writers : \E s : audit' = Append(audit, Line(t, s))
      BY <1>3 DEF LogDrift, Writers
    <3> QED BY <3>1, LogsAreShaped
  <2> QED BY <1>1, <2>2, <2>4, <2>6, <2>7, ShapesMove DEF LineTools
<1>4. CASE LogOutcome(c)
  <2>1. PICK x : x = Idle
    OBVIOUS
  <2>2. job' = [job EXCEPT ![c] = x] /\ Shaped(x) /\ x.pc \notin Reserved
    BY <1>4, <2>1, LogsAreShaped DEF LogOutcome, Reserved
  <2>3. holder \in {None, c} /\ holder' = None
    BY <1>4 DEF LogOutcome, MayAppend
  <2>4. Locked'
    BY <2>2, <2>3, LockMoves DEF ShapesInv
  <2>5. PICK e : e = job[c].line
    OBVIOUS
  <2>6. audit' = Append(audit, e) /\ e.tool \in Writers
    BY <1>4, <2>5 DEF LogOutcome, ShapesInv, Shaped
  <2> QED BY <1>1, <2>2, <2>4, <2>6, ShapesMove DEF LineTools
<1> QED BY <1>2, <1>3, <1>4

LEMMA ReserveKeepsShape ==
  ASSUME ShapesInv, GatesInv', NEW c \in Callers, ReserveLine(c)
  PROVE  ShapesInv'
<1>1. PICK x : x = [job[c] EXCEPT !.pc = job[c].then]
  OBVIOUS
<1>2. /\ job' = [job EXCEPT ![c] = x] /\ JobHolds(job[c]) /\ Shaped(job[c])
      /\ job[c].pc = "reserve" /\ holder = None /\ holder' = c
      /\ UNCHANGED <<audit, findings, correlations, crashes>>
  BY <1>1 DEF ReserveLine, ShapesInv, GatesInv
<1>3. /\ x.pc \in {"correlate", "update"} /\ x.then = job[c].then /\ x.call = job[c].call
      /\ x.pc = "correlate" => job[c].then = "correlate"
  BY <1>1, <1>2 DEF JobHolds, Correlating, Updating
<1>4. Shaped(x) /\ x.pc \in Inside
  BY <1>2, <1>3 DEF Shaped, Inside
<1>5. Locked'
  BY <1>2, <1>4, LockMoves DEF ShapesInv
<1>6. crashes' \in 0 .. MaxFindings
  BY <1>2 DEF ShapesInv
<1> QED BY <1>2, <1>4, <1>5, <1>6, ShapesMove

LEMMA CrashKeepsShape ==
  ASSUME ShapesInv, GatesInv', NEW c \in Callers, Crash(c)
  PROVE  ShapesInv'
<1>1. PICK x : x = Idle
  OBVIOUS
<1>2. /\ job' = [job EXCEPT ![c] = x] /\ Shaped(x) /\ x.pc \notin Reserved
      /\ UNCHANGED <<audit, findings, correlations>>
  BY <1>1, LogsAreShaped DEF Crash, Reserved
<1>3. \/ holder = c /\ holder' = None
      \/ holder # c /\ holder' = holder
  BY DEF Crash
<1>4. Locked'
  BY <1>2, <1>3, LockMoves DEF ShapesInv
<1>5. crashes' \in 0 .. MaxFindings
  <2>1. Cardinality(Drafts) \in Nat
    <3>1. Len(findings) \in Nat /\ DOMAIN findings = 1 .. Len(findings)
      BY LogAppend DEF ShapesInv, GatesInv
    <3>2. IsFiniteSet(1 .. Len(findings)) /\ Drafts \subseteq 1 .. Len(findings)
      BY <3>1, FS_Interval DEF Drafts
    <3> QED BY <3>2, FS_Subset, FS_CardinalityType
  <2>2. Cardinality(Drafts) + crashes < MaxFindings /\ crashes' = crashes + 1
    BY DEF Crash, Rare
  <2> QED BY <2>1, <2>2, CallersAssumption DEF ShapesInv
<1> QED BY <1>2, <1>4, <1>5, ShapesMove

\* What lands has a full id or a known type.
LEMMA LandingsKeepShape ==
  ASSUME ShapesInv, GatesInv', NEW c \in Callers,
         (\E p \in Prefixes : LandFinding(c, p)) \/ LandCorrelation(c) \/ LandUpdate(c)
  PROVE  ShapesInv'
<1>1. PICK t \in Writers : \E s : job' = [job EXCEPT ![c] = ToLog(t, s)]
  BY DEF LandFinding, LandCorrelation, LandUpdate, Writers
<1>2. PICK x : job' = [job EXCEPT ![c] = x] /\ \E s : x = ToLog(t, s)
  BY <1>1
<1>3. /\ job' = [job EXCEPT ![c] = x] /\ Shaped(x)
      /\ x.pc \in Inside /\ x.pc \notin Reserved
  <2>1. PICK s : x = ToLog(t, s)
    BY <1>2
  <2>2. Shaped(x) /\ x.pc = "log"
    BY <2>1, LogsAreShaped
  <2> QED BY <1>2, <2>2 DEF Inside, Reserved
<1>4. /\ audit' = audit /\ holder' = holder /\ crashes' \in 0 .. MaxFindings
      /\ JobHolds(job[c]) /\ Shaped(job[c])
  BY DEF LandFinding, LandCorrelation, LandUpdate, ShapesInv, GatesInv
<1>5. Locked'
  BY <1>3, <1>4, LockMoves DEF ShapesInv
<1>6. CASE findings' = findings /\ correlations' = correlations
  BY <1>3, <1>4, <1>5, <1>6, ShapesMove
<1>7. ASSUME NEW p \in Prefixes, LandFinding(c, p), findings' # findings PROVE ShapesInv'
  <2>1. PICK e : e = [kind |-> "draft", id |-> <<p, Cardinality(Drafts) + 1>>,
                      state |-> "DRAFT", host |-> job[c].call.host, refs |-> job[c].call.refs]
    OBVIOUS
  <2>2. findings' = Append(findings, e) /\ correlations' = correlations
    BY <1>7, <2>1 DEF LandFinding
  <2>3. Cardinality(Drafts) \in Nat
    <3>1. Len(findings) \in Nat /\ DOMAIN findings = 1 .. Len(findings)
      BY LogAppend DEF ShapesInv, GatesInv
    <3>2. IsFiniteSet(1 .. Len(findings)) /\ Drafts \subseteq 1 .. Len(findings)
      BY <3>1, FS_Interval DEF Drafts
    <3> QED BY <3>2, FS_Subset, FS_CardinalityType
  <2>4. e.id \in Names /\ IsFull(e.id)
    BY <2>1, <2>3 DEF Names, IsFull
  <2> QED BY <1>3, <1>4, <1>5, <2>2, <2>4, ShapesMove
<1>8. ASSUME LandCorrelation(c), correlations' # correlations PROVE ShapesInv'
  <2>1. PICK e : /\ correlations' = Append(correlations, e) /\ findings' = findings
                 /\ e.type = job[c].call.type
    BY <1>8 DEF LandCorrelation
  <2>2. job[c].pc = "correlate" /\ job[c].then = "correlate"
    BY <1>4, <1>8 DEF LandCorrelation, JobHolds, Correlating, Updating
  <2>3. e.type \in Types
    BY <1>4, <2>1, <2>2 DEF Shaped
  <2> QED BY <1>3, <1>4, <1>5, <2>1, <2>3, ShapesMove
<1>9. ASSUME LandUpdate(c), findings' # findings PROVE ShapesInv'
  <2>1. PICK e : /\ findings' = Append(findings, e) /\ correlations' = correlations
                 /\ e.kind # "draft"
    BY <1>9 DEF LandUpdate
  <2> QED BY <1>3, <1>4, <1>5, <2>1, ShapesMove
<1> QED BY <1>6, <1>7, <1>8, <1>9 DEF LandFinding, LandCorrelation, LandUpdate

LEMMA ShapesStart == Init => ShapesInv
<1> SUFFICES ASSUME Init PROVE ShapesInv
  OBVIOUS
<1>1. GatesInv /\ \A c \in Callers : job[c] = Idle
  BY GatesStart DEF Init
<1>2. Locked
  BY <1>1, LogsAreShaped DEF Init, Locked, Reserved
<1>3. PICK e : e = Ok("register_evidence")
  OBVIOUS
<1>4. e.tool = "register_evidence" /\ audit = <<e>>
  BY <1>3 DEF Init, Ok
<1>5. audit # <<>> /\ \A i \in DOMAIN audit : audit[i].tool \in LineTools
  <2>1. DOMAIN audit = {1} /\ audit[1] = e
    BY <1>4
  <2>2. audit # <<>>
    BY <1>4
  <2> QED BY <1>4, <2>1, <2>2, CallersAssumption DEF LineTools
<1>6. Drafts = {} /\ DOMAIN correlations = {} /\ crashes \in 0 .. MaxFindings
  BY CallersAssumption DEF Init, Drafts
<1> QED BY <1>1, <1>2, <1>5, <1>6, LogsAreShaped DEF ShapesInv

LEMMA ShapesStep == ShapesInv /\ [Next]_vars => ShapesInv'
<1> SUFFICES ASSUME ShapesInv, [Next]_vars PROVE ShapesInv'
  OBVIOUS
<1>1. GatesInv'
  BY GatesStep DEF ShapesInv
<1>2. CASE UNCHANGED vars
  BY <1>1, <1>2 DEF vars, ShapesInv, Locked, Shaped, Drafts, Names, IsFull, LineTools
<1>3. CASE Next
  <2>1. PICK c \in Callers :
          \/ \E t \in RunTools, s \in Outcomes : ToolCall(c, t, s)
          \/ \E call \in FindingCalls : BeginFinding(c, call)
          \/ \E call \in CorrelationCalls : BeginCorrelation(c, call)
          \/ \E call \in UpdateCalls : BeginUpdate(c, call)
          \/ \E p \in Prefixes : LandFinding(c, p)
          \/ LandCorrelation(c) \/ LandUpdate(c) \/ LogDrift(c)
          \/ ReserveLine(c) \/ LogOutcome(c) \/ Crash(c)
    BY <1>3 DEF Next
  <2> QED BY <1>1, <2>1, BeginsKeepShape, LinesKeepShape, ReserveKeepsShape,
             CrashKeepsShape, LandingsKeepShape
<1> QED BY <1>2, <1>3

\* Jobs and logs keep their shapes: what is on the audit log is a line of a tool
\* there is, every record of the findings log is a draft or an update with a full
\* id, and every correlation has a known type.  Nobody is between a reservation
\* and its record but the holder of the lock, and a lock that is held is that of
\* a call on its way to its own line, whoever dies (audit.py, reserve_audit_line).
THEOREM TypeCorrect == Spec => []TypeOK
  BY ShapesStart, ShapesStep, ShapesAreTypes, PTL DEF Spec
=============================================================================
