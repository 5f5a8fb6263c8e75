------------------------- MODULE AnalyzePhaseProofs -------------------------
(***************************************************************************)
(* For any jobs, workers and calls: the totals of an ANALYZE step that has *)
(* returned are exact, and an analyst that has its host to itself is       *)
(* announced with its own findings.  The argument: a total that was read   *)
(* is the total as long as its reader holds state_lock; an analyst that is *)
(* over has no server at work; and only an analyst of the same name on the *)
(* same host can change what a job counts.  The last part is about the     *)
(* thread that shows the audit log: it loses no line between two polls.    *)
(***************************************************************************)
EXTENDS AnalyzePhase, SequenceTheorems, FiniteSetTheorems, WellFoundedInduction, TLAPS

Own(j) == {n \in DOMAIN findings : findings[n] = j}

\* What an analyst's completed calls have left on the logs.
Traced(j) == Own(j) # {} \/ \E n \in DOMAIN audit : n > 1 /\ audit[n] = 0

\* The dispatch of the job has been answered.
Answered(j) == job[j] \in {"adding", "recount", "done"}

Types ==
  /\ main \in {"start", "running", "returned", "raised"}
  /\ job \in [Jobs -> {"queued", "waiting", "adding", "recount", "done", "raised"}]
  /\ pre \in [Jobs -> Int] /\ announced \in [Jobs -> Int \cup {None}]
  /\ clean \subseteq Jobs /\ results \subseteq Jobs /\ tokens \in Nat
  /\ stateLock \in Jobs \cup {None} /\ seen \in [Jobs -> Nat] /\ added \in Nat \cup {None}
  /\ analyst \in [Jobs -> {"none", "live", "killed", "over"}]
  /\ call \in [Jobs -> {"idle", "finding", "line", "found"}]
  /\ uses \in [Jobs -> Nat]
  /\ findings \in Seq(Jobs) /\ audit \in Seq(Nat) /\ audit # <<>>

\* The total is the number of results added, also for who is about to add.
Sums ==
  /\ \A j \in Jobs : stateLock = j <=> job[j] = "adding"
  /\ \A j \in Jobs : job[j] = "adding" => seen[j] = tokens
  /\ \A j \in Jobs : Answered(j) => j \in results
  /\ \A j \in Jobs : job[j] \in {"queued", "waiting"} => j \notin results
  /\ tokens = Cardinality({j \in results : job[j] # "adding"})

\* Where an analyst and its server can be.
Analysts ==
  /\ \A j \in Jobs : Answered(j) => analyst[j] \in {"killed", "over"}
  /\ \A j \in Jobs : job[j] = "queued" => analyst[j] = "none"
  /\ \A j \in Jobs : analyst[j] = "none" => uses[j] = 0 /\ call[j] = "idle" /\ Own(j) = {}
  /\ \A j \in Jobs : analyst[j] = "over" => call[j] = "idle"
  /\ \A j \in Jobs : call[j] = "found" => Own(j) # {}
  /\ \A j \in Jobs : uses[j] > 0 /\ call[j] = "idle" => Traced(j)

Announcements ==
  /\ \A j \in Jobs : announced[j] # None <=> job[j] = "done"
  /\ \A j \in Jobs : Alone(j) => pre[j] = 0
  /\ \A j \in Jobs : Alone(j) /\ announced[j] # None =>
        /\ announced[j] <= Recorded(j)
        /\ analyst[j] = "over" => announced[j] = Recorded(j)
  /\ \A j \in clean : Traced(j)

\* What came after the step has counted is from analysts that were killed.
Returned ==
  main = "returned" =>
    /\ \A j \in Jobs : job[j] = "done"
    /\ added \in 0 .. Len(findings)
    /\ \A n \in DOMAIN findings : n > added => analyst[findings[n]] # "over"

PhaseInv == Types /\ Sums /\ Analysts /\ Announcements /\ Returned

LEMMA JobsFinite == IsFiniteSet(Jobs) /\ None \notin Int /\ None \notin Jobs
<1>1. NumJobs \in Nat /\ None \notin Int /\ Jobs \subseteq Int
  BY JobsAssumption, BoundsAssumption DEF Jobs
<1> QED BY <1>1, FS_Interval DEF Jobs

-----------------------------------------------------------------------------
(* Counting. *)

LEMMA FindingsFinite ==
  ASSUME Types, NEW j \in Jobs
  PROVE  /\ IsFiniteSet(Own(j)) /\ Recorded(j) = Cardinality(Own(j)) /\ Recorded(j) \in Nat
         /\ Count(j) \in Nat
<1>1. DOMAIN findings = 1 .. Len(findings) /\ Len(findings) \in Nat
  BY LenProperties DEF Types
<1>2. IsFiniteSet(DOMAIN findings)
  BY <1>1, FS_Interval
<1> DEFINE A == {n \in DOMAIN findings : Agent[findings[n]] = Agent[j] /\ Host[findings[n]] = Host[j]}
<1>3. IsFiniteSet(A) /\ IsFiniteSet(Own(j))
  BY <1>2, FS_Subset DEF Own
<1>4. Cardinality(A) \in Nat /\ Cardinality(Own(j)) \in Nat
  BY <1>3, FS_CardinalityType
<1> QED BY <1>3, <1>4 DEF Own, Recorded, Count

\* An analyst that is alone on its host is counted by itself.
LEMMA AloneCount ==
  ASSUME Types, NEW j \in Jobs, Alone(j)
  PROVE  Count(j) = Recorded(j)
<1>1. ASSUME NEW n \in DOMAIN findings
      PROVE  (Agent[findings[n]] = Agent[j] /\ Host[findings[n]] = Host[j]) <=> findings[n] = j
  <2>1. findings[n] \in Jobs
    <3>1. findings \in Seq(Jobs) /\ n \in 1 .. Len(findings)
      BY <1>1, LenProperties DEF Types
    <3> QED BY <3>1, ElementOfSeq
  <2> QED BY <2>1 DEF Alone
<1>2. {n \in DOMAIN findings : Agent[findings[n]] = Agent[j] /\ Host[findings[n]] = Host[j]}
        = {n \in DOMAIN findings : findings[n] = j}
  BY <1>1
<1> QED BY <1>2 DEF Count, Recorded

LEMMA NoneRecorded ==
  ASSUME Types, NEW j \in Jobs, Own(j) = {}
  PROVE  Recorded(j) = 0
BY FindingsFinite, FS_EmptySet

LEMMA SomeRecorded ==
  ASSUME Types, NEW j \in Jobs, Own(j) # {}
  PROVE  Recorded(j) > 0
BY FindingsFinite, FS_EmptySet

\* A finding that becomes whole is one of its analyst's and of nobody else's.
LEMMA FindingAdds ==
  ASSUME Types, NEW j \in Jobs, findings' = Append(findings, j)
  PROVE  /\ Len(findings') = Len(findings) + 1 /\ DOMAIN findings' = 1 .. Len(findings) + 1
         /\ findings'[Len(findings) + 1] = j
         /\ \A n \in DOMAIN findings : n \in DOMAIN findings' /\ findings'[n] = findings[n]
         /\ \A k \in Jobs : Own(k) \subseteq Own(k)'
         /\ \A k \in Jobs \ {j} : Own(k)' = Own(k)
         /\ Own(j)' # {}
         /\ Recorded(j)' = Recorded(j) + 1
         /\ \A k \in Jobs \ {j} : Recorded(k)' = Recorded(k)
<1>1. /\ Len(findings') = Len(findings) + 1 /\ DOMAIN findings' = 1 .. Len(findings) + 1
      /\ findings'[Len(findings) + 1] = j
      /\ \A n \in DOMAIN findings : n \in DOMAIN findings' /\ findings'[n] = findings[n]
      /\ DOMAIN findings = 1 .. Len(findings) /\ Len(findings) \in Nat
  <2>1. findings \in Seq(Jobs)
    BY DEF Types
  <2> QED BY <2>1, LenProperties
<1>2. Own(j)' = Own(j) \cup {Len(findings) + 1} /\ Len(findings) + 1 \notin Own(j)
  BY <1>1 DEF Own
<1>3. \A k \in Jobs \ {j} : Own(k)' = Own(k)
  BY <1>1 DEF Own
<1>4. Cardinality(Own(j)') = Cardinality(Own(j)) + 1
  BY <1>2, FindingsFinite, FS_AddElement
<1>5. \A k \in Jobs : Recorded(k)' = Cardinality(Own(k)') /\ Recorded(k) = Cardinality(Own(k))
  BY DEF Recorded, Own
<1> QED BY <1>1, <1>2, <1>3, <1>4, <1>5

-----------------------------------------------------------------------------
(* The types. *)

LEMMA TypesInit == Init => Types
BY DEF Init, Types

LEMMA TypesStep == ASSUME Types, Analysts, [Next]_vars PROVE Types'
<1>1. ASSUME NEW j \in Jobs, BeginCall(j) PROVE Types'
  <2>1. /\ \E c \in {"finding", "line"} : call' = [call EXCEPT ![j] = c]
        /\ uses' = [uses EXCEPT ![j] = @ + 1]
        /\ UNCHANGED <<parallel, main, jobVars, added, analyst, findings, audit>>
    BY <1>1 DEF BeginCall, Calling
  <2>2. call' \in [Jobs -> {"idle", "finding", "line", "found"}] /\ uses' \in [Jobs -> Nat]
    BY <2>1 DEF Types
  <2> QED BY <2>1, <2>2 DEF jobVars, Types
<1>2. ASSUME NEW j \in Jobs, FindingWhole(j) PROVE Types'
  BY <1>2 DEF FindingWhole, Calling, jobVars, Types
<1>3. ASSUME NEW j \in Jobs, AuditWhole(j) PROVE Types'
  <2>1. Len(findings) \in Nat
    BY LenProperties DEF Types
  <2>2. audit' \in Seq(Nat) /\ audit' # <<>>
    <3>1. PICK e \in Nat : audit' = Append(audit, e)
      BY <1>3, <2>1 DEF AuditWhole
    <3>2. audit \in Seq(Nat)
      BY DEF Types
    <3> QED BY <3>1, <3>2, LenProperties, EmptySeq
  <2> QED BY <1>3, <2>2 DEF AuditWhole, Calling, jobVars, Types
<1>4. ASSUME NEW j \in Jobs, Finish(j) \/ Timeout(j) PROVE Types'
  BY <1>4 DEF Finish, Timeout, jobVars, fileVars, Types
<1>5. ASSUME NEW j \in Jobs, Start(j) PROVE Types'
  <2>1. Count(j) \in Int
    BY FindingsFinite
  <2>2. /\ job' \in [Jobs -> {"queued", "waiting", "adding", "recount", "done", "raised"}]
        /\ pre' \in [Jobs -> Int]
        /\ analyst' \in [Jobs -> {"none", "live", "killed", "over"}]
    <3>1. CASE job' = [job EXCEPT ![j] = "raised"] /\ UNCHANGED <<pre, analyst>>
      BY <3>1 DEF Types
    <3>2. CASE /\ job' = [job EXCEPT ![j] = "waiting"] /\ pre' = [pre EXCEPT ![j] = Count(j)]
               /\ analyst' = [analyst EXCEPT ![j] = "live"]
      BY <2>1, <3>2 DEF Types
    <3> QED BY <1>5, <3>1, <3>2 DEF Start, Raise, Counted, Goto, Run
  <2> QED BY <1>5, <2>2 DEF Start, fileVars, Types
<1>6. ASSUME NEW j \in Jobs, Record(j) PROVE Types'
  BY <1>6 DEF Record, Recording, Goto, fileVars, Types
<1>7. ASSUME NEW j \in Jobs, AddTokens(j) PROVE Types'
  <2>1. /\ job' \in [Jobs -> {"queued", "waiting", "adding", "recount", "done", "raised"}]
        /\ tokens' \in Nat /\ seen' \in [Jobs -> Nat]
    BY <1>7 DEF AddTokens, Goto, Types
  <2> QED BY <1>7, <2>1 DEF AddTokens, fileVars, Types
<1>8. ASSUME NEW j \in Jobs, Announce(j) PROVE Types'
  <2>1. Count(j) \in Int
    BY FindingsFinite
  <2>2. Count(j) - pre[j] \in Int
    BY <2>1 DEF Types
  <2>3. /\ job' \in [Jobs -> {"queued", "waiting", "adding", "recount", "done", "raised"}]
        /\ pre' \in [Jobs -> Int] /\ announced' \in [Jobs -> Int \cup {None}]
        /\ clean' \subseteq Jobs
    <3>1. CASE job' = [job EXCEPT ![j] = "raised"] /\ UNCHANGED <<pre, announced, clean>>
      BY <3>1 DEF Types
    <3>2. CASE /\ job' = [job EXCEPT ![j] = "done"] /\ pre' = [pre EXCEPT ![j] = 0]
               /\ announced' = [announced EXCEPT ![j] = Count(j) - pre[j]]
               /\ clean' = clean \cup {k \in {j} : Succeeded(k)}
      <4>1. {k \in {j} : Succeeded(k)} \subseteq Jobs
        OBVIOUS
      <4> QED BY <2>2, <3>2, <4>1 DEF Types
    <3> QED BY <1>8, <3>1, <3>2 DEF Announce, Raise, Goto
  <2> QED BY <1>8, <2>3 DEF Announce, fileVars, Types
<1>9. CASE Begin
  BY <1>9 DEF Begin, jobVars, fileVars, Types
<1>10. CASE End
  <2>1. Len(findings) \in Nat
    BY LenProperties DEF Types
  <2> QED BY <1>10, <2>1 DEF End, jobVars, fileVars, Types
<1>11. CASE Stop
  BY <1>11 DEF Stop, jobVars, fileVars, Types
<1>12. CASE TailThread
  BY <1>12 DEF TailThread, Poll, Take, Render, TailEnds, jobVars, fileVars, Types
<1>13. CASE UNCHANGED vars
  BY <1>13 DEF vars, jobVars, fileVars, Types
<1> QED BY <1>1, <1>2, <1>3, <1>4, <1>5, <1>6, <1>7, <1>8, <1>9, <1>10, <1>11, <1>12, <1>13
        DEF Next, Server, Worker, Loop

-----------------------------------------------------------------------------
(* What the steps do, seen from the totals and from one job. *)

\* Nothing of a job, its analyst or the findings changes.
Elsewhere == UNCHANGED <<job, pre, announced, clean, results, tokens, stateLock, seen, analyst,
                         call, uses, findings, audit>>

LEMMA ElsewhereSteps ==
  ASSUME Begin \/ End \/ Stop \/ TailThread \/ UNCHANGED vars
  PROVE  Elsewhere
<1>1. CASE Begin
  BY <1>1 DEF Begin, jobVars, fileVars, Elsewhere
<1>2. CASE End
  BY <1>2 DEF End, jobVars, fileVars, Elsewhere
<1>3. CASE Stop
  BY <1>3 DEF Stop, jobVars, fileVars, Elsewhere
<1>4. CASE TailThread
  BY <1>4 DEF TailThread, Poll, Take, Render, TailEnds, jobVars, fileVars, Elsewhere
<1>5. CASE UNCHANGED vars
  BY <1>5 DEF vars, jobVars, fileVars, Elsewhere
<1> QED BY <1>1, <1>2, <1>3, <1>4, <1>5

\* The steps of an analyst and its server leave the jobs alone.
LEMMA ServerSteps ==
  ASSUME NEW j \in Jobs, BeginCall(j) \/ FindingWhole(j) \/ AuditWhole(j) \/ Finish(j) \/ Timeout(j)
  PROVE  UNCHANGED <<main, jobVars, added>>
<1>1. CASE BeginCall(j)
  BY <1>1 DEF BeginCall
<1> QED BY <1>1 DEF FindingWhole, AuditWhole, Finish, Timeout

-----------------------------------------------------------------------------
(* The totals. *)

LEMMA SumsInit == Init => Sums
<1> SUFFICES ASSUME Init PROVE Sums
  OBVIOUS
<1>1. {j \in results : job[j] # "adding"} = {}
  BY DEF Init
<1>2. tokens = Cardinality({j \in results : job[j] # "adding"})
  BY <1>1, FS_EmptySet DEF Init
<1> QED BY <1>2, JobsFinite DEF Init, Sums, Answered

LEMMA AddedFinite ==
  ASSUME Types
  PROVE  IsFiniteSet({j \in results : job[j] # "adding"})
<1> QED BY JobsFinite, FS_Subset DEF Types

\* A job that goes on without touching the totals.
LEMMA SumsKept ==
  ASSUME Types, Sums, NEW j \in Jobs, job[j] # "adding", NEW where, where # "adding",
         job' = [job EXCEPT ![j] = where], UNCHANGED <<results, tokens, stateLock, seen>>,
         where \in {"recount", "done"} => j \in results,
         where \in {"queued", "waiting"} => j \notin results
  PROVE  Sums'
<1>1. \A k \in Jobs : job'[k] = IF k = j THEN where ELSE job[k]
  BY DEF Types
<1>2. {k \in results : job[k] # "adding"}' = {k \in results : job[k] # "adding"}
  BY <1>1 DEF Types
<1>3. tokens' = Cardinality({k \in results : job[k] # "adding"})'
  BY <1>2 DEF Sums
<1> QED BY <1>1, <1>3 DEF Sums, Answered

LEMMA SumsStep == ASSUME Types, Sums, [Next]_vars PROVE Sums'
<1>1. CASE UNCHANGED <<job, results, tokens, stateLock, seen>>
  BY <1>1 DEF Sums, Answered
<1>2. ASSUME NEW j \in Jobs, Start(j) PROVE Sums'
  <2>1. PICK where \in {"raised", "waiting"} : job' = [job EXCEPT ![j] = where]
    BY <1>2 DEF Start, Raise, Goto
  <2>2. job[j] = "queued" /\ UNCHANGED <<results, tokens, stateLock, seen>>
    BY <1>2 DEF Start
  <2>3. j \notin results
    BY <2>2 DEF Sums
  <2> QED BY <2>1, <2>2, <2>3, SumsKept
<1>3. ASSUME NEW j \in Jobs, Record(j) PROVE Sums'
  <2>1. /\ job[j] = "waiting" /\ job' = [job EXCEPT ![j] = "adding"]
        /\ results' = results \cup {j} /\ seen' = [seen EXCEPT ![j] = tokens]
        /\ tokens' = tokens /\ stateLock = None /\ stateLock' = j
    BY <1>3 DEF Record, Recording, Goto
  <2>2. \A k \in Jobs : job'[k] = IF k = j THEN "adding" ELSE job[k]
    BY <2>1 DEF Types
  <2>3. \A k \in Jobs : seen'[k] = IF k = j THEN tokens ELSE seen[k]
    BY <2>1 DEF Types
  <2>4. \A k \in Jobs : job[k] # "adding"
    BY <2>1, JobsFinite DEF Sums
  <2>5. j \notin results
    BY <2>1 DEF Sums
  <2>6. {k \in results : job[k] # "adding"}' = {k \in results : job[k] # "adding"}
    BY <2>1, <2>2, <2>4, <2>5 DEF Types
  <2>7. tokens' = Cardinality({k \in results : job[k] # "adding"})'
    BY <2>1, <2>6 DEF Sums
  <2> QED BY <2>1, <2>2, <2>3, <2>4, <2>7 DEF Sums, Answered
<1>4. ASSUME NEW j \in Jobs, AddTokens(j) PROVE Sums'
  <2>1. /\ job[j] = "adding" /\ job' = [job EXCEPT ![j] = "recount"]
        /\ results' = results /\ tokens' = seen[j] + 1 /\ stateLock' = None
    BY <1>4 DEF AddTokens, Goto
  <2>2. \A k \in Jobs : job'[k] = IF k = j THEN "recount" ELSE job[k]
    BY <2>1 DEF Types
  <2>3. stateLock = j /\ seen[j] = tokens /\ j \in results
    BY <2>1 DEF Sums, Answered
  <2>4. \A k \in Jobs \ {j} : job[k] # "adding"
    BY <2>3 DEF Sums
  <2> DEFINE A == {k \in results : job[k] # "adding"}
  <2>5. A' = A \cup {j} /\ j \notin A
    BY <2>1, <2>2, <2>3 DEF Types
  <2>6. Cardinality(A \cup {j}) = Cardinality(A) + 1
    BY <2>5, AddedFinite, FS_AddElement
  <2>7. tokens' = Cardinality(A')
    BY <2>1, <2>3, <2>5, <2>6 DEF Sums
  <2>8. \A k \in Jobs : job'[k] # "adding"
    BY <2>2, <2>4
  <2> HIDE DEF A
  <2>9. \A k \in Jobs : stateLock' # k
    BY <2>1, JobsFinite
  <2> QED BY <2>1, <2>2, <2>3, <2>7, <2>8, <2>9 DEF Sums, Answered, A
<1>5. ASSUME NEW j \in Jobs, Announce(j) PROVE Sums'
  <2>1. PICK where \in {"raised", "done"} : job' = [job EXCEPT ![j] = where]
    BY <1>5 DEF Announce, Raise, Goto
  <2>2. job[j] = "recount" /\ UNCHANGED <<results, tokens, stateLock, seen>>
    BY <1>5 DEF Announce
  <2>3. j \in results
    BY <2>2 DEF Sums, Answered
  <2> QED BY <2>1, <2>2, <2>3, SumsKept
<1>6. ASSUME NEW j \in Jobs,
             BeginCall(j) \/ FindingWhole(j) \/ AuditWhole(j) \/ Finish(j) \/ Timeout(j)
      PROVE  Sums'
  BY <1>1, <1>6, ServerSteps DEF jobVars
<1>7. CASE Begin \/ End \/ Stop \/ TailThread \/ UNCHANGED vars
  BY <1>1, <1>7, ElsewhereSteps DEF Elsewhere
<1> QED BY <1>2, <1>3, <1>4, <1>5, <1>6, <1>7 DEF Next, Server, Worker, Loop

-----------------------------------------------------------------------------
(* The analysts. *)

LEMMA AnalystsInit == Init => Analysts
BY DEF Init, Analysts, Answered, Own

\* What has been left on a log stays there.
LEMMA TracesStay ==
  ASSUME Types, Types', NEW k \in Jobs, Traced(k), Own(k) \subseteq Own(k)',
         UNCHANGED audit \/ \E e : audit' = Append(audit, e)
  PROVE  Traced(k)'
<1>1. \A n \in DOMAIN audit : n \in DOMAIN audit' /\ audit'[n] = audit[n]
  <2>1. CASE UNCHANGED audit
    BY <2>1
  <2>2. ASSUME NEW e, audit' = Append(audit, e)
        PROVE  \A n \in DOMAIN audit : n \in DOMAIN audit' /\ audit'[n] = audit[n]
    <3>1. audit \in Seq(Nat)
      BY DEF Types
    <3> QED BY <2>2, <3>1, LenProperties
  <2> QED BY <2>1, <2>2
<1> QED BY <1>1 DEF Traced

\* A job goes on; if its analyst has ended it may count as answered.
LEMMA AnalystsKept ==
  ASSUME Types, Analysts, NEW j \in Jobs, NEW where, job' = [job EXCEPT ![j] = where],
         where # "queued",
         where \in {"adding", "recount", "done"} => analyst[j] \in {"killed", "over"},
         UNCHANGED <<analyst, call, uses, findings, audit>>
  PROVE  Analysts'
<1>1. \A k \in Jobs : job'[k] = IF k = j THEN where ELSE job[k]
  BY DEF Types
<1>2. \A k \in Jobs : Own(k)' = Own(k) /\ (Traced(k) => Traced(k)')
  BY DEF Own, Traced
<1> QED BY <1>1, <1>2 DEF Analysts, Answered

LEMMA AnalystsStep == ASSUME Types, Analysts, [Next]_vars PROVE Analysts'
<1>0. Types'
  BY TypesStep
<1>1. ASSUME NEW j \in Jobs, BeginCall(j) PROVE Analysts'
  <2>1. /\ analyst[j] = "live" /\ call[j] = "idle"
        /\ \E c \in {"finding", "line"} : call' = [call EXCEPT ![j] = c]
        /\ uses' = [uses EXCEPT ![j] = @ + 1]
        /\ UNCHANGED <<job, analyst, findings, audit>>
    BY <1>1 DEF BeginCall, Calling, jobVars
  <2>2. \A k \in Jobs : Own(k)' = Own(k) /\ (Traced(k) => Traced(k)')
    BY <2>1 DEF Own, Traced
  <2>3. /\ \A k \in Jobs \ {j} : call'[k] = call[k] /\ uses'[k] = uses[k]
        /\ call'[j] \in {"finding", "line"}
    BY <2>1 DEF Types
  <2> QED BY <2>1, <2>2, <2>3 DEF Analysts, Answered
<1>2. ASSUME NEW j \in Jobs, FindingWhole(j) PROVE Analysts'
  <2>1. /\ call[j] = "finding" /\ call' = [call EXCEPT ![j] = "found"]
        /\ findings' = Append(findings, j)
        /\ UNCHANGED <<job, analyst, uses, audit>>
    BY <1>2 DEF FindingWhole, Calling, jobVars
  <2>2. /\ \A k \in Jobs \ {j} : Own(k)' = Own(k)
        /\ Own(j)' # {}
    BY <2>1, FindingAdds
  <2>3. \A k \in Jobs : Traced(k) => Traced(k)'
    BY <2>1, <2>2 DEF Traced
  <2>4. \A k \in Jobs : call'[k] = IF k = j THEN "found" ELSE call[k]
    BY <2>1 DEF Types
  <2> QED BY <2>1, <2>2, <2>3, <2>4 DEF Analysts, Answered
<1>3. ASSUME NEW j \in Jobs, AuditWhole(j) PROVE Analysts'
  <2>1. /\ call[j] \in {"line", "found"} /\ call' = [call EXCEPT ![j] = "idle"]
        /\ audit' = Append(audit, IF call[j] = "found" THEN Len(findings) ELSE 0)
        /\ UNCHANGED <<job, analyst, uses, findings>>
    BY <1>3 DEF AuditWhole, Calling, jobVars
  <2>2. \A k \in Jobs : Own(k)' = Own(k)
    BY <2>1 DEF Own
  <2>3. \A k \in Jobs : Traced(k) => Traced(k)'
    BY <1>0, <2>1, <2>2, TracesStay
  <2>4. Traced(j)'
    <3>1. CASE call[j] = "found"
      BY <3>1, <2>2 DEF Analysts, Traced
    <3>2. CASE call[j] = "line"
      <4>0. audit \in Seq(Nat) /\ audit # <<>> /\ audit' = Append(audit, 0)
        BY <2>1, <3>2 DEF Types
      <4>1. /\ Len(audit) \in Nat \ {0} /\ Len(audit') = Len(audit) + 1
            /\ DOMAIN audit' = 1 .. Len(audit) + 1 /\ audit'[Len(audit) + 1] = 0
        BY <4>0, LenProperties, EmptySeq
      <4> QED BY <4>1 DEF Traced
    <3> QED BY <3>1, <3>2, <2>1
  <2>5. \A k \in Jobs : call'[k] = IF k = j THEN "idle" ELSE call[k]
    BY <2>1 DEF Types
  <2> QED BY <2>1, <2>2, <2>3, <2>4, <2>5 DEF Analysts, Answered
<1>4. ASSUME NEW j \in Jobs, NEW how \in {"killed", "over"}, analyst[j] = "live",
             how = "over" => call[j] = "idle", analyst' = [analyst EXCEPT ![j] = how],
             UNCHANGED <<job, call, uses, findings, audit>>
      PROVE  Analysts'
  <2>1. \A k \in Jobs : Own(k)' = Own(k) /\ (Traced(k) => Traced(k)')
    BY <1>4 DEF Own, Traced
  <2>2. \A k \in Jobs : analyst'[k] = IF k = j THEN how ELSE analyst[k]
    BY <1>4 DEF Types
  <2> QED BY <1>4, <2>1, <2>2 DEF Analysts, Answered
<1>5. ASSUME NEW j \in Jobs, Finish(j) \/ Timeout(j) PROVE Analysts'
  BY <1>4, <1>5 DEF Finish, Timeout, jobVars, fileVars
<1>6. ASSUME NEW j \in Jobs, Start(j) PROVE Analysts'
  <2>0. job[j] = "queued" /\ UNCHANGED <<call, uses, findings, audit>>
    BY <1>6 DEF Start, fileVars
  <2>1. CASE job' = [job EXCEPT ![j] = "raised"] /\ UNCHANGED analyst
    BY <2>0, <2>1, AnalystsKept
  <2>2. CASE job' = [job EXCEPT ![j] = "waiting"] /\ analyst' = [analyst EXCEPT ![j] = "live"]
    <3>1. \A k \in Jobs : Own(k)' = Own(k) /\ (Traced(k) => Traced(k)')
      BY <2>0 DEF Own, Traced
    <3>2. \A k \in Jobs : /\ analyst'[k] = IF k = j THEN "live" ELSE analyst[k]
                          /\ job'[k] = IF k = j THEN "waiting" ELSE job[k]
      BY <2>2 DEF Types
    <3> QED BY <2>0, <3>1, <3>2 DEF Analysts, Answered
  <2> QED BY <1>6, <2>1, <2>2 DEF Start, Raise, Goto, Run
<1>7. ASSUME NEW j \in Jobs, Record(j) PROVE Analysts'
  <2>1. /\ analyst[j] \in {"killed", "over"} /\ job' = [job EXCEPT ![j] = "adding"]
        /\ UNCHANGED <<analyst, call, uses, findings, audit>>
    BY <1>7 DEF Record, Recording, Goto, fileVars
  <2> QED BY <2>1, AnalystsKept
<1>8. ASSUME NEW j \in Jobs, AddTokens(j) PROVE Analysts'
  <2>1. /\ job[j] = "adding" /\ job' = [job EXCEPT ![j] = "recount"]
        /\ UNCHANGED <<analyst, call, uses, findings, audit>>
    BY <1>8 DEF AddTokens, Goto, fileVars
  <2>2. analyst[j] \in {"killed", "over"}
    BY <2>1 DEF Analysts, Answered
  <2> QED BY <2>1, <2>2, AnalystsKept
<1>9. ASSUME NEW j \in Jobs, Announce(j) PROVE Analysts'
  <2>1. /\ job[j] = "recount"
        /\ UNCHANGED <<analyst, call, uses, findings, audit>>
    BY <1>9 DEF Announce, fileVars
  <2>2. PICK where \in {"raised", "done"} : job' = [job EXCEPT ![j] = where]
    BY <1>9 DEF Announce, Raise, Goto
  <2>3. analyst[j] \in {"killed", "over"}
    BY <2>1 DEF Analysts, Answered
  <2> QED BY <2>1, <2>2, <2>3, AnalystsKept
<1>10. CASE Begin \/ End \/ Stop \/ TailThread \/ UNCHANGED vars
  <2>1. UNCHANGED <<job, analyst, call, uses, findings, audit>>
    BY <1>10, ElsewhereSteps DEF Elsewhere
  <2>2. \A k \in Jobs : Own(k)' = Own(k) /\ (Traced(k) => Traced(k)')
    BY <2>1 DEF Own, Traced
  <2> QED BY <2>1, <2>2 DEF Analysts, Answered
<1> QED BY <1>1, <1>2, <1>3, <1>5, <1>6, <1>7, <1>8, <1>9, <1>10 DEF Next, Server, Worker, Loop

-----------------------------------------------------------------------------
(* The announcements. *)

LEMMA AnnouncementsInit == Init => Announcements
BY DEF Init, Announcements

\* The counts of the findings and the traces of calls only grow, and those of an
\* analyst that is over do not change.
Growing ==
  /\ \A k \in Jobs : /\ Recorded(k) \in Nat /\ Recorded(k)' \in Nat
                      /\ Recorded(k)' >= Recorded(k) /\ (Traced(k) => Traced(k)')
  /\ \A k \in Jobs : analyst[k] = "over" => Recorded(k)' = Recorded(k)

LEMMA CountsGrow == ASSUME Types, Analysts, [Next]_vars PROVE Growing
<1>0. Types' /\ \A k \in Jobs : Recorded(k) \in Nat
  BY TypesStep, FindingsFinite
<1>1. ASSUME NEW j \in Jobs, FindingWhole(j) PROVE Growing
  <2>1. call[j] = "finding" /\ findings' = Append(findings, j) /\ UNCHANGED audit
    BY <1>1 DEF FindingWhole
  <2>2. analyst[j] # "over"
    BY <2>1 DEF Analysts
  <2>3. /\ \A k \in Jobs : /\ Own(k) \subseteq Own(k)' /\ Recorded(k)' >= Recorded(k)
                            /\ Recorded(k)' \in Nat
        /\ \A k \in Jobs \ {j} : Recorded(k)' = Recorded(k)
    BY <1>0, <2>1, FindingAdds
  <2> QED BY <1>0, <2>1, <2>2, <2>3, TracesStay DEF Growing
<1>2. CASE UNCHANGED findings /\ (UNCHANGED audit \/ \E e : audit' = Append(audit, e))
  <2>1. \A k \in Jobs : Own(k)' = Own(k) /\ Recorded(k)' = Recorded(k)
    BY <1>2 DEF Own, Recorded
  <2> QED BY <1>0, <1>2, <2>1, TracesStay DEF Growing
<1>3. ASSUME NEW j \in Jobs, AuditWhole(j) PROVE Growing
  BY <1>2, <1>3 DEF AuditWhole
<1>4. ASSUME NEW j \in Jobs, BeginCall(j) PROVE Growing
  <2>1. UNCHANGED <<findings, audit>>
    BY <1>4 DEF BeginCall
  <2> QED BY <1>2, <2>1
<1>5. ASSUME NEW j \in Jobs, Finish(j) \/ Timeout(j) \/ Worker(j) PROVE Growing
  BY <1>2, <1>5 DEF Finish, Timeout, Worker, Start, Record, Recording, AddTokens, Announce, fileVars
<1>6. CASE Begin \/ End \/ Stop \/ TailThread \/ UNCHANGED vars
  BY <1>2, <1>6, ElsewhereSteps DEF Elsewhere
<1> QED BY <1>1, <1>3, <1>4, <1>5, <1>6 DEF Next, Server, Loop

\* An announcement stands, whatever else happens: its analyst has ended.
LEMMA AnnouncedStays ==
  ASSUME Types, Analysts, Announcements, [Next]_vars, NEW k \in Jobs, announced[k] # None,
         announced'[k] = announced[k], Alone(k)
  PROVE  /\ announced'[k] <= Recorded(k)'
         /\ analyst'[k] = "over" => announced'[k] = Recorded(k)'
<1>1. job[k] = "done" /\ analyst[k] \in {"killed", "over"}
  BY DEF Announcements, Analysts, Answered
<1>2. analyst'[k] = analyst[k]
  <2>1. ASSUME NEW j \in Jobs, BeginCall(j) PROVE analyst' = analyst
    BY <2>1 DEF BeginCall
  <2>2. ASSUME NEW j \in Jobs, FindingWhole(j) \/ AuditWhole(j) PROVE analyst' = analyst
    BY <2>2 DEF FindingWhole, AuditWhole
  <2>3. ASSUME NEW j \in Jobs, Finish(j) \/ Timeout(j) PROVE analyst'[k] = analyst[k]
    BY <1>1, <2>3 DEF Finish, Timeout, Types
  <2>4. ASSUME NEW j \in Jobs, Start(j) PROVE analyst'[k] = analyst[k]
    BY <1>1, <2>4 DEF Start, Run, Types
  <2>5. ASSUME NEW j \in Jobs, Record(j) \/ AddTokens(j) \/ Announce(j) PROVE analyst' = analyst
    BY <2>5 DEF Record, Recording, AddTokens, Announce
  <2>6. CASE Begin \/ End \/ Stop \/ TailThread \/ UNCHANGED vars
    BY <2>6, ElsewhereSteps DEF Elsewhere
  <2> QED BY <2>1, <2>2, <2>3, <2>4, <2>5, <2>6 DEF Next, Server, Worker, Loop
<1>3. announced[k] \in Int
  BY DEF Types
<1>4. Recorded(k) \in Nat /\ Recorded(k)' \in Nat /\ Recorded(k)' >= Recorded(k) /\ (analyst[k] = "over" => Recorded(k)' = Recorded(k))
  BY CountsGrow DEF Growing
<1> QED BY <1>2, <1>3, <1>4 DEF Announcements

LEMMA AnnouncementsStep ==
  ASSUME Types, Analysts, Announcements, [Next]_vars
  PROVE  Announcements'
<1>0. \A k \in Jobs : Alone(k)' <=> Alone(k)
  BY DEF Alone
<1>1. \A k \in Jobs : Traced(k) => Traced(k)'
  BY CountsGrow DEF Growing
<1>2. ASSUME UNCHANGED <<pre, announced, clean>>,
             \A k \in Jobs : job'[k] = "done" <=> job[k] = "done"
      PROVE  Announcements'
  BY <1>0, <1>1, <1>2, AnnouncedStays DEF Announcements, Types
<1>3. ASSUME NEW j \in Jobs, Start(j) PROVE Announcements'
  <2>1. job[j] = "queued" /\ UNCHANGED <<announced, clean>>
    BY <1>3 DEF Start
  <2>2. \A k \in Jobs : job'[k] = "done" <=> job[k] = "done"
    BY <1>3, <2>1 DEF Start, Raise, Goto, Types
  <2>3. CASE UNCHANGED pre
    BY <1>2, <2>1, <2>2, <2>3
  <2>4. CASE pre' = [pre EXCEPT ![j] = Count(j)]
    <3>1. Own(j) = {}
      BY <2>1 DEF Analysts
    <3>2. Alone(j) => Count(j) = 0
      BY <3>1, AloneCount, NoneRecorded
    <3>3. \A k \in Jobs : Alone(k) => pre'[k] = 0
      BY <2>4, <3>2 DEF Announcements, Types
    <3> QED BY <1>0, <1>1, <2>1, <2>2, <3>3, AnnouncedStays DEF Announcements, Types
  <2> QED BY <1>3, <2>3, <2>4 DEF Start, Counted
<1>4. ASSUME NEW j \in Jobs, Record(j) \/ AddTokens(j) PROVE Announcements'
  <2>1. UNCHANGED <<pre, announced, clean>>
    BY <1>4 DEF Record, Recording, AddTokens
  <2>2. \A k \in Jobs : job'[k] = "done" <=> job[k] = "done"
    BY <1>4 DEF Record, Recording, AddTokens, Goto, Types
  <2> QED BY <1>2, <2>1, <2>2
<1>5. ASSUME NEW j \in Jobs, Announce(j) PROVE Announcements'
  <2>1. job[j] = "recount" /\ UNCHANGED <<analyst, findings, call, uses, audit>>
    BY <1>5 DEF Announce, fileVars
  <2>2. CASE Raise(j) /\ UNCHANGED <<pre, announced, clean>>
    <3>1. \A k \in Jobs : job'[k] = "done" <=> job[k] = "done"
      BY <2>1, <2>2 DEF Raise, Goto, Types
    <3> QED BY <1>2, <2>2, <3>1
  <2>3. CASE /\ announced' = [announced EXCEPT ![j] = Count(j) - pre[j]]
             /\ pre' = [pre EXCEPT ![j] = 0]
             /\ clean' = clean \cup {k \in {j} : Succeeded(k)}
             /\ Goto(j, "done")
    <3>1. \A k \in Jobs : /\ announced'[k] = IF k = j THEN Count(j) - pre[j] ELSE announced[k]
                          /\ pre'[k] = IF k = j THEN 0 ELSE pre[k]
                          /\ job'[k] = IF k = j THEN "done" ELSE job[k]
      BY <2>3 DEF Goto, Types
    <3>2. Count(j) - pre[j] \in Int /\ Count(j) - pre[j] # None /\ Recorded(j) \in Nat
      <4>1. Count(j) \in Nat /\ Recorded(j) \in Nat /\ None \notin Int
        BY FindingsFinite, JobsFinite
      <4>2. pre[j] \in Int
        BY DEF Types
      <4>3. Count(j) - pre[j] \in Int
        BY <4>1, <4>2
      <4> QED BY <4>1, <4>3
    <3>3. Alone(j) => Count(j) - pre[j] = Recorded(j)
      <4> SUFFICES ASSUME Alone(j) PROVE Count(j) - pre[j] = Recorded(j)
        OBVIOUS
      <4>1. Count(j) = Recorded(j) /\ pre[j] = 0
        BY AloneCount DEF Announcements
      <4> QED BY <3>2, <4>1
    <3>4. \A k \in Jobs : Recorded(k)' = Recorded(k)
      BY <2>1 DEF Recorded
    <3>5. Succeeded(j) => Traced(j)
      BY <2>1 DEF Succeeded, Analysts, Types
    <3>6. \A k \in clean' : Traced(k)'
      BY <1>1, <2>3, <3>5 DEF Announcements, Types
    <3>7. \A k \in Jobs : announced'[k] # None <=> job'[k] = "done"
      BY <3>1, <3>2 DEF Announcements
    <3>8. \A k \in Jobs : Alone(k) => pre'[k] = 0
      BY <3>1 DEF Announcements
    <3>9. ASSUME NEW k \in Jobs, Alone(k), announced'[k] # None
          PROVE  /\ announced'[k] <= Recorded(k)'
                 /\ analyst'[k] = "over" => announced'[k] = Recorded(k)'
      <4>1. CASE k = j
        BY <3>1, <3>2, <3>3, <3>4, <3>9, <4>1
      <4>2. CASE k # j
        BY <3>1, <3>9, <4>2, AnnouncedStays
      <4> QED BY <4>1, <4>2
    <3> QED BY <1>0, <3>6, <3>7, <3>8, <3>9 DEF Announcements
  <2> QED BY <1>5, <2>2, <2>3 DEF Announce
<1>6. ASSUME NEW j \in Jobs,
             BeginCall(j) \/ FindingWhole(j) \/ AuditWhole(j) \/ Finish(j) \/ Timeout(j)
      PROVE  Announcements'
  BY <1>2, <1>6, ServerSteps DEF jobVars
<1>7. CASE Begin \/ End \/ Stop \/ TailThread \/ UNCHANGED vars
  BY <1>2, <1>7, ElsewhereSteps DEF Elsewhere
<1> QED BY <1>3, <1>4, <1>5, <1>6, <1>7 DEF Next, Server, Worker, Loop

-----------------------------------------------------------------------------
(* The end of the step. *)

LEMMA ReturnedStep ==
  ASSUME Types, Analysts, Returned, [Next]_vars
  PROVE  Returned'
<1>0. Types' /\ DOMAIN findings = 1 .. Len(findings) /\ Len(findings) \in Nat
  BY TypesStep, LenProperties DEF Types
<1>1. ASSUME main = "returned", \A j \in Jobs : job[j] = "done", UNCHANGED <<main, added, job>>,
             UNCHANGED <<findings, analyst>>
      PROVE  Returned'
  BY <1>1 DEF Returned
<1>2. ASSUME NEW j \in Jobs, FindingWhole(j) PROVE Returned'
  <2>1. /\ call[j] = "finding" /\ findings' = Append(findings, j)
        /\ UNCHANGED <<main, added, job, analyst>>
    BY <1>2 DEF FindingWhole, jobVars
  <2>2. analyst[j] # "over"
    BY <2>1 DEF Analysts
  <2>3. /\ Len(findings') = Len(findings) + 1 /\ DOMAIN findings' = 1 .. Len(findings) + 1
        /\ findings'[Len(findings) + 1] = j
        /\ \A n \in DOMAIN findings : findings'[n] = findings[n]
    BY <2>1, FindingAdds
  <2> QED BY <1>0, <2>1, <2>2, <2>3 DEF Returned
<1>3. ASSUME NEW j \in Jobs, BeginCall(j) \/ AuditWhole(j) PROVE Returned'
  <2>1. UNCHANGED <<main, added, job, analyst, findings>>
    <3>1. CASE BeginCall(j)
      BY <3>1 DEF BeginCall, jobVars
    <3>2. CASE AuditWhole(j)
      BY <3>2 DEF AuditWhole, jobVars
    <3> QED BY <1>3, <3>1, <3>2
  <2> QED BY <2>1 DEF Returned
<1>4. ASSUME NEW j \in Jobs, Finish(j) \/ Timeout(j) PROVE Returned'
  <2>1. main = "returned" => FALSE
    <3>1. main = "returned" => analyst[j] \in {"killed", "over"}
      BY DEF Returned, Analysts, Answered
    <3> QED BY <1>4, <3>1 DEF Finish, Timeout
  <2>2. main' = main
    BY <1>4 DEF Finish, Timeout
  <2> QED BY <2>1, <2>2 DEF Returned
<1>5. ASSUME NEW j \in Jobs, Worker(j) PROVE Returned'
  <2>1. main = "returned" => FALSE
    BY <1>5 DEF Worker, Start, Record, Recording, AddTokens, Announce, Returned
  <2>2. main' = main
    BY <1>5 DEF Worker, Start, Record, Recording, AddTokens, Announce
  <2> QED BY <2>1, <2>2 DEF Returned
<1>6. CASE End
  <2>1. main' = "returned" => /\ \A j \in Jobs : job[j] = "done" /\ job' = job
                              /\ added' = Len(findings) /\ findings' = findings
    BY <1>6 DEF End, Joined, Types, jobVars, fileVars
  <2> QED BY <1>0, <2>1 DEF Returned
<1>7. CASE Begin
  BY <1>7 DEF Begin, Returned
<1>8. CASE Stop \/ TailThread \/ UNCHANGED vars
  <2>1. UNCHANGED <<main, added>>
    BY <1>8 DEF Stop, TailThread, Poll, Take, Render, TailEnds, vars
  <2>2. UNCHANGED <<job, analyst, findings>>
    BY <1>8, ElsewhereSteps DEF Elsewhere
  <2> QED BY <2>1, <2>2 DEF Returned
<1> QED BY <1>2, <1>3, <1>4, <1>5, <1>6, <1>7, <1>8 DEF Next, Server, Loop

-----------------------------------------------------------------------------
(* The theorems. *)

LEMMA PhaseInvHolds == Spec => []PhaseInv
<1>1. Init => PhaseInv
  BY TypesInit, SumsInit, AnalystsInit, AnnouncementsInit DEF PhaseInv, Returned, Init
<1>2. PhaseInv /\ [Next]_vars => PhaseInv'
  BY TypesStep, SumsStep, AnalystsStep, AnnouncementsStep, ReturnedStep DEF PhaseInv
<1> QED BY <1>1, <1>2, PTL DEF Spec

LEMMA TotalsFollow == PhaseInv => TotalsExact
<1> SUFFICES ASSUME PhaseInv, main = "returned"
             PROVE  /\ results = Jobs /\ tokens = NumJobs
                    /\ \A j \in Jobs : announced[j] # None
                    /\ \A j \in Jobs : analyst[j] = "over" =>
                          Cardinality({n \in 1 .. added : findings[n] = j})
                             = Cardinality({n \in DOMAIN findings : findings[n] = j})
  BY DEF TotalsExact
<1>0. /\ Types /\ Sums /\ Announcements /\ \A j \in Jobs : job[j] = "done"
      /\ added \in 0 .. Len(findings)
      /\ \A n \in DOMAIN findings : n > added => analyst[findings[n]] # "over"
      /\ DOMAIN findings = 1 .. Len(findings) /\ Len(findings) \in Nat
  BY LenProperties DEF PhaseInv, Returned, Types
<1>1. results = Jobs
  BY <1>0 DEF Types, Sums, Answered
<1>2. {j \in results : job[j] # "adding"} = 1 .. NumJobs
  BY <1>0, <1>1 DEF Jobs
<1>3. tokens = NumJobs
  <2>1. NumJobs \in Nat \ {0}
    BY JobsAssumption
  <2>2. Cardinality(1 .. NumJobs) = NumJobs
    BY <2>1, FS_Interval
  <2> QED BY <1>0, <1>2, <2>2 DEF Sums
<1>4. ASSUME NEW j \in Jobs, analyst[j] = "over"
      PROVE  {n \in 1 .. added : findings[n] = j} = {n \in DOMAIN findings : findings[n] = j}
  BY <1>0, <1>4
<1> QED BY <1>0, <1>1, <1>3, <1>4 DEF Announcements

LEMMA OwnFollow == PhaseInv => AnnouncedAreOwn
<1> SUFFICES ASSUME PhaseInv, NEW j \in Jobs, announced[j] # None
             PROVE  /\ Alone(j) => announced[j] <= Recorded(j)
                    /\ Alone(j) /\ analyst[j] = "over" => announced[j] = Recorded(j)
                    /\ j \in clean => Recorded(j) > 0 \/ \E n \in DOMAIN audit : n > 1 /\ audit[n] = 0
  BY DEF AnnouncedAreOwn
<1>1. j \in clean => Own(j) # {} \/ \E n \in DOMAIN audit : n > 1 /\ audit[n] = 0
  BY DEF PhaseInv, Announcements, Traced
<1>2. Own(j) # {} => Recorded(j) > 0
  BY SomeRecorded DEF PhaseInv
<1> QED BY <1>1, <1>2 DEF PhaseInv, Announcements

\* The totals of a step that has returned are those of all its jobs, in whatever
\* order its threads ran (loop.py:978, 1026).
THEOREM Totals == Spec => []TotalsExact
BY PhaseInvHolds, TotalsFollow, PTL

\* An analyst that is alone on its host is announced with its own findings, and
\* none as succeeded that left nothing on the logs (loop.py:940).
THEOREM OwnAnnounced == Spec => []AnnouncedAreOwn
BY PhaseInvHolds, OwnFollow, PTL

-----------------------------------------------------------------------------
(* The tail thread: the lines it has taken are the new ones up to its       *)
(* offset; the batch is the last of them, in order, and every line before   *)
(* the batch is shown or fell to a failed look-up.                          *)

Lines == {shown[i].line : i \in DOMAIN shown}

Taken(d) ==
  /\ from <= d /\ d + Len(batch) <= Len(audit)
  /\ offset = 2 * (d + Len(batch))
  /\ \A i \in 1 .. Len(batch) : batch[i] = d + i
  /\ Lines \cup dropped = from + 1 .. d

TailInv ==
  /\ audit \in Seq(Nat) /\ findings \in Seq(Jobs)
  /\ \A n \in DOMAIN audit : audit[n] <= Len(findings)
  /\ from \in Nat /\ offset \in Nat /\ batch \in Seq(Nat)
  /\ shown \in Seq([line : Nat, found : BOOLEAN])
  /\ \A i, k \in DOMAIN shown : i < k => shown[i].line < shown[k].line
  /\ \A i \in DOMAIN shown : shown[i].found
  /\ main = "start" => tail = "off"
  /\ tail = "off" => shown = <<>> /\ batch = <<>> /\ dropped = {}
  /\ tail # "off" => \E d \in Nat : Taken(d)

LEMMA TailInvInit == Init => TailInv
<1> SUFFICES ASSUME Init PROVE TailInv
  OBVIOUS
<1>1. audit = <<0>> /\ findings = <<>> /\ shown = <<>> /\ batch = <<>>
  BY DEF Init
<1>2. Len(findings) = 0 /\ \A n \in DOMAIN audit : audit[n] = 0
  BY <1>1
<1>3. audit \in Seq(Nat) /\ findings \in Seq(Jobs) /\ batch \in Seq(Nat)
      /\ shown \in Seq([line : Nat, found : BOOLEAN])
  BY <1>1, EmptySeq
<1> QED BY <1>1, <1>2, <1>3 DEF Init, TailInv

\* The logs grow under the tail thread and it does not move.
LEMMA TailWaits ==
  ASSUME TailInv, UNCHANGED tailVars, main' = "start" => main = "start",
         \/ UNCHANGED <<audit, findings>>
         \/ audit' = audit /\ \E j \in Jobs : findings' = Append(findings, j)
         \/ findings' = findings /\ \E e \in 0 .. Len(findings) : audit' = Append(audit, e)
  PROVE  TailInv'
<1>1. audit \in Seq(Nat) /\ findings \in Seq(Jobs) /\ Len(audit) \in Nat /\ Len(findings) \in Nat
      /\ batch \in Seq(Nat) /\ Len(batch) \in Nat
  BY DEF TailInv
<1> DEFINE Longer ==
             /\ audit' \in Seq(Nat) /\ findings' \in Seq(Jobs)
             /\ Len(audit') \in Nat /\ Len(audit) <= Len(audit')
             /\ \A n \in DOMAIN audit' : audit'[n] <= Len(findings')
<1>2. Longer
  <2>1. CASE UNCHANGED <<audit, findings>>
    BY <1>1, <2>1 DEF TailInv
  <2>2. ASSUME NEW j \in Jobs, audit' = audit, findings' = Append(findings, j)
        PROVE  Longer
    <3>1. findings' \in Seq(Jobs) /\ Len(findings') = Len(findings) + 1
      BY <1>1, <2>2
    <3>2. \A n \in DOMAIN audit : audit[n] \in Nat /\ audit[n] <= Len(findings)
      BY <1>1 DEF TailInv
    <3> QED BY <1>1, <2>2, <3>1, <3>2
  <2>3. ASSUME NEW e \in 0 .. Len(findings), findings' = findings, audit' = Append(audit, e)
        PROVE  Longer
    <3>1. e \in Nat /\ e <= Len(findings)
      BY <1>1
    <3>2. /\ audit' \in Seq(Nat) /\ Len(audit') = Len(audit) + 1
          /\ DOMAIN audit' = 1 .. Len(audit) + 1 /\ DOMAIN audit = 1 .. Len(audit)
          /\ audit'[Len(audit) + 1] = e /\ \A n \in 1 .. Len(audit) : audit'[n] = audit[n]
      BY <1>1, <2>3, <3>1
    <3>3. ASSUME NEW n \in 1 .. Len(audit) + 1 PROVE audit'[n] <= Len(findings)
      <4>1. CASE n \in 1 .. Len(audit)
        BY <3>2, <4>1 DEF TailInv
      <4>2. CASE n = Len(audit) + 1
        BY <3>1, <3>2, <4>2
      <4> QED BY <1>1, <4>1, <4>2
    <3>4. Len(audit') \in Nat /\ Len(audit) <= Len(audit')
      BY <1>1, <3>2
    <3>5. \A n \in DOMAIN audit' : audit'[n] <= Len(findings')
      BY <2>3, <3>2, <3>3
    <3> QED BY <1>1, <2>3, <3>2, <3>4, <3>5
  <2> QED BY <2>1, <2>2, <2>3
<1>3. ASSUME NEW d \in Nat, Taken(d) PROVE Taken(d)'
  <2>1. d + Len(batch) <= Len(audit')
    BY <1>1, <1>2, <1>3 DEF Taken
  <2> QED BY <1>3, <2>1 DEF Taken, Lines, tailVars
<1> QED BY <1>2, <1>3 DEF TailInv, tailVars

LEMMA PollTaken ==
  ASSUME TailInv, Poll
  PROVE  TailInv'
<1>1. /\ tail = "poll" /\ batch = <<>> /\ Complete # {}
      /\ offset' = 2 * Len(audit)
      /\ batch' = [i \in 1 .. Len(audit) - Before |-> Before + i]
      /\ UNCHANGED <<main, findings, audit, tail, from, shown, dropped>>
  BY DEF Poll, Take, fileVars
<1>2. PICK d \in Nat : Taken(d)
  BY <1>1 DEF TailInv
<1>3. Len(batch) = 0 /\ offset = 2 * d /\ Len(audit) \in Nat /\ d <= Len(audit)
  BY <1>1, <1>2 DEF Taken, TailInv
<1>4. Before = d
  BY <1>3 DEF Before
<1>5. PICK k \in Nat : k = Len(audit) - d
  BY <1>3
<1>6. batch' = [i \in 1 .. k |-> d + i]
  BY <1>1, <1>4, <1>5
<1>7. batch' \in Seq(Nat) /\ Len(batch') = k /\ \A i \in 1 .. k : batch'[i] = d + i
  <2>1. batch' \in [1 .. k -> Nat] /\ DOMAIN batch' = 1 .. k
    BY <1>6
  <2>2. batch' \in Seq(Nat)
    BY <2>1, SeqDef
  <2>3. Len(batch') = k
    BY <2>1, <2>2
  <2> QED BY <1>6, <2>2, <2>3
<1>8. Taken(d)'
  <2>1. Lines' \cup dropped' = from' + 1 .. d
    BY <1>1, <1>2 DEF Taken, Lines
  <2>2. from' <= d /\ d + k = Len(audit) /\ offset' = 2 * (d + k)
    BY <1>1, <1>2, <1>3, <1>5 DEF Taken
  <2>3. d + Len(batch') <= Len(audit') /\ offset' = 2 * (d + Len(batch'))
    <3>1. Len(batch') = k /\ Len(audit') = Len(audit)
      BY <1>1, <1>7
    <3>2. d + k <= Len(audit)
      BY <1>3, <2>2
    <3> QED BY <2>2, <3>1, <3>2
  <2>4. \A i \in 1 .. Len(batch') : batch'[i] = d + i
    BY <1>7
  <2> QED BY <2>1, <2>2, <2>3, <2>4 DEF Taken
<1>9. offset' \in Nat
  BY <1>1, <1>3
<1> QED BY <1>1, <1>7, <1>8, <1>9 DEF TailInv

LEMMA RenderTaken ==
  ASSUME TailInv, Render
  PROVE  TailInv'
<1>1. /\ batch # <<>> /\ UNCHANGED <<main, findings, audit, tail, from, offset>>
  BY DEF Render, fileVars
<1>2. tail # "off"
  BY <1>1 DEF TailInv
<1>3. PICK d \in Nat : Taken(d)
  BY <1>2 DEF TailInv
<1>4. PICK k \in Nat : /\ k = Len(batch) /\ k >= 1 /\ batch \in Seq(Nat) /\ Head(batch) = d + 1
                       /\ Tail(batch) \in Seq(Nat) /\ Len(Tail(batch)) = k - 1
                       /\ \A i \in 1 .. k - 1 : Tail(batch)[i] = d + 1 + i
  <2>1. batch \in Seq(Nat) /\ Len(batch) \in Nat /\ Len(batch) >= 1
    BY <1>1 DEF TailInv
  <2>2. Head(batch) = batch[1] /\ Tail(batch) \in Seq(Nat) /\ Len(Tail(batch)) = Len(batch) - 1
        /\ \A i \in 1 .. Len(batch) - 1 : Tail(batch)[i] = batch[i + 1]
    BY <1>1, <2>1
  <2>3. \A i \in 1 .. Len(batch) - 1 : i + 1 \in 1 .. Len(batch) /\ d + (i + 1) = d + 1 + i
    BY <2>1
  <2>4. batch[1] = d + 1
    BY <1>3, <2>1 DEF Taken
  <2> QED BY <1>3, <2>1, <2>2, <2>3, <2>4 DEF Taken
<1>5. Lines \cup dropped = from + 1 .. d /\ from \in Nat /\ from <= d
      /\ offset = 2 * (d + k) /\ d + k <= Len(audit) /\ Len(audit) \in Nat
  BY <1>3, <1>4 DEF Taken, TailInv
<1>6. CASE shown' = Append(shown, Formatted(d + 1)) /\ batch' = Tail(batch) /\ UNCHANGED dropped
  <2>1. PICK r : r = Formatted(d + 1)
    OBVIOUS
  <2>2. r \in [line : Nat, found : BOOLEAN] /\ r.line = d + 1 /\ r.found
    <3>1. d + 1 \in DOMAIN audit /\ audit[d + 1] \in Nat /\ audit[d + 1] <= Len(findings)
      BY <1>4, <1>5 DEF TailInv
    <3>2. audit[d + 1] = 0 \/ Found(d + 1)
      <4>1. findings \in Seq(Jobs)
        BY DEF TailInv
      <4> QED BY <3>1, <4>1 DEF Found
    <3>3. r = [line |-> d + 1, found |-> TRUE]
      BY <2>1, <3>2 DEF Formatted
    <3>4. d + 1 \in Nat /\ TRUE \in BOOLEAN
      OBVIOUS
    <3> QED BY <3>3, <3>4
  <2>3. PICK n \in Nat : /\ n = Len(shown) /\ DOMAIN shown = 1 .. n
                         /\ shown' \in Seq([line : Nat, found : BOOLEAN])
                         /\ DOMAIN shown' = 1 .. n + 1 /\ shown'[n + 1] = r
                         /\ \A i \in 1 .. n : shown'[i] = shown[i] /\ shown[i].line \in Nat
    <3> DEFINE S == [line : Nat, found : BOOLEAN]
    <3>1. shown \in Seq(S) /\ shown' = Append(shown, r) /\ r \in S
      BY <1>6, <2>1, <2>2 DEF TailInv
    <3>2. \A x \in S : x.line \in Nat
      OBVIOUS
    <3> HIDE DEF S
    <3>3. /\ Len(shown) \in Nat /\ DOMAIN shown = 1 .. Len(shown) /\ shown' \in Seq(S)
          /\ DOMAIN shown' = 1 .. Len(shown) + 1 /\ shown'[Len(shown) + 1] = r
          /\ \A i \in 1 .. Len(shown) : shown'[i] = shown[i] /\ shown[i] \in S
      BY <3>1
    <3>4. \A i \in 1 .. Len(shown) : shown[i].line \in Nat
      BY <3>2, <3>3
    <3> QED BY <3>3, <3>4 DEF S
  <2>4. \A i \in 1 .. n : shown[i].line <= d
    <3> SUFFICES ASSUME NEW i \in 1 .. n PROVE shown[i].line <= d
      OBVIOUS
    <3>1. shown[i].line \in Lines
      BY <2>3 DEF Lines
    <3> QED BY <1>5, <3>1
  <2>5. \A i, j \in DOMAIN shown' : i < j => shown'[i].line < shown'[j].line
    <3> SUFFICES ASSUME NEW i \in 1 .. n + 1, NEW j \in 1 .. n + 1, i < j
                 PROVE  shown'[i].line < shown'[j].line
      BY <2>3
    <3>1. CASE j = n + 1
      <4>1. i \in 1 .. n
        BY <3>1
      <4> QED BY <2>2, <2>3, <2>4, <3>1, <4>1
    <3>2. CASE j # n + 1
      <4>1. i \in 1 .. n /\ j \in 1 .. n
        BY <3>2
      <4> QED BY <2>3, <4>1 DEF TailInv
    <3> QED BY <3>1, <3>2
  <2>6. \A i \in DOMAIN shown' : shown'[i].found
    <3>1. \A i \in 1 .. n + 1 : i \in 1 .. n \/ i = n + 1
      OBVIOUS
    <3> QED BY <2>2, <2>3, <3>1 DEF TailInv
  <2>7. Lines' = Lines \cup {d + 1}
    <3>1. \A i \in 1 .. n + 1 : i \in 1 .. n \/ i = n + 1
      OBVIOUS
    <3>2. n + 1 \in 1 .. n + 1 /\ \A i \in 1 .. n : i \in 1 .. n + 1
      OBVIOUS
    <3> QED BY <2>2, <2>3, <3>1, <3>2 DEF Lines
  <2>8. Taken(d + 1)'
    <3>1. Lines' \cup dropped' = from + 1 .. d + 1
      <4>1. from + 1 .. d + 1 = (from + 1 .. d) \cup {d + 1}
        BY <1>5
      <4> QED BY <1>5, <1>6, <2>7, <4>1
    <3>2. (d + 1) + (k - 1) = d + k /\ from <= d + 1
      BY <1>4, <1>5
    <3> QED BY <1>1, <1>4, <1>5, <1>6, <3>1, <3>2 DEF Taken
  <2>9. d + 1 \in Nat
    OBVIOUS
  <2> QED BY <1>1, <1>2, <1>4, <1>6, <2>3, <2>5, <2>6, <2>8, <2>9 DEF TailInv
<1>7. CASE dropped' = dropped \cup ToSet(batch) /\ batch' = <<>> /\ UNCHANGED shown
  <2>1. ToSet(batch) = d + 1 .. d + k
    <3>1. ToSet(batch) = {batch[i] : i \in 1 .. k}
      BY <1>4 DEF ToSet
    <3>2. \A i \in 1 .. k : batch[i] = d + i
      BY <1>3, <1>4 DEF Taken
    <3>3. \A x \in d + 1 .. d + k : x - d \in 1 .. k /\ x = d + (x - d)
      BY <1>4
    <3>4. \A i \in 1 .. k : d + i \in d + 1 .. d + k
      BY <1>4
    <3> QED BY <3>1, <3>2, <3>3, <3>4
  <2>2. Lines' \cup dropped' = from + 1 .. d + k
    <3>1. from + 1 .. d + k = (from + 1 .. d) \cup (d + 1 .. d + k)
      BY <1>4, <1>5
    <3>2. Lines' = Lines
      BY <1>7 DEF Lines
    <3> QED BY <1>5, <1>7, <2>1, <3>1, <3>2
  <2>3. batch' \in Seq(Nat) /\ Len(batch') = 0
    BY <1>7, EmptySeq
  <2>4. d + k \in Nat /\ from <= d + k
    BY <1>4, <1>5
  <2>5. Taken(d + k)'
    BY <1>1, <1>5, <2>2, <2>3, <2>4 DEF Taken
  <2> QED BY <1>1, <1>2, <1>7, <2>3, <2>4, <2>5 DEF TailInv
<1> QED BY <1>4, <1>6, <1>7 DEF Render

LEMMA TailInvStep ==
  ASSUME TailInv, [Next]_vars
  PROVE  TailInv'
<1>1. ASSUME NEW j \in Jobs, BeginCall(j) \/ Finish(j) \/ Timeout(j) PROVE TailInv'
  <2>1. UNCHANGED <<main, audit, findings, tailVars>>
    BY <1>1 DEF BeginCall, Finish, Timeout, fileVars
  <2> QED BY <2>1, TailWaits
<1>2. ASSUME NEW j \in Jobs, FindingWhole(j) \/ AuditWhole(j) PROVE TailInv'
  <2>1. Len(findings) \in Nat
    BY DEF TailInv
  <2> QED BY <1>2, <2>1, TailWaits DEF FindingWhole, AuditWhole
<1>3. ASSUME NEW j \in Jobs, Worker(j) PROVE TailInv'
  <2>1. UNCHANGED <<main, audit, findings, tailVars>>
    BY <1>3 DEF Worker, Start, Record, Recording, AddTokens, Announce, fileVars
  <2> QED BY <2>1, TailWaits
<1>4. CASE Begin
  <2>1. /\ main = "start" /\ main' = "running" /\ tail' = "poll"
        /\ from' = Len(audit) /\ offset' = 2 * Len(audit)
        /\ UNCHANGED <<audit, findings, batch, shown, dropped>>
    BY <1>4 DEF Begin, fileVars
  <2>2. shown = <<>> /\ batch = <<>> /\ dropped = {} /\ Len(audit) \in Nat /\ Len(batch) = 0
    BY <2>1 DEF TailInv
  <2>3. Lines' = {}
    BY <2>1, <2>2 DEF Lines
  <2>4. from' + 1 .. from' = {}
    BY <2>1, <2>2
  <2>5. Taken(Len(audit))'
    BY <2>1, <2>2, <2>3, <2>4 DEF Taken
  <2>6. Len(audit') \in Nat /\ offset' \in Nat
    BY <2>1, <2>2
  <2> QED BY <2>1, <2>2, <2>5, <2>6 DEF TailInv
<1>5. CASE End \/ Stop
  <2>1. UNCHANGED <<audit, findings, tailVars>> /\ (main' = "start" => main = "start")
    BY <1>5 DEF End, Stop, fileVars
  <2> QED BY <2>1, TailWaits
<1>6. CASE TailEnds
  <2>1. /\ tail = "poll" /\ tail' = "ended"
        /\ UNCHANGED <<main, audit, findings, from, offset, batch, shown, dropped>>
    BY <1>6 DEF TailEnds, fileVars
  <2>2. \A d \in Nat : Taken(d) => Taken(d)'
    BY <2>1 DEF Taken, Lines
  <2> QED BY <2>1, <2>2 DEF TailInv
<1>7. CASE UNCHANGED vars
  BY <1>7, TailWaits DEF vars, fileVars
<1> QED BY <1>1, <1>2, <1>3, <1>4, <1>5, <1>6, <1>7, PollTaken, RenderTaken
        DEF Next, Server, Loop, TailThread

LEMMA TailFollows == TailInv => TailFaithful
<1> SUFFICES ASSUME TailInv PROVE TailFaithful
  OBVIOUS
<1>1. ASSUME tail # "off"
      PROVE  /\ {n \in DOMAIN audit : n > from /\ 2 * n <= offset}
                  = {shown[i].line : i \in DOMAIN shown} \cup ToSet(batch) \cup dropped
             /\ \A n \in DOMAIN audit : ~ (2 * (n - 1) < offset /\ offset < 2 * n)
  <2>1. PICK d \in Nat : Taken(d)
    BY <1>1 DEF TailInv
  <2>2. PICK k \in Nat : /\ k = Len(batch) /\ DOMAIN batch = 1 .. k
                         /\ DOMAIN audit = 1 .. Len(audit) /\ Len(audit) \in Nat /\ from \in Nat
    BY DEF TailInv
  <2>3. ToSet(batch) = d + 1 .. d + k
    <3>1. ToSet(batch) = {batch[i] : i \in 1 .. k}
      BY <2>2 DEF ToSet
    <3>2. \A i \in 1 .. k : batch[i] = d + i
      BY <2>1, <2>2 DEF Taken
    <3>3. \A x \in d + 1 .. d + k : x - d \in 1 .. k /\ x = d + (x - d)
      OBVIOUS
    <3>4. \A i \in 1 .. k : d + i \in d + 1 .. d + k
      OBVIOUS
    <3> QED BY <3>1, <3>2, <3>3, <3>4
  <2>4. offset = 2 * (d + k) /\ from <= d /\ d + k <= Len(audit) /\ Lines \cup dropped = from + 1 .. d
    BY <2>1, <2>2 DEF Taken
  <2>5. {n \in DOMAIN audit : n > from /\ 2 * n <= offset} = from + 1 .. d + k
    BY <2>2, <2>4
  <2>6. from + 1 .. d + k = (from + 1 .. d) \cup (d + 1 .. d + k)
    BY <2>2, <2>4
  <2>7. \A n \in DOMAIN audit : ~ (2 * (n - 1) < offset /\ offset < 2 * n)
    BY <2>2, <2>4
  <2> QED BY <2>3, <2>4, <2>5, <2>6, <2>7 DEF Lines
<1> QED BY <1>1 DEF TailInv, TailFaithful

\* The console shows each new line of the audit log once, whole, in order and
\* with its finding, or lost it to a failed look-up (_audit_tail_loop).
THEOREM Tailed == Spec => []TailFaithful
<1>1. TailInv /\ [Next]_vars => TailInv'
  BY TailInvStep
<1> QED BY <1>1, TailInvInit, TailFollows, PTL DEF Spec

-----------------------------------------------------------------------------
(* The types.  That no announced number is below zero is not one of form:  *)
(* a job subtracts what it counted before the dispatch from what it counts *)
(* after it, and others add to both.                                       *)

CountsInv ==
  /\ parallel \in BOOLEAN /\ stop \in BOOLEAN /\ writer \in Jobs \cup {None}
  /\ half \in {"findings", "audit", None} /\ tail \in {"off", "poll", "ended"}
  /\ \A j \in Jobs : pre[j] \in 0 .. Count(j) /\ announced[j] \in Nat \cup {None}

LEMMA PlacesFinite ==
  ASSUME NEW s \in Seq(Jobs)
  PROVE  IsFiniteSet(DOMAIN s)
<1>1. DOMAIN s = 1 .. Len(s) /\ Len(s) \in Nat
  BY LenProperties
<1> QED BY <1>1, FS_Interval

\* No finding leaves the chain, so what a job counts only grows.
LEMMA CountGrows ==
  ASSUME Types, Types', NEW j \in Jobs,
         findings' = findings \/ \E k \in Jobs : findings' = Append(findings, k)
  PROVE  Count(j) \in Nat /\ Count(j)' \in Nat /\ Count(j) <= Count(j)'
<1>1. findings \in Seq(Jobs) /\ findings' \in Seq(Jobs)
  BY DEF Types
<1>2. IsFiniteSet(DOMAIN findings) /\ IsFiniteSet(DOMAIN findings')
  BY <1>1, PlacesFinite
<1>3. \A n \in DOMAIN findings : n \in DOMAIN findings' /\ findings'[n] = findings[n]
  BY FindingAdds
<1> DEFINE Mine(s) == {n \in DOMAIN s : Agent[s[n]] = Agent[j] /\ Host[s[n]] = Host[j]}
<1>4. Count(j) = Cardinality(Mine(findings)) /\ Count(j)' = Cardinality(Mine(findings'))
  BY DEF Count
<1>5. Mine(findings) \subseteq Mine(findings')
  BY <1>3
<1>6. Mine(findings) \subseteq DOMAIN findings /\ Mine(findings') \subseteq DOMAIN findings'
  OBVIOUS
<1> HIDE DEF Mine
<1>7. IsFiniteSet(Mine(findings)) /\ IsFiniteSet(Mine(findings'))
  BY <1>2, <1>6, FS_Subset
<1> QED BY <1>4, <1>5, <1>7, FS_CardinalityType, FS_Subset

LEMMA CountsStay ==
  ASSUME Types, Types', CountsInv, UNCHANGED <<parallel, pre, announced>>,
         findings' = findings \/ \E k \in Jobs : findings' = Append(findings, k),
         stop' \in BOOLEAN, writer' \in Jobs \cup {None},
         half' \in {"findings", "audit", None}, tail' \in {"off", "poll", "ended"}
  PROVE  CountsInv'
<1>1. ASSUME NEW j \in Jobs PROVE pre'[j] \in 0 .. Count(j)'
  <2>1. pre[j] \in 0 .. Count(j) /\ pre'[j] = pre[j]
    BY DEF CountsInv
  <2> QED BY <2>1, CountGrows
<1> QED BY <1>1 DEF CountsInv

LEMMA CountsStep == ASSUME PhaseInv, CountsInv, [Next]_vars PROVE CountsInv'
<1>1. Types /\ Types'
  BY TypesStep DEF PhaseInv
<1>2. \A j \in Jobs : Count(j) \in Nat
  BY <1>1, FindingsFinite
<1>3. ASSUME NEW j \in Jobs, BeginCall(j) \/ Server(j) \/ Finish(j) \/ Timeout(j)
      PROVE  CountsInv'
  <2>1. /\ UNCHANGED <<parallel, pre, announced, stop, tail>>
        /\ findings' = findings \/ findings' = Append(findings, j)
        /\ writer' \in {writer, j, None} /\ half' \in {half, "findings", "audit", None}
    BY <1>3 DEF BeginCall, Server, FindingWhole, AuditWhole, Finish, Timeout, jobVars, fileVars,
                tailVars
  <2> QED BY <1>1, <2>1, CountsStay DEF CountsInv
<1>4. ASSUME NEW j \in Jobs, Worker(j) PROVE CountsInv'
  <2>1. UNCHANGED <<parallel, stop, writer, half, tail, findings>>
    BY <1>4 DEF Worker, Start, Record, Recording, AddTokens, Announce, fileVars, tailVars
  <2>2. \A k \in Jobs : Count(k)' = Count(k)
    BY <2>1 DEF Count
  <2>3. CASE UNCHANGED <<pre, announced>>
    BY <1>1, <2>1, <2>3, CountsStay DEF CountsInv
  <2>4. CASE pre' = [pre EXCEPT ![j] = Count(j)] /\ announced' = announced
    <3>1. \A k \in Jobs : pre'[k] = IF k = j THEN Count(j) ELSE pre[k]
      BY <1>1, <2>4 DEF Types
    <3>2. \A k \in Jobs : pre'[k] \in 0 .. Count(k)
      BY <1>2, <3>1 DEF CountsInv
    <3> QED BY <2>1, <2>2, <2>4, <3>2 DEF CountsInv
  <2>5. CASE /\ announced' = [announced EXCEPT ![j] = Count(j) - pre[j]]
             /\ pre' = [pre EXCEPT ![j] = 0]
    <3>1. Count(j) - pre[j] \in Nat
      BY <1>2 DEF CountsInv
    <3>2. \A k \in Jobs : /\ pre'[k] = IF k = j THEN 0 ELSE pre[k]
                          /\ announced'[k] = IF k = j THEN Count(j) - pre[j] ELSE announced[k]
      BY <1>1, <2>5 DEF Types
    <3>3. \A k \in Jobs : pre'[k] \in 0 .. Count(k) /\ announced'[k] \in Nat \cup {None}
      BY <1>2, <3>1, <3>2 DEF CountsInv
    <3> QED BY <2>1, <2>2, <3>3 DEF CountsInv
  <2> QED BY <1>4, <2>3, <2>4, <2>5
          DEF Worker, Start, Raise, Counted, Record, Recording, AddTokens, Announce
<1>5. CASE Loop \/ TailThread \/ UNCHANGED vars
  <2>1. UNCHANGED <<parallel, pre, announced, findings, writer, half>>
    BY <1>5 DEF Loop, Begin, End, Stop, TailThread, Poll, Take, Render, TailEnds, vars, jobVars,
                fileVars
  <2>2. stop' \in {stop, TRUE} /\ tail' \in {tail, "poll", "ended"}
    BY <1>5 DEF Loop, Begin, End, Stop, TailThread, Poll, Take, Render, TailEnds, vars, tailVars
  <2> QED BY <1>1, <2>1, <2>2, CountsStay DEF CountsInv
<1> QED BY <1>3, <1>4, <1>5 DEF Next

LEMMA CountsInit == Init => CountsInv
<1> SUFFICES ASSUME Init PROVE CountsInv
  OBVIOUS
<1>1. \A j \in Jobs : Count(j) \in Nat
  BY TypesInit, FindingsFinite
<1>2. \A j \in Jobs : pre[j] = 0 /\ announced[j] = None
  BY DEF Init
<1>3. \A j \in Jobs : pre[j] \in 0 .. Count(j)
  BY <1>1, <1>2
<1> QED BY <1>2, <1>3 DEF Init, CountsInv

\* Every variable keeps its type: no analyst is announced with fewer than no
\* findings (run_one_job), and the tail thread takes only lines that are there.
THEOREM TypeCorrect == Spec => []TypeOK
<1>1. PhaseInv /\ CountsInv /\ TailInv => TypeOK
  <2> SUFFICES ASSUME PhaseInv, CountsInv, TailInv PROVE TypeOK
    OBVIOUS
  <2>1. Types
    BY DEF PhaseInv
  <2>2. pre \in [Jobs -> Nat] /\ announced \in [Jobs -> Nat \cup {None}]
    <3>1. \A j \in Jobs : pre[j] \in Nat /\ announced[j] \in Nat \cup {None}
      BY <2>1, FindingsFinite DEF CountsInv
    <3> QED BY <2>1, <3>1 DEF Types
  <2>3. /\ DOMAIN audit = 1 .. Len(audit) /\ Len(audit) \in Nat /\ Len(findings) \in Nat
        /\ audit = [n \in 1 .. Len(audit) |-> audit[n]]
        /\ \A n \in DOMAIN audit : audit[n] \in Nat
    BY <2>1 DEF Types
  <2>4. audit \in Seq(0 .. Len(findings))
    <3>1. \A n \in 1 .. Len(audit) : audit[n] \in 0 .. Len(findings)
      BY <2>3 DEF TailInv
    <3> QED BY <2>3, <3>1
  <2>5. /\ DOMAIN batch = 1 .. Len(batch) /\ Len(batch) \in Nat
        /\ batch = [i \in 1 .. Len(batch) |-> batch[i]]
    BY DEF TailInv
  <2> DEFINE LineType(lines) == [line : lines, found : BOOLEAN]
  <2>6. /\ DOMAIN shown = 1 .. Len(shown) /\ Len(shown) \in Nat
        /\ shown = [i \in 1 .. Len(shown) |-> shown[i]]
        /\ \A i \in 1 .. Len(shown) : shown[i] \in LineType(Nat)
    <3>1. shown \in Seq(LineType(Nat))
      BY DEF TailInv
    <3> HIDE DEF LineType
    <3> QED BY <3>1
  <2>7. /\ \A i \in 1 .. Len(batch) : batch[i] \in DOMAIN audit
        /\ Lines \cup dropped \subseteq DOMAIN audit
    <3>1. CASE tail = "off"
      BY <3>1 DEF TailInv, Lines
    <3>2. CASE tail # "off"
      <4>1. PICK d \in Nat : Taken(d)
        BY <3>2 DEF TailInv
      <4>2. from \in Nat
        BY DEF TailInv
      <4> QED BY <2>3, <2>5, <4>1, <4>2 DEF Taken
    <3> QED BY <3>1, <3>2
  <2>8. batch \in Seq(DOMAIN audit)
    BY <2>5, <2>7
  <2>9. shown \in Seq([line : DOMAIN audit, found : BOOLEAN])
    <3>1. \A i \in 1 .. Len(shown) : shown[i].line \in DOMAIN audit
      BY <2>6, <2>7 DEF Lines
    <3>2. \A i \in 1 .. Len(shown) : shown[i] \in LineType(DOMAIN audit)
      BY <2>6, <3>1
    <3>3. shown \in Seq(LineType(DOMAIN audit))
      <4> HIDE DEF LineType
      <4> QED BY <2>6, <3>2
    <3> QED BY <3>3
  <2> QED BY <2>1, <2>2, <2>4, <2>7, <2>8, <2>9 DEF Types, CountsInv, TailInv, TypeOK
<1>2. TailInv /\ [Next]_vars => TailInv'
  BY TailInvStep
<1>3. PhaseInv /\ CountsInv /\ [Next]_vars => CountsInv'
  BY CountsStep
<1> QED BY <1>1, <1>2, <1>3, TailInvInit, CountsInit, PhaseInvHolds, PTL DEF Spec

-----------------------------------------------------------------------------
(* Nobody waits for ever: the safety part of EveryoneEnds.                 *)

\* Where the thread of job j, the loop and the tail thread can go on: the
\* guards of Worker, Loop and (its end, and what it has taken) TailThread.
JobGoesOn(j) ==
  \/ /\ main = "running" /\ job[j] = "queued" /\ \A k \in 1 .. j - 1 : job[k] # "queued"
     /\ IF parallel THEN Cardinality(Busy) < Workers ELSE \A k \in 1 .. j - 1 : job[k] = "done"
  \/ job[j] = "waiting" /\ analyst[j] \in {"killed", "over"} /\ stateLock = None
  \/ job[j] \in {"adding", "recount"}
LoopGoesOn ==
  \/ main = "start"
  \/ main = "running" /\ Joined
  \/ main \in {"returned", "raised"} /\ ~ stop
TailGoesOn == batch # <<>> \/ (tail = "poll" /\ stop)

\* Until the tail thread has ended, the loop or the tail thread can go on; or a job
\* can, or it waits for an analyst that its timeout will kill.
NeverStuck ==
  tail # "ended" =>
    \/ LoopGoesOn \/ TailGoesOn
    \/ main = "running" /\ \E j \in Jobs :
         JobGoesOn(j) \/ (job[j] = "waiting" /\ analyst[j] = "live")

\* A job waits for an analyst that was started, and the tail thread runs from the
\* start of the step.
Attended ==
  /\ \A j \in Jobs : job[j] = "waiting" => analyst[j] # "none"
  /\ tail = "off" => main = "start"

LEMMA AttendedStep == ASSUME Types, Attended, [Next]_vars PROVE Attended'
<1>1. CASE UNCHANGED <<job, analyst>>
  <2>1. tail' = "off" => tail = "off" /\ main' = main
    BY DEF Next, BeginCall, Server, FindingWhole, AuditWhole, Finish, Timeout, Worker, Start,
           Raise, Record, Recording, AddTokens, Announce, Loop, Begin, End, Stop, TailThread,
           Poll, Take, Render, TailEnds, Attended, tailVars, vars
  <2> QED BY <1>1, <2>1 DEF Attended
<1>2. ASSUME NEW j \in Jobs, Finish(j) \/ Timeout(j) PROVE Attended'
  BY <1>2 DEF Finish, Timeout, Attended, Types, jobVars, tailVars
<1>3. ASSUME NEW j \in Jobs, Start(j) PROVE Attended'
  BY <1>3 DEF Start, Raise, Counted, Run, Goto, Attended, Types, tailVars
<1>4. ASSUME NEW j \in Jobs, Record(j) \/ AddTokens(j) \/ Announce(j) PROVE Attended'
  BY <1>4 DEF Record, Recording, AddTokens, Announce, Raise, Goto, Attended, Types, tailVars
<1>5. ASSUME NEW j \in Jobs, BeginCall(j) \/ Server(j) PROVE UNCHANGED <<job, analyst>>
  BY <1>5 DEF BeginCall, Server, FindingWhole, AuditWhole, jobVars
<1>6. ASSUME Loop \/ TailThread \/ UNCHANGED vars PROVE UNCHANGED <<job, analyst>>
  BY <1>6 DEF Loop, Begin, End, Stop, TailThread, Poll, Take, Render, TailEnds, jobVars, vars
<1> QED BY <1>1, <1>2, <1>3, <1>4, <1>5, <1>6 DEF Next, Worker

\* A set of jobs that is not empty has a first one.
LEMMA FirstOf ==
  ASSUME NEW S \in SUBSET Jobs, S # {}
  PROVE  \E j \in S : \A k \in 1 .. j - 1 : k \notin S
<1>1. S \subseteq Nat
  BY JobsAssumption DEF Jobs
<1> DEFINE R == {ss \in Nat \X Nat : ss[1] < ss[2]}
<1>2. IsWellFoundedOn(R, Nat)
  BY NatLessThanWellFounded DEF OpToRel
<1>3. PICK j \in S : \A k \in S : ~ (<<k, j>> \in R)
  <2> HIDE DEF R
  <2> QED BY <1>1, <1>2, WFMin
<1>4. ASSUME NEW k \in 1 .. j - 1 PROVE k \notin S
  <2>1. k \in Nat /\ k < j /\ j \in Nat
    BY <1>1, <1>4
  <2>2. <<k, j>> \in R
    BY <2>1
  <2> QED BY <1>3, <2>2
<1> QED BY <1>4

\* A job that has been started and not ended can go on, waits for its analyst, or
\* waits for state_lock, and then its holder can.
LEMMA BusyGoesOn ==
  ASSUME Types, Sums, Attended, NEW j \in Jobs, job[j] \in {"waiting", "adding", "recount"}
  PROVE  \E k \in Jobs : JobGoesOn(k) \/ (job[k] = "waiting" /\ analyst[k] = "live")
<1>1. CASE job[j] \in {"adding", "recount"}
  BY <1>1 DEF JobGoesOn
<1>2. CASE job[j] = "waiting" /\ stateLock = None
  <2>1. analyst[j] \in {"live", "killed", "over"}
    BY <1>2 DEF Types, Attended
  <2> QED BY <1>2, <2>1 DEF JobGoesOn
<1>3. CASE stateLock # None
  <2>1. stateLock \in Jobs /\ job[stateLock] = "adding"
    BY <1>3 DEF Types, Sums
  <2> QED BY <2>1 DEF JobGoesOn
<1> QED BY <1>1, <1>2, <1>3

\* If no job is busy, the first one in the queue can start or the step is joined.
LEMMA QueueGoesOn ==
  ASSUME Types, main = "running", Busy = {}
  PROVE  Joined \/ \E j \in Jobs : JobGoesOn(j)
<1>1. \A j \in Jobs : job[j] \in {"queued", "done", "raised"}
  BY DEF Busy
<1> DEFINE Queue == {j \in Jobs : job[j] = "queued"}
<1>2. CASE Queue = {}
  BY <1>1, <1>2 DEF Joined
<1>3. CASE Queue # {}
  <2>1. PICK j \in Queue : \A k \in 1 .. j - 1 : k \notin Queue
    BY <1>3, FirstOf
  <2>2. j \in Jobs /\ job[j] = "queued" /\ 1 .. j - 1 \subseteq Jobs
    BY <2>1, JobsAssumption DEF Jobs
  <2>3. \A k \in 1 .. j - 1 : job[k] \in {"done", "raised"}
    BY <1>1, <2>1, <2>2
  <2>4. CASE parallel
    <3>1. Cardinality(Busy) = 0
      BY FS_EmptySet
    <3>2. 0 < Workers
      BY BoundsAssumption
    <3> QED BY <2>2, <2>3, <2>4, <3>1, <3>2 DEF JobGoesOn
  <2>5. CASE ~ parallel /\ \E k \in 1 .. j - 1 : job[k] = "raised"
    BY <2>2, <2>5 DEF Joined
  <2>6. CASE ~ parallel /\ \A k \in 1 .. j - 1 : job[k] # "raised"
    BY <2>2, <2>3, <2>6 DEF JobGoesOn
  <2> QED BY <2>4, <2>5, <2>6
<1> QED BY <1>2, <1>3

LEMMA GoesOn == Types /\ Sums /\ Attended /\ tail \in {"off", "poll", "ended"} => NeverStuck
<1> SUFFICES ASSUME Types, Sums, Attended, tail \in {"off", "poll"} PROVE NeverStuck
  BY DEF NeverStuck
<1>1. CASE main # "running"
  <2>1. main = "start" \/ (main \in {"returned", "raised"} /\ tail = "poll")
    BY <1>1 DEF Types, Attended
  <2> QED BY <2>1 DEF NeverStuck, LoopGoesOn, TailGoesOn
<1>2. CASE main = "running" /\ Busy = {}
  BY <1>2, QueueGoesOn DEF NeverStuck, LoopGoesOn
<1>3. CASE main = "running" /\ Busy # {}
  <2>1. PICK j \in Jobs : job[j] \in {"waiting", "adding", "recount"}
    BY <1>3 DEF Busy, Types
  <2> QED BY <1>3, <2>1, BusyGoesOn DEF NeverStuck
<1> QED BY <1>1, <1>2, <1>3

\* The step is never stuck before its end, with or without a pool, whichever job
\* raises: no job waits for itself, for state_lock behind a thread that waits, or
\* for a place in the pool that nobody gives up (loop.py:1013, display.py:303).
THEOREM NobodyStuck == Spec => []NeverStuck
<1>1. Init => Attended
  BY DEF Init, Attended
<1>2. PhaseInv /\ Attended /\ [Next]_vars => Attended'
  BY AttendedStep DEF PhaseInv
<1>3. PhaseInv /\ TypeOK /\ Attended => NeverStuck
  BY GoesOn DEF PhaseInv, TypeOK
<1> QED BY <1>1, <1>2, <1>3, PhaseInvHolds, TypeCorrect, PTL DEF Spec
=============================================================================
