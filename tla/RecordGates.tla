---------------------------- MODULE RecordGates ----------------------------
(* The three writing tools of the MCP server and the gates a call must pass *)
(* before its record lands: record_finding (analysts), record_correlation   *)
(* (the validator) and update_finding (the orchestrator), over the audit,   *)
(* findings and correlations logs they share with every other tool call.    *)
(*                                                                          *)
(* An append is one step here; ChainLog models its parts.  A call is the    *)
(* gates, read at once, then its appends one by one, so that other callers' *)
(* records land between what a call has read and what it writes.  The logs  *)
(* are what append-only files hold: a line number is a position.            *)
EXTENDS Naturals, Sequences, FiniteSets

CONSTANTS
    Callers,            \* server processes; each serves one call at a time
    Role, Host,         \* SIFT_GUARD_ROLE and SIFT_GUARD_HOST_ID of each, or None
    None,
    Analysts,           \* the names of AnalystName
    FindingTools,       \* ALLOWED_SOURCE_TOOLS
    RunTools,           \* the tools called during the run, rag_query included
    Rag,                \* rag_query, which only correlations may cite
    Prefixes,           \* the leading 8 characters of a finding id
    FindingCalls, CorrelationCalls, UpdateCalls,  \* arguments the callers try
    MaxToolCalls, MaxFindings, MaxCorrelations, MaxUpdates,  \* bounds: records of
    MaxRefusals         \* each kind (findings and deaths together), calls refused

ASSUME CallersAssumption ==
    /\ None \notin Callers
    /\ Rag \notin FindingTools
    /\ "register_evidence" \in FindingTools /\ RunTools \subseteq FindingTools \cup {Rag}
    /\ {"record_finding", "record_correlation", "update_finding", "none"}
         \cap (FindingTools \cup {Rag}) = {}
    /\ MaxToolCalls \in Nat /\ MaxFindings \in Nat /\ MaxCorrelations \in Nat
    /\ MaxUpdates \in Nat /\ MaxRefusals \in Nat

(* The reasons a record-writing tool gives when it refuses a call.          *)
Rejections == {"role_not_permitted", "evidence_not_found", "unknown_analyst",
               "disputed_self_marked", "invalid_audit_ref", "unknown_type",
               "unknown_case_id", "unknown_rule", "empty_correlations_for_non_R5",
               "unknown_finding", "invalid_state_transition", "unknown_correlation",
               "schema_validation_failed", "invalid_payload"}

(* What callers pass are records with the arguments the tools declare.      *)
ASSUME CallsAssumption ==
    /\ None \notin Rejections
    /\ \A call \in FindingCalls :
         DOMAIN call = {"analyst", "registered", "confidence", "refs", "host", "fits"}
    /\ \A call \in CorrelationCalls :
         DOMAIN call = {"type", "registered", "refs", "targets", "related", "a", "b",
                        "target", "strength", "analyst", "hosts", "fits"}

VARIABLES
    audit,              \* sift-guard-mcp.jsonl: [tool, status] per line
    findings,           \* findings.jsonl: drafts and updates
    correlations,       \* correlations.jsonl
    holder,             \* who is inside reserve_audit_line
    job,                \* what each caller is in the middle of
    crashes

vars == <<audit, findings, correlations, holder, job, crashes>>

Rules == {"R1", "R2", "R3", "R4", "R5", "R6"}
Writers == {"record_finding", "record_correlation", "update_finding"}

(* A line of a tool call: "ok" is the bare tool name; the other statuses    *)
(* are suffixes, of which "failed" stands for every :rejected_* and         *)
(* :runner_failed a tool writes when it has no result.                      *)
Outcomes == {"ok", "cached", "failed"}
Ok(t) == [tool |-> t, status |-> "ok"]
Line(t, s) == [tool |-> t, status |-> s]

Idle == [pc |-> "idle"]
ToLog(t, s) == [pc |-> "log", line |-> Line(t, s)]

(* Finding ids are uuid4s whose leading characters may agree: <<p, k>> is   *)
(* the k-th finding, <<p, 0>> is the bare prefix p, as a validator may      *)
(* write it.                                                                *)
Names == Prefixes \X Nat
IsFull(n) == n[2] # 0

Drafts == {i \in DOMAIN findings : findings[i].kind = "draft"}
KnownIds == {findings[i].id : i \in DOMAIN findings}
Of(id) == {i \in DOMAIN findings : findings[i].id = id}

StateOfDraft(id) == "DRAFT"

Updates == {i \in DOMAIN findings : findings[i].kind = "update"}

(* The lines of calls refused so far; their number is bounded,    *)
(* and so is that of findings and deaths of callers together.               *)
Drift == {"source_tool_corrected", "finding_id_prefix_resolved"}
Refused == {i \in DOMAIN audit : audit[i].tool \in Writers
                                  /\ audit[i].status \notin Drift \cup {"ok"}}
Rare == Cardinality(Drafts) + crashes < MaxFindings
Room == Cardinality(Refused) < MaxRefusals

(* read_finding_state: the last record of a finding carries its state.      *)
StateOf(id) == LET last == CHOOSE i \in Of(id) : \A j \in Of(id) : j <= i
               IN  findings[last].state

(* The gates of a call are tried in order; the first that fails names the   *)
(* rejection.                                                               *)
FirstFailing(gates) ==
    LET bad == {i \in DOMAIN gates : gates[i] # None}
    IN  IF bad = {} THEN None ELSE gates[CHOOSE i \in bad : \A j \in bad : i <= j]

Gate(fails, reason) == IF fails THEN reason ELSE None

----------------------------------------------------------------------------
(* record_finding                                                           *)

Cites(ref) == ref.line \in DOMAIN audit /\ audit[ref.line] = Ok(ref.tool)

(* The wrong tool at an existing line is corrected to the line's own tool,  *)
(* whatever the line's status, if that tool may be cited.                   *)
Correctable(ref) == ref.line \in DOMAIN audit /\ audit[ref.line].tool \in FindingTools
CorrectedNot(ref) == ref
Corrected(ref) == IF Cites(ref) THEN ref
                  ELSE [ref EXCEPT !.tool = audit[ref.line].tool]

FindingRefusal(c, call) == FirstFailing(
    << Gate(Role[c] # None /\ Role[c] # call.analyst, "role_not_permitted"),
       Gate(~ call.registered, "evidence_not_found"),
       Gate(call.analyst \notin Analysts, "unknown_analyst"),
       Gate(call.confidence = "DISPUTED", "disputed_self_marked"),
       Gate(\E r \in call.refs : ~ Cites(r) /\ ~ Correctable(r), "invalid_audit_ref") >>)

HostOf(c, call) == IF Host[c] # None THEN Host[c] ELSE call.host

BeginFinding(c, call) ==
    LET why == FindingRefusal(c, call)
        drifted == \E r \in call.refs : ~ Cites(r)
    IN  /\ job[c] = Idle
        /\ Room /\ Rare
        /\ job' = [job EXCEPT ![c] =
             IF why # None THEN ToLog("record_finding", why)
             ELSE [pc   |-> IF drifted THEN "correct" ELSE "draft",
                   call |-> [call EXCEPT !.refs = {Corrected(r) : r \in call.refs},
                                         !.host = HostOf(c, call)]]]
        /\ UNCHANGED <<audit, findings, correlations, holder, crashes>>

(* The constraints of the schema that arguments can break: lengths, and at  *)
(* least one reference.                                                     *)
DraftFits(call) == call.fits /\ call.refs # {}

LandFindingUnaudited(c, p) ==
    /\ job[c].pc = "draft"
    /\ findings' = Append(findings,
         [kind |-> "draft", id |-> <<p, Cardinality(Drafts) + 1>>, state |-> "DRAFT",
          host |-> job[c].call.host, refs |-> job[c].call.refs])
    /\ job' = [job EXCEPT ![c] = Idle]
    /\ UNCHANGED <<audit, correlations, holder, crashes>>

LandFinding(c, p) ==
    LET call == job[c].call IN
    /\ job[c].pc = "draft"
    /\ IF DraftFits(call)
       THEN /\ findings' = Append(findings,
                 [kind |-> "draft", id |-> <<p, Cardinality(Drafts) + 1>>,
                  state |-> "DRAFT", host |-> call.host, refs |-> call.refs])
            /\ job' = [job EXCEPT ![c] = ToLog("record_finding", "ok")]
       ELSE /\ job' = [job EXCEPT ![c] = ToLog("record_finding", "schema_validation_failed")]
            /\ UNCHANGED findings
    /\ UNCHANGED <<audit, correlations, holder, crashes>>

----------------------------------------------------------------------------
(* record_correlation                                                       *)

(* A prefix of exactly one known finding is that finding; any other name is *)
(* left as it is, for the schema to refuse.                                 *)
Resolve(n) ==
    LET fits == {id \in KnownIds : id[1] = n[1]}
    IN  IF n # None /\ ~ IsFull(n) /\ Cardinality(fits) = 1
        THEN CHOOSE id \in fits : TRUE ELSE n
ResolveAll(s) == IF s = None THEN None ELSE [i \in DOMAIN s |-> Resolve(s[i])]

Resolved(call) == [call EXCEPT !.targets = ResolveAll(call.targets),
                               !.related = ResolveAll(call.related),
                               !.a = Resolve(call.a), !.b = Resolve(call.b),
                               !.target = Resolve(call.target)]

(* The fields a validator may fill instead of the canonical ones.           *)
Pair(call) == call.a # None /\ call.b # None
Two(s) == s # None /\ Len(s) >= 2
TargetsOrPair(call) == IF call.targets = None /\ Pair(call) THEN <<call.a, call.b>>
                       ELSE call.targets

Contradicted(call) ==
    IF call.a = None /\ call.b = None /\ Two(call.targets)
    THEN <<call.targets[1], call.targets[2]>>
    ELSE IF Pair(call) THEN <<call.a, call.b>> ELSE None

Spanned(call) == LET t == TargetsOrPair(call) IN
    IF t = None /\ Two(call.related) THEN call.related ELSE t

FollowedUp(call) ==
    CASE call.related # None                                  -> call.related
      [] call.related = None /\ call.targets \notin {None, <<>>} -> call.targets
      [] call.related = None /\ call.targets \in {None, <<>>}  ->
           IF call.target # None THEN <<call.target>>
           ELSE IF Pair(call) THEN <<call.a, call.b>>
           ELSE IF call.a # None THEN <<call.a>> ELSE None

(* _build_payload: the findings the correlation is about, in the field its  *)
(* type keeps them in; None if a field the type requires is missing.        *)
About(call) ==
    CASE call.type = "corroborates" -> IF call.strength = None THEN None
                                       ELSE TargetsOrPair(call)
      [] call.type = "contradicts"  -> Contradicted(call)
      [] call.type \in {"strengthens", "weakens"} ->
           IF call.target = None THEN None ELSE <<call.target>>
      [] call.type = "request_followup" ->
           IF call.analyst = None THEN None ELSE FollowedUp(call)
      [] call.type = "cross_host" -> IF call.hosts = None THEN None ELSE Spanned(call)

Types == {"corroborates", "contradicts", "strengthens", "weakens",
          "request_followup", "cross_host"}

(* What the schema of the type checks: full ids, list lengths, two hosts.   *)
PayloadFits(call) ==
    LET about == About(call) IN
    /\ about # None /\ about # <<>>
    /\ \A i \in DOMAIN about : IsFull(about[i])
    /\ call.type = "cross_host" => Two(about) /\ Cardinality(call.hosts) >= 2
    /\ call.refs # {} /\ call.fits

CorrelationRefusal(c, call) == FirstFailing(
    << Gate(Role[c] # None /\ Role[c] # "validator", "role_not_permitted"),
       Gate(call.type \notin Types, "unknown_type"),
       Gate(~ call.registered, "unknown_case_id"),
       Gate(\E r \in call.refs : ~ Cites(r), "invalid_audit_ref") >>)

BeginCorrelation(c, call) ==
    LET why == CorrelationRefusal(c, call)
        full == Resolved(call)
    IN  /\ job[c] = Idle
        /\ Room /\ Len(correlations) < MaxCorrelations
        /\ job' = [job EXCEPT ![c] =
             IF why # None THEN ToLog("record_correlation", why)
             ELSE [pc |-> IF full # call THEN "resolved" ELSE "reserve",
                   then |-> "correlate", call |-> full]]
        /\ UNCHANGED <<audit, findings, correlations, holder, crashes>>

LandCorrelationUnchecked(c) ==
    LET call == job[c].call
        ids == {About(call)[i] : i \in DOMAIN About(call)}
    IN  /\ job[c].pc = "correlate" /\ holder = c /\ PayloadFits(call)
        /\ correlations' = Append(correlations,
             [type |-> call.type, ids |-> ids, refs |-> call.refs,
              hosts |-> call.hosts, line |-> Len(audit) + 1])
        /\ job' = [job EXCEPT ![c] = ToLog("record_correlation", "ok")]
        /\ UNCHANGED <<audit, findings, holder, crashes>>

LandCorrelation(c) ==
    LET call == job[c].call
        ids == {About(call)[i] : i \in DOMAIN About(call)}
    IN  /\ job[c].pc = "correlate" /\ holder = c
        /\ IF ~ PayloadFits(call)
           THEN /\ job' = [job EXCEPT ![c] = ToLog("record_correlation", "invalid_payload")]
                /\ UNCHANGED correlations
           ELSE IF ~ (ids \subseteq KnownIds)
           THEN /\ job' = [job EXCEPT ![c] = ToLog("record_correlation", "unknown_finding")]
                /\ UNCHANGED correlations
           ELSE /\ correlations' = Append(correlations,
                     [type |-> call.type, ids |-> ids, refs |-> call.refs,
                      hosts |-> call.hosts, line |-> Len(audit) + 1])
                /\ job' = [job EXCEPT ![c] = ToLog("record_correlation", "ok")]
        /\ UNCHANGED <<audit, findings, holder, crashes>>

----------------------------------------------------------------------------
(* update_finding                                                           *)

ValidTransitionBack(from, to) == to \in {"DRAFT", "CONFIRMED"}

ValidTransition(from, to) ==
    \/ from = "DRAFT" /\ to \in {"DRAFT", "CONFIRMED"}
    \/ from = "CONFIRMED" /\ to = "CONFIRMED"

(* Only R5 may cite no correlation.                                         *)
Unsupported(call) == call.driving = {} /\ call.rule # "R5"

UpdateRefusal(c, call) == FirstFailing(
    << Gate(Role[c] # None /\ Role[c] # "orchestrator", "role_not_permitted"),
       Gate(call.rule \notin Rules, "unknown_rule"),
       Gate(Unsupported(call), "empty_correlations_for_non_R5"),
       Gate(Of(call.id) = {}, "unknown_finding"),
       Gate(Of(call.id) # {} /\ ~ ValidTransition(StateOf(call.id), call.to),
            "invalid_state_transition"),
       Gate(~ (call.driving \subseteq DOMAIN correlations), "unknown_correlation") >>)

BeginUpdate(c, call) ==
    LET why == UpdateRefusal(c, call) IN
    /\ job[c] = Idle
    /\ Room /\ Cardinality(Updates) < MaxUpdates
    /\ job' = [job EXCEPT ![c] =
         IF why # None THEN ToLog("update_finding", why)
         ELSE [pc |-> "reserve", then |-> "update", call |-> call,
               from |-> StateOf(call.id)]]
    /\ UNCHANGED <<audit, findings, correlations, holder, crashes>>

(* The record carries the state read before the reservation.                *)
LandUpdate(c) ==
    LET call == job[c].call IN
    /\ job[c].pc = "update" /\ holder = c
    /\ IF call.fits
       THEN /\ findings' = Append(findings,
                 [kind |-> "update", id |-> call.id, state |-> call.to,
                  from |-> job[c].from, rule |-> call.rule,
                  driving |-> call.driving, line |-> Len(audit) + 1])
            /\ job' = [job EXCEPT ![c] = ToLog("update_finding", "ok")]
       ELSE /\ job' = [job EXCEPT ![c] = ToLog("update_finding", "schema_validation_failed")]
            /\ UNCHANGED findings
    /\ UNCHANGED <<audit, correlations, holder, crashes>>

----------------------------------------------------------------------------
(* The audit log, shared with the tools that produce what records cite.     *)

MayAppend(c) == holder \in {None, c}

ToolCall(c, t, s) ==
    /\ job[c] = Idle /\ MayAppend(c)
    /\ Cardinality({i \in DOMAIN audit : audit[i].tool \notin Writers}) <= MaxToolCalls
    /\ audit' = Append(audit, Line(t, s))
    /\ UNCHANGED <<findings, correlations, holder, job, crashes>>

(* The telemetry line of a corrected reference or a resolved prefix.        *)
LogDrift(c) ==
    /\ job[c].pc \in {"correct", "resolved"} /\ MayAppend(c)
    /\ audit' = Append(audit,
         IF job[c].pc = "correct" THEN Line("record_finding", "source_tool_corrected")
         ELSE Line("record_correlation", "finding_id_prefix_resolved"))
    /\ job' = [job EXCEPT ![c].pc = IF @ = "correct" THEN "draft" ELSE "reserve"]
    /\ UNCHANGED <<findings, correlations, holder, crashes>>

(* reserve_audit_line: the lock is held until the call's own line is there. *)
ReserveLine(c) ==
    /\ job[c].pc = "reserve" /\ holder = None
    /\ holder' = c
    /\ job' = [job EXCEPT ![c].pc = job[c].then]
    /\ UNCHANGED <<audit, findings, correlations, crashes>>

(* The last line of a call, accepted or refused, ends it.                   *)
LogOutcome(c) ==
    /\ job[c].pc = "log" /\ MayAppend(c)
    /\ audit' = Append(audit, job[c].line)
    /\ holder' = None
    /\ job' = [job EXCEPT ![c] = Idle]
    /\ UNCHANGED <<findings, correlations, crashes>>

(* The server of a dispatch dies with it; the kernel releases its lock.     *)
Crash(c) ==
    /\ job[c] # Idle /\ Rare
    /\ crashes' = crashes + 1
    /\ job' = [job EXCEPT ![c] = Idle]
    /\ holder' = IF holder = c THEN None ELSE holder
    /\ UNCHANGED <<audit, findings, correlations>>

Init ==
    /\ audit = << Ok("register_evidence") >>
    /\ findings = <<>> /\ correlations = <<>>
    /\ holder = None
    /\ job = [c \in Callers |-> Idle]
    /\ crashes = 0

Next == \E c \in Callers :
    \/ \E t \in RunTools, s \in Outcomes : ToolCall(c, t, s)
    \/ \E call \in FindingCalls : BeginFinding(c, call)
    \/ \E call \in CorrelationCalls : BeginCorrelation(c, call)
    \/ \E call \in UpdateCalls : BeginUpdate(c, call)
    \/ \E p \in Prefixes : LandFinding(c, p)
    \/ LandCorrelation(c)
    \/ LandUpdate(c)
    \/ LogDrift(c)
    \/ ReserveLine(c)
    \/ LogOutcome(c)
    \/ Crash(c)

Spec == Init /\ [][Next]_vars

----------------------------------------------------------------------------
(* Properties                                                               *)

Inside == {"correlate", "update", "log"}

(* The logs and jobs have their shapes, and whoever holds the audit lock is *)
(* between its reservation and its own last line, which no other call is    *)
(* inside of meanwhile (audit.py, reserve_audit_line).                      *)
TypeOK ==
    /\ audit # <<>> /\ \A i \in DOMAIN audit : audit[i].tool \in FindingTools \cup {Rag} \cup Writers
    /\ \A i \in DOMAIN findings : findings[i].id \in Names /\ IsFull(findings[i].id)
    /\ Cardinality(Drafts) + Cardinality(Updates) = Len(findings)
    /\ \A k \in DOMAIN correlations : correlations[k].type \in Types
    /\ holder \in Callers \cup {None}
    /\ holder # None => job[holder].pc \in Inside
    /\ \A c \in Callers : job[c].pc \in {"correlate", "update"} => holder = c
    /\ crashes \in 0 .. MaxFindings

(* The tool a finding names at an audit line is the tool of that line, also *)
(* where record_finding rewrote what the analyst had claimed, and a finding *)
(* never rests on a line of the record-writing tools.  A correlation, which *)
(* nothing is rewritten for, rests on lines of completed tool calls only.   *)
CitationsHold ==
    /\ \A i \in Drafts : \A r \in findings[i].refs :
          /\ r.line \in DOMAIN audit /\ audit[r.line].tool = r.tool
          /\ r.tool \in FindingTools \/ Cites(r)
    /\ \A k \in DOMAIN correlations : \A r \in correlations[k].refs : Cites(r)

(* Whatever lands between the gates of a call and its record, every finding *)
(* a correlation is about, every finding an update changes and every        *)
(* correlation that drove it are on their logs.                             *)
RecordsResolve ==
    /\ \A k \in DOMAIN correlations :
         correlations[k].ids \subseteq {findings[i].id : i \in Drafts}
    /\ \A i \in Updates :
         /\ \E j \in Drafts : j < i /\ findings[j].id = findings[i].id
         /\ findings[i].driving \subseteq DOMAIN correlations
         /\ findings[i].driving = {} => findings[i].rule = "R5"

(* A confirmed finding stays confirmed ("once a finding is CONFIRMED the    *)
(* orchestrator does not un-confirm it", findings.py:583): no later record  *)
(* of it says otherwise.                                                    *)
ConfirmedStays ==
    \A i, j \in DOMAIN findings :
        i < j /\ findings[i].id = findings[j].id /\ findings[i].state = "CONFIRMED"
          => findings[j].state = "CONFIRMED"

(* The previous state an update carries is that of the record before it on  *)
(* the log, although it was read before the lock was taken.                 *)
PredecessorNamed ==
    \A j \in Updates : LET before == {i \in Of(findings[j].id) : i < j} IN
        \A i \in before : (\A k \in before : k <= i) => findings[j].from = findings[i].state

(* Every record has its success line on the audit log or its caller is      *)
(* about to write it, but for the callers that died in between; and no      *)
(* success line is without its record.                                      *)
AuditAccounts ==
    LET records(w) == CASE w = "record_finding"     -> Cardinality(Drafts)
                        [] w = "update_finding"     -> Cardinality(Updates)
                        [] w = "record_correlation" -> Len(correlations)
        lines(w)   == Cardinality({i \in DOMAIN audit : audit[i] = Ok(w)})
        pending(w) == Cardinality({c \in Callers : job[c] = ToLog(w, "ok")})
    IN  \A w \in Writers : \E lost \in 0 .. crashes :
            records(w) = lines(w) + pending(w) + lost

(* "audit_line is the line number where the source tool's success entry was *)
(* logged ... so the finding cannot point at a tool call that didn't        *)
(* actually run" (schemas.py, EvidenceRef).                                 *)
FindingsCiteResults ==
    \A i \in Drafts : \A r \in findings[i].refs : audit[r.line].status # "failed"
=============================================================================
