---------------------------- MODULE AnalyzePhase ----------------------------
(* The ANALYZE step of a multi-host run (orchestrator/loop.py) with the     *)
(* analysts it dispatches (orchestrator/dispatch.py) and the console that   *)
(* follows the audit log meanwhile (sift_guard/display.py).  Pool threads   *)
(* count findings, wait for their analysts and add up what they report; the *)
(* analysts' MCP servers append to findings.jsonl and to the audit log; the *)
(* tail thread polls the audit log and looks findings up.  The readers take *)
(* no lock, so each may meet the half of a line that is being written.      *)
EXTENDS Integers, Sequences, FiniteSets, SequencesExt

CONSTANTS
    NumJobs,                  \* jobs: (host, evidence file, analyst), in order
    Agent, Host,              \* Agent[j], Host[j]
    Workers,                  \* parallel_max_workers
    MaxCalls,                 \* bound: tool calls of the analysts in all
    None

Jobs == 1 .. NumJobs

ASSUME JobsAssumption   == NumJobs \in Nat \ {0} /\ DOMAIN Agent = Jobs /\ DOMAIN Host = Jobs
ASSUME BoundsAssumption == Workers \in Nat \ {0} /\ MaxCalls \in Nat /\ None \notin Int

VARIABLES
    parallel,   \* whether jobs go to the pool
    main,       \* the thread that runs the loop
    job,        \* job[j]: how far run_one_job is with job j
    pre,        \* pre[j]: findings counted before the dispatch
    announced,  \* announced[j]: findings_added of analyze_done, or None
    clean,      \* the jobs announced as succeeded
    results, tokens,   \* state.dispatch_results (by job), state.tokens_uncached
    stateLock, seen,   \* holder of state_lock; the total it has read
    added,      \* state.analyst_finding_ids_added, or None
    analyst,    \* analyst[j]: none, live, killed or over
    call,       \* call[j]: the tool call its MCP server is serving
    uses,       \* uses[j]: tool calls it has issued
    writer,     \* the analyst whose server holds the locks of the chains
    findings,   \* findings.jsonl: the job each whole line is from
    audit,      \* the audit log: a line number of findings, or 0 for another tool
    half,       \* the file that ends in half a line, or None
    tail, from, offset, batch, shown, dropped, stop  \* the display's tail thread

jobVars  == <<job, pre, announced, clean, results, tokens, stateLock, seen>>
fileVars == <<call, uses, writer, findings, audit, half>>
tailVars == <<tail, from, offset, batch, shown, dropped>>
vars == <<parallel, main, jobVars, added, analyst, fileVars, tailVars, stop>>

----------------------------------------------------------------------------
(* The analysts and their servers                                           *)

Run(j) == analyst' = [analyst EXCEPT ![j] = "live"]
Calling(j, c) == call' = [call EXCEPT ![j] = c]

(* A tool call of a live analyst: record_finding appends to both files      *)
(* under the audit log's lock, any other tool to the audit log only.        *)
BeginCall(j) ==
    /\ analyst[j] = "live" /\ call[j] = "idle" /\ writer = None
    /\ \E c \in {"finding", "line"} :
          /\ Calling(j, c)
          /\ half' = IF c = "finding" THEN "findings" ELSE "audit"
    /\ FoldFunction(+, 0, uses) < MaxCalls
    /\ uses' = [uses EXCEPT ![j] = @ + 1]
    /\ writer' = j
    /\ UNCHANGED <<parallel, main, jobVars, added, analyst, findings, audit, tailVars, stop>>

(* The finding is whole, and its audit line begun (no reader can tell when). *)
FindingWhole(j) ==
    /\ call[j] = "finding"
    /\ findings' = Append(findings, j) /\ half' = "audit"
    /\ Calling(j, "found")
    /\ UNCHANGED <<parallel, main, jobVars, added, analyst, uses, writer, audit, tailVars, stop>>

AuditWhole(j) ==
    /\ call[j] \in {"line", "found"}
    /\ audit' = Append(audit, IF call[j] = "found" THEN Len(findings) ELSE 0)
    /\ half' = None /\ writer' = None
    /\ Calling(j, "idle")
    /\ UNCHANGED <<parallel, main, jobVars, added, analyst, uses, findings, tailVars, stop>>

(* The analyst ends by itself between two calls, or subprocess.run kills it *)
(* at its timeout; its server still finishes the call it is serving.        *)
Finish(j) ==
    /\ analyst[j] = "live" /\ call[j] = "idle"
    /\ analyst' = [analyst EXCEPT ![j] = "over"]
    /\ UNCHANGED <<parallel, main, jobVars, added, fileVars, tailVars, stop>>

Timeout(j) ==
    /\ analyst[j] = "live"
    /\ analyst' = [analyst EXCEPT ![j] = "killed"]
    /\ UNCHANGED <<parallel, main, jobVars, added, fileVars, tailVars, stop>>

(* DispatchResult.succeeded: attached, at least one tool call, and an end   *)
(* of its own; a killed one reports no attached server.                     *)
Succeeded(j) == analyst[j] = "over" /\ uses[j] > 0

----------------------------------------------------------------------------
(* run_one_job                                                              *)

Goto(j, where) == job' = [job EXCEPT ![j] = where]
Busy == {j \in Jobs : job[j] \notin {"queued", "done", "raised"}}

(* _count_draft_finding_ids_for: the findings of this analyst on this host. *)
CountAll(j) == Len(findings)
Count(j) ==
    Cardinality({n \in DOMAIN findings :
                    Agent[findings[n]] = Agent[j] /\ Host[findings[n]] = Host[j]})

(* Half a line does not parse: _read_findings_chain raises out of the job.  *)
Raise(j) == half = "findings" /\ Goto(j, "raised")
Counted(j) == half # "findings" /\ pre' = [pre EXCEPT ![j] = Count(j)]

(* The pool takes jobs in order, up to Workers at a time, and takes the     *)
(* remaining ones also after one has raised; without a pool the first       *)
(* exception ends the step.  A job counts the findings, then dispatches.    *)
Start(j) ==
    /\ main = "running" /\ job[j] = "queued" /\ \A k \in 1 .. j - 1 : job[k] # "queued"
    /\ IF parallel THEN Cardinality(Busy) < Workers
                   ELSE \A k \in 1 .. j - 1 : job[k] = "done"
    /\ \/ Raise(j) /\ UNCHANGED <<pre, analyst>>
       \/ Counted(j) /\ Goto(j, "waiting") /\ Run(j)
    /\ UNCHANGED <<parallel, main, announced, clean, results, tokens, stateLock, seen,
                   added, fileVars, tailVars, stop>>

Recording(j) ==
    /\ job[j] = "waiting" /\ analyst[j] \in {"killed", "over"}
    /\ Goto(j, "adding")
    /\ results' = results \cup {j} /\ seen' = [seen EXCEPT ![j] = tokens]
    /\ UNCHANGED <<parallel, main, pre, announced, clean, tokens, added, analyst,
                   fileVars, tailVars, stop>>

RecordUnlocked(j) == Recording(j) /\ UNCHANGED stateLock

(* Under state_lock: the result is kept and its tokens (one unit each) are  *)
(* added to the total that was read.                                        *)
Record(j) == Recording(j) /\ stateLock = None /\ stateLock' = j

AddTokens(j) ==
    /\ job[j] = "adding"
    /\ tokens' = seen[j] + 1 /\ stateLock' = None /\ seen' = [seen EXCEPT ![j] = 0]
    /\ Goto(j, "recount")
    /\ UNCHANGED <<parallel, main, pre, announced, clean, results, added, analyst,
                   fileVars, tailVars, stop>>

Announce(j) ==
    /\ job[j] = "recount"
    /\ \/ Raise(j) /\ UNCHANGED <<pre, announced, clean>>
       \/ /\ half # "findings"
          /\ announced' = [announced EXCEPT ![j] = Count(j) - pre[j]]
          /\ pre' = [pre EXCEPT ![j] = 0]
          /\ clean' = clean \cup {k \in {j} : Succeeded(k)}
          /\ Goto(j, "done")
    /\ UNCHANGED <<parallel, main, results, tokens, stateLock, seen, added, analyst,
                   fileVars, tailVars, stop>>

----------------------------------------------------------------------------
(* The thread of the loop                                                   *)

(* start_audit_tail, then the step reads the findings it starts from.       *)
Begin ==
    /\ main = "start"
    /\ main' = "running"
    /\ tail' = "poll"
    /\ from' = Len(audit) /\ offset' = 2 * Len(audit)
    /\ UNCHANGED <<parallel, jobVars, added, analyst, fileVars, batch, shown, dropped, stop>>

JoinedDone == \A j \in Jobs : job[j] = "done"

(* The pool is left when each job has ended; the sequential loop is left at *)
(* the first exception.                                                     *)
Joined ==
    \/ \A j \in Jobs : job[j] \in {"done", "raised"}
    \/ ~ parallel /\ \E j \in Jobs : job[j] = "raised"

(* The exception of a job, or of reading the findings again, ends the run.  *)
End ==
    /\ main = "running" /\ Joined
    /\ IF half = "findings" \/ \E j \in Jobs : job[j] = "raised"
       THEN main' = "raised" /\ UNCHANGED added
       ELSE main' = "returned" /\ added' = Len(findings)
    /\ UNCHANGED <<parallel, jobVars, analyst, fileVars, tailVars, stop>>

(* stop_audit_tail sets the event and waits for the thread, two seconds at  *)
(* most.                                                                    *)
Stop ==
    /\ main \in {"returned", "raised"} /\ ~ stop
    /\ stop' = TRUE
    /\ UNCHANGED <<parallel, main, jobVars, added, analyst, fileVars, tailVars>>

----------------------------------------------------------------------------
(* The tail thread; a line is two units long, half of one is one unit       *)

Size == 2 * Len(audit) + (IF half = "audit" THEN 1 ELSE 0)
Complete == {n \in DOMAIN audit : offset < 2 * n}

(* The lines that begin before the offset: the rest of one does not parse.  *)
Before == (offset + 1) \div 2

Take(until) ==
    /\ tail = "poll" /\ ~ stop /\ Size > offset
    /\ offset' = until
    /\ batch' = [i \in 1 .. Len(audit) - Before |-> Before + i]
    /\ UNCHANGED <<parallel, main, jobVars, added, analyst, fileVars, tail, from, shown, dropped, stop>>

PollOverPartial == batch = <<>> /\ Take(Size)

(* What was written since, up to the last newline.                          *)
Poll == batch = <<>> /\ Complete # {} /\ Take(2 * Len(audit))

(* A finding is looked up in findings.jsonl by its hash.                    *)
Found(n) == audit[n] \in DOMAIN findings
Formatted(n) == [line |-> n, found |-> audit[n] = 0 \/ Found(n)]

(* Half a line there may end within a character: that raises out of the     *)
(* look-up and fails the whole batch.                                       *)
Render ==
    /\ batch # <<>>
    /\ LET n == Head(batch) IN
       \/ /\ shown' = Append(shown, Formatted(n))
          /\ batch' = Tail(batch)
          /\ UNCHANGED dropped
       \/ /\ audit[n] # 0 /\ half = "findings"
          /\ dropped' = dropped \cup ToSet(batch)
          /\ batch' = <<>>
          /\ UNCHANGED shown
    /\ UNCHANGED <<parallel, main, jobVars, added, analyst, fileVars, tail, from, offset, stop>>

TailEnds ==
    /\ tail = "poll" /\ stop /\ batch = <<>>
    /\ tail' = "ended"
    /\ UNCHANGED <<parallel, main, jobVars, added, analyst, fileVars, from, offset, batch, shown,
                   dropped, stop>>

----------------------------------------------------------------------------
Init ==
    /\ parallel \in BOOLEAN
    /\ main = "start"
    /\ job = [j \in Jobs |-> "queued"] /\ pre = [j \in Jobs |-> 0]
    /\ announced = [j \in Jobs |-> None] /\ clean = {}
    /\ results = {} /\ tokens = 0 /\ stateLock = None /\ seen = [j \in Jobs |-> 0]
    /\ added = None
    /\ analyst = [j \in Jobs |-> "none"]
    /\ call = [j \in Jobs |-> "idle"] /\ uses = [j \in Jobs |-> 0] /\ writer = None
    /\ findings = <<>> /\ audit = <<0>> /\ half = None
    /\ tail = "off" /\ from = 0 /\ offset = 0 /\ batch = <<>> /\ shown = <<>> /\ dropped = {}
    /\ stop = FALSE

Server(j)  == FindingWhole(j) \/ AuditWhole(j)
Worker(j)  == Start(j) \/ Record(j) \/ AddTokens(j) \/ Announce(j)
Loop       == Begin \/ End \/ Stop
TailThread == Poll \/ Render \/ TailEnds

Next ==
    \/ \E j \in Jobs : BeginCall(j) \/ Server(j) \/ Finish(j) \/ Timeout(j) \/ Worker(j)
    \/ Loop \/ TailThread

(* Threads and servers that can go on do; a dispatch has a timeout.         *)
Fairness ==
    /\ WF_vars(Loop) /\ WF_vars(TailThread)
    /\ \A j \in Jobs : WF_vars(Server(j)) /\ WF_vars(Timeout(j)) /\ WF_vars(Worker(j))

Spec == Init /\ [][Next]_vars /\ Fairness

----------------------------------------------------------------------------
(* Properties                                                               *)

TypeOK ==
    /\ parallel \in BOOLEAN /\ stop \in BOOLEAN
    /\ main \in {"start", "running", "returned", "raised"}
    /\ job \in [Jobs -> {"queued", "waiting", "adding", "recount", "done", "raised"}]
    /\ pre \in [Jobs -> Nat] /\ announced \in [Jobs -> Nat \cup {None}]
    /\ clean \subseteq Jobs /\ results \subseteq Jobs /\ tokens \in Nat
    /\ stateLock \in Jobs \cup {None} /\ seen \in [Jobs -> Nat] /\ added \in Nat \cup {None}
    /\ analyst \in [Jobs -> {"none", "live", "killed", "over"}]
    /\ call \in [Jobs -> {"idle", "finding", "line", "found"}]
    /\ uses \in [Jobs -> Nat] /\ writer \in Jobs \cup {None}
    /\ findings \in Seq(Jobs) /\ audit \in Seq(0 .. Len(findings))
    /\ half \in {"findings", "audit", None}
    /\ tail \in {"off", "poll", "ended"} /\ from \in Nat /\ offset \in Nat
    /\ batch \in Seq(DOMAIN audit) /\ shown \in Seq([line : DOMAIN audit, found : BOOLEAN])
    /\ dropped \subseteq DOMAIN audit

(* When the step has returned, the iteration's record is right whatever     *)
(* order the threads ran in: one result and one unit of tokens per job, and *)
(* as many findings as its analysts had recorded, late calls of a killed    *)
(* one counted with them (loop.py:978, 1026).                               *)
TotalsExact ==
    main = "returned" =>
       /\ results = Jobs /\ tokens = NumJobs
       /\ \A j \in Jobs : announced[j] # None
       /\ \A j \in Jobs : analyst[j] = "over" =>
             Cardinality({n \in 1 .. added : findings[n] = j})
                = Cardinality({n \in DOMAIN findings : findings[n] = j})

(* What the console says of one dispatch (loop.py:940): an analyst that has *)
(* its host to itself is announced with exactly the findings it recorded,   *)
(* not with those of its siblings; if it was killed, with no more.  None is *)
(* announced as succeeded that left nothing in the audit log.               *)
Alone(j) == \A k \in Jobs \ {j} : <<Agent[k], Host[k]>> # <<Agent[j], Host[j]>>
Recorded(j) == Cardinality({n \in DOMAIN findings : findings[n] = j})
AnnouncedAreOwn ==
    \A j \in Jobs : announced[j] # None =>
       /\ Alone(j) => announced[j] <= Recorded(j)
       /\ Alone(j) /\ analyst[j] = "over" => announced[j] = Recorded(j)
       /\ j \in clean => Recorded(j) > 0 \/ \E n \in DOMAIN audit : n > 1 /\ audit[n] = 0

(* The console shows the new lines of the audit log in order, each once and *)
(* none in part, with the finding each line is about; a line it has read    *)
(* past is shown, about to be, or fell to a failed look-up (display.py:311).*)
TailFaithful ==
    /\ \A i, k \in DOMAIN shown : i < k => shown[i].line < shown[k].line
    /\ \A i \in DOMAIN shown : shown[i].found
    /\ tail # "off" =>
          {n \in DOMAIN audit : n > from /\ 2 * n <= offset}
             = {shown[i].line : i \in DOMAIN shown} \cup ToSet(batch) \cup dropped
    /\ tail # "off" => \A n \in DOMAIN audit : ~ (2 * (n - 1) < offset /\ offset < 2 * n)

(* The step ends, by returning or by raising, whatever its analysts do and  *)
(* whichever read fails, and the tail thread then ends too (loop.py:1013,   *)
(* display.py:303).                                                         *)
EveryoneEnds == <>(tail = "ended")
=============================================================================
