------------------------------ MODULE ChainLog ------------------------------
(***************************************************************************)
(* The hash-chained JSONL logs of a case directory and their writers       *)
(* (server/_chain_lock.py, server/audit.py, server/findings_log.py,        *)
(* server/correlations_log.py, server/extractions_log.py,                  *)
(* orchestrator/iterations_log.py).                                        *)
(*                                                                         *)
(* A thread serves one tool call at a time.  A call appends a fixed list   *)
(* of records, each to one chain; some calls first reserve their audit     *)
(* line, that is, hold the audit lock around all their appends.  Threads   *)
(* live in processes: a parallel dispatch starts one MCP server per        *)
(* analyst, so writers of one chain share nothing but the file and the     *)
(* flock on its sidecar.                                                   *)
(***************************************************************************)
EXTENDS Naturals, Sequences, FiniteSets

CONSTANTS
  Threads,      \* threads that serve tool calls
  Procs,        \* the processes they run in
  ProcOf,       \* ProcOf[t]: the process of thread t
  Tools,        \* the kinds of call made (a subset of DOMAIN Appends)
  NoOne,        \* "this lock is free"
  MaxCalls,     \* bound: calls made in all
  MaxFaults     \* bound: crashes and failed writes in all

Chains == {"audit", "findings", "correlations", "extractions", "iterations"}

\* The chains a successful call of each kind appends to, in code order.
\* record_finding releases the findings lock before its audit line;
\* corrected_finding is record_finding after an auto-corrected source_tool.
Appends ==
  [audited_call       |-> <<"audit">>,
   record_finding     |-> <<"findings", "audit">>,
   corrected_finding  |-> <<"audit", "findings", "audit">>,
   update_finding     |-> <<"findings", "audit">>,
   record_correlation |-> <<"correlations", "audit">>,
   fresh_extraction   |-> <<"extractions", "audit">>,
   query_records      |-> <<"audit">>,
   iteration_entry    |-> <<"iterations">>]

\* The calls that run inside `with reserve_audit_line(...)`.
Reserving ==
  {"update_finding", "record_correlation", "fresh_extraction", "query_records"}

ASSUME NoOneAssumption  == NoOne \notin Threads
ASSUME ProcAssumption   == ProcOf \in [Threads -> Procs]
ASSUME ToolsAssumption  == Tools \subseteq DOMAIN Appends
ASSUME BoundsAssumption == MaxCalls \in Nat /\ MaxFaults \in Nat

Genesis == 0

VARIABLES
  log,       \* log[c]: the records written to chain c
  tail,      \* tail[c]: last line "whole", "bare" (no newline), or "cut"
  lost,      \* lost[c]: records of log[c] that sit on an unparseable line
  lock,      \* lock[c]: the thread that holds the flock on <c>.lock
  held,      \* held[t][c]: the thread-local re-entrancy ledger
  phase,     \* phase[t]: what thread t does next
  tool,      \* tool[t]: the call it serves
  step,      \* step[t]: index in Appends[tool[t]] of the current append
  resv,      \* resv[t]: the audit line it reserved, 0 for none
  got,       \* got[t]: the chain state it read (next line, previous hash)
  call,      \* call[t]: the number of its call, 0 when idle
  ncalls,    \* calls made so far
  digests,   \* records written so far: digests are never repeated
  answers,   \* history: what the calls that returned successfully reported
  faults     \* crashes and failed writes so far

fileVars   == <<log, tail, lost, digests>>
lockVars   == <<lock, held>>
threadVars == <<phase, tool, step, resv, got, call>>
vars == <<fileVars, lockVars, threadVars, ncalls, answers, faults>>

Phases == {"idle", "reserve", "peek", "acquire", "read", "write", "flush",
           "release", "unreserve"}

LastHash(records) ==
  IF records = <<>> THEN Genesis ELSE records[Len(records)].hash

\* audit.py takes the counter from the last record, the others count lines.
NextLine(c) ==
  IF log[c] = <<>> THEN 1
  ELSE IF c = "audit" THEN log[c][Len(log[c])].line + 1
  ELSE Len(log[c]) + 1

\* Mutant: the reader of the chain head skips a line it cannot parse.
ParsesAlways(c) == c \in Chains

\* json.loads of the last non-blank line succeeds; the newline is not needed.
Parses(c) == tail[c] # "cut"

Cur(t) == Appends[tool[t]][step[t]]

\* Mutant: the call returns after its first append.
IsFirst(t) == step[t] = 1
IsLast(t) == step[t] = Len(Appends[tool[t]])

-----------------------------------------------------------------------------
(* chain_write_lock: flock by the outermost block, a count by nested ones. *)

\* Mutants of Enter: no flock at all; no re-entrancy.
EnterUnlocked(t, c) ==
  /\ held' = [held EXCEPT ![t][c] = @ + 1]
  /\ UNCHANGED lock

EnterNotReentrant(t, c) ==
  /\ held' = [held EXCEPT ![t][c] = @ + 1]
  /\ lock[c] = NoOne /\ lock' = [lock EXCEPT ![c] = t]

Enter(t, c) ==
  /\ held' = [held EXCEPT ![t][c] = @ + 1]
  /\ \/ held[t][c] > 0 /\ UNCHANGED lock
     \/ held[t][c] = 0 /\ lock[c] = NoOne /\ lock' = [lock EXCEPT ![c] = t]

Leave(t, c) ==
  /\ held' = [held EXCEPT ![t][c] = @ - 1]
  /\ lock' = IF held[t][c] > 1 THEN lock ELSE [lock EXCEPT ![c] = NoOne]

\* Threads ts stop what they do: an exception leaves every `with` block, a
\* dead process loses its flocks and its ledgers.
Stop(ts) ==
  /\ lock'  = [c \in Chains |-> IF lock[c] \in ts THEN NoOne ELSE lock[c]]
  /\ held'  = [t \in Threads |-> IF t \in ts THEN [c \in Chains |-> 0] ELSE held[t]]
  /\ phase' = [t \in Threads |-> IF t \in ts THEN "idle" ELSE phase[t]]
  /\ resv'  = [t \in Threads |-> IF t \in ts THEN 0 ELSE resv[t]]
  /\ call'  = [t \in Threads |-> IF t \in ts THEN 0 ELSE call[t]]
  /\ UNCHANGED <<tool, step, got>>

-----------------------------------------------------------------------------
Init ==
  /\ log  = [c \in Chains |-> <<>>]
  /\ tail = [c \in Chains |-> "whole"]
  /\ lost = [c \in Chains |-> 0]
  /\ lock = [c \in Chains |-> NoOne]
  /\ held = [t \in Threads |-> [c \in Chains |-> 0]]
  /\ phase = [t \in Threads |-> "idle"]
  /\ tool  = [t \in Threads |-> "audited_call"]
  /\ step  = [t \in Threads |-> 1]
  /\ resv  = [t \in Threads |-> 0]
  /\ got   = [t \in Threads |-> [line |-> 1, prev |-> Genesis]]
  /\ call  = [t \in Threads |-> 0]
  /\ ncalls = 0
  /\ digests = 0
  /\ answers = {}
  /\ faults = 0

\* A tool call has passed its checks and starts writing.
Call(t) ==
  /\ phase[t] = "idle"
  /\ ncalls < MaxCalls
  /\ \E k \in Tools :
       /\ tool'  = [tool EXCEPT ![t] = k]
       /\ phase' = [phase EXCEPT ![t] = IF k \in Reserving THEN "reserve" ELSE "acquire"]
  /\ step' = [step EXCEPT ![t] = 1]
  /\ ncalls' = ncalls + 1
  /\ call' = [call EXCEPT ![t] = ncalls + 1]
  /\ UNCHANGED <<fileVars, lockVars, resv, got, answers, faults>>

\* reserve_audit_line: take the audit lock ...
Reserve(t) ==
  /\ phase[t] = "reserve"
  /\ Enter(t, "audit")
  /\ phase' = [phase EXCEPT ![t] = "peek"]
  /\ UNCHANGED <<fileVars, tool, step, resv, got, call, ncalls, answers, faults>>

\* Mutant of Peek: the last line instead of the next one.
PeekLast(t) ==
  /\ phase[t] = "peek"
  /\ Parses("audit")
  /\ resv' = [resv EXCEPT ![t] = NextLine("audit") - 1]
  /\ phase' = [phase EXCEPT ![t] = "acquire"]
  /\ UNCHANGED <<fileVars, lockVars, tool, step, got, call, ncalls, answers, faults>>

\* ... and yield the number of the line the next audit write lands on.
Peek(t) ==
  /\ phase[t] = "peek"
  /\ Parses("audit")
  /\ resv' = [resv EXCEPT ![t] = NextLine("audit")]
  /\ phase' = [phase EXCEPT ![t] = "acquire"]
  /\ UNCHANGED <<fileVars, lockVars, tool, step, got, call, ncalls, answers, faults>>

Acquire(t) ==
  /\ phase[t] = "acquire"
  /\ Enter(t, Cur(t))
  /\ phase' = [phase EXCEPT ![t] = "read"]
  /\ UNCHANGED <<fileVars, tool, step, resv, got, call, ncalls, answers, faults>>

\* _read_chain_state
ReadState(t) ==
  /\ phase[t] = "read"
  /\ Parses(Cur(t))
  /\ got' = [got EXCEPT ![t] = [line |-> NextLine(Cur(t)),
                                prev |-> LastHash(log[Cur(t)])]]
  /\ phase' = [phase EXCEPT ![t] = "write"]
  /\ UNCHANGED <<fileVars, lockVars, tool, step, resv, call, ncalls, answers, faults>>

\* json.loads raises on a damaged last line; the call fails, no line is written.
Refuse(t) ==
  /\ \/ phase[t] = "peek" /\ ~Parses("audit")
     \/ phase[t] = "read" /\ ~Parses(Cur(t))
  /\ Stop({t})
  /\ UNCHANGED <<fileVars, ncalls, answers, faults>>

\* The first bytes of the new line reach the file.  Behind a line that lost
\* its newline they extend that line, which no longer parses.
WriteBegin(t) ==
  /\ phase[t] = "write"
  /\ lost' = [lost EXCEPT ![Cur(t)] = IF tail[Cur(t)] = "bare" THEN 1 ELSE 0]
  /\ tail' = [tail EXCEPT ![Cur(t)] = "cut"]
  /\ phase' = [phase EXCEPT ![t] = "flush"]
  /\ UNCHANGED <<log, digests, lockVars, tool, step, resv, got, call, ncalls, answers, faults>>

\* The record thread t writes.  A record of a reserving call carries the line.
Record(t) ==
  [line |-> got[t].line, prev |-> got[t].prev, hash |-> digests + 1,
   call |-> call[t], audit |-> resv[t]]

\* Every byte of the record is in the file of chain c; `end` says whether the
\* newline is.  Glued to a bare line, both records are on one unparseable line.
RecordLands(t, end) ==
  LET c == Cur(t) IN
  /\ log' = [log EXCEPT ![c] = Append(@, Record(t))]
  /\ digests' = digests + 1
  /\ lost' = [lost EXCEPT ![c] = IF @ > 0 THEN 2 ELSE 0]
  /\ tail' = [tail EXCEPT ![c] = IF lost[c] > 0 THEN "cut" ELSE end]

\* write, flush and fsync have returned.
WriteEnd(t) ==
  /\ phase[t] = "flush"
  /\ RecordLands(t, "whole")
  /\ phase' = [phase EXCEPT ![t] = "release"]
  /\ UNCHANGED <<lockVars, tool, step, resv, got, call, ncalls, answers, faults>>

Answer(t) == [call |-> call[t], tool |-> tool[t], line |-> resv[t]]

\* The append's lock block ends; then the next append, the end of the
\* reservation, or the return of the call.
Release(t) ==
  /\ phase[t] = "release"
  /\ Leave(t, Cur(t))
  /\ \/ /\ ~IsLast(t)
        /\ step' = [step EXCEPT ![t] = @ + 1]
        /\ phase' = [phase EXCEPT ![t] = "acquire"]
        /\ UNCHANGED <<call, answers>>
     \/ /\ IsLast(t) /\ tool[t] \in Reserving
        /\ phase' = [phase EXCEPT ![t] = "unreserve"]
        /\ UNCHANGED <<step, call, answers>>
     \/ /\ IsLast(t) /\ tool[t] \notin Reserving
        /\ phase' = [phase EXCEPT ![t] = "idle"]
        /\ answers' = answers \cup {Answer(t)}
        /\ call' = [call EXCEPT ![t] = 0]
        /\ UNCHANGED step
  /\ UNCHANGED <<fileVars, tool, resv, got, ncalls, faults>>

Unreserve(t) ==
  /\ phase[t] = "unreserve"
  /\ Leave(t, "audit")
  /\ phase' = [phase EXCEPT ![t] = "idle"]
  /\ answers' = answers \cup {Answer(t)}
  /\ call' = [call EXCEPT ![t] = 0]
  /\ resv' = [resv EXCEPT ![t] = 0]
  /\ UNCHANGED <<fileVars, tool, step, got, ncalls, faults>>

-----------------------------------------------------------------------------
(* Faults: a full disk, an exception in a reserved region, a killed child. *)

\* What a write interrupted in thread t leaves: part of the line, or all of
\* it but its newline.
Torn(t) ==
  \/ UNCHANGED fileVars
  \/ RecordLands(t, "bare")

\* The append raises (disk full), or the body of the reserved region does
\* (FileExistsError from write_extraction): the exception leaves all blocks.
Raise(t) ==
  /\ faults < MaxFaults
  /\ \/ phase[t] = "write" /\ UNCHANGED fileVars
     \/ phase[t] = "flush" /\ Torn(t)
     \/ phase[t] = "acquire" /\ tool[t] \in Reserving /\ UNCHANGED fileVars
  /\ Stop({t})
  /\ faults' = faults + 1
  /\ UNCHANGED <<ncalls, answers>>

\* The process dies with all its threads; at most one of them, in mid-write,
\* leaves a whole record.
Crash(p) ==
  LET ts == {t \in Threads : ProcOf[t] = p} IN
  /\ faults < MaxFaults
  /\ \E t \in ts : phase[t] # "idle"
  /\ \/ UNCHANGED fileVars
     \/ \E t \in ts : phase[t] = "flush" /\ RecordLands(t, "bare")
  /\ Stop(ts)
  /\ faults' = faults + 1
  /\ UNCHANGED <<ncalls, answers>>

Work(t) ==
  \/ Reserve(t) \/ Peek(t) \/ Acquire(t) \/ ReadState(t) \/ Refuse(t)
  \/ WriteBegin(t) \/ WriteEnd(t) \/ Release(t) \/ Unreserve(t)

Next ==
  \/ \E t \in Threads : Call(t) \/ Work(t) \/ Raise(t)
  \/ \E p \in Procs : Crash(p)

\* A thread that is neither blocked on a lock nor dead keeps running.
Fairness == \A t \in Threads : WF_vars(Work(t))

Spec == Init /\ [][Next]_vars /\ Fairness

-----------------------------------------------------------------------------
(* Properties.                                                             *)

Entry == [line : Nat, prev : Nat, hash : Nat, call : Nat, audit : Nat]

\* Every variable keeps its type.
TypeOK ==
  /\ log \in [Chains -> Seq(Entry)]
  /\ tail \in [Chains -> {"whole", "bare", "cut"}]
  /\ lost \in [Chains -> 0..2]
  /\ lock \in [Chains -> Threads \cup {NoOne}]
  /\ held \in [Threads -> [Chains -> Nat]]
  /\ phase \in [Threads -> Phases]
  /\ tool \in [Threads -> DOMAIN Appends]
  /\ step \in [Threads -> 1..3]
  /\ resv \in [Threads -> Nat]
  /\ got \in [Threads -> [line : Nat, prev : Nat]]
  /\ call \in [Threads -> Nat]
  /\ ncalls \in Nat /\ digests \in Nat /\ faults \in Nat
  /\ answers \subseteq [call : Nat, tool : DOMAIN Appends, line : Nat]

\* Every record of every chain carries its position and the digest of the
\* record before it, whatever writers race and wherever one of them dies.
Chained ==
  \A c \in Chains : \A k \in 1..Len(log[c]) :
    /\ log[c][k].line = k
    /\ log[c][k].prev = IF k = 1 THEN Genesis ELSE log[c][k - 1].hash

\* A call that returned an audit line returned the line of its own audit
\* record (reserve_audit_line: no sibling takes the reserved line).
AnswersRecorded ==
  \A a \in answers :
    a.tool \in Reserving =>
      /\ a.line \in 1..Len(log["audit"])
      /\ log["audit"][a.line].call = a.call

\* A call that returned success wrote exactly one record for each append its
\* kind of call makes: audit "exactly once per invocation", no chain skipped.
AnsweredOnce ==
  \A a \in answers : \A c \in Chains :
    Cardinality({k \in 1..Len(log[c]) : log[c][k].call = a.call})
      = Cardinality({i \in DOMAIN Appends[a.tool] : Appends[a.tool][i] = c})

\* A writer inside a lock never meets a half-written line: no tool call is
\* refused because of a sibling's append in flight.
LockedReadIsWhole ==
  \A t \in Threads : /\ phase[t] = "peek" => Parses("audit")
                     /\ phase[t] = "read" => Parses(Cur(t))

\* The audit_line a findings, correlations or extractions record carries is,
\* once that line exists, the audit record of the same call.
AuditLineIsOwn ==
  \A c \in Chains \ {"audit"} : \A k \in 1..Len(log[c]) :
    LET n == log[c][k].audit IN
    n \in 1..Len(log["audit"]) => log["audit"][n].call = log[c][k].call

\* While nothing has failed, siblings never disturb each other, however their
\* calls nest and interleave (_chain_lock.py:61, audit.py:146).
HealthyAppends == faults = 0 => LockedReadIsWhole /\ AuditLineIsOwn

\* The last line of chain c does not parse and no writer is at work on it.
Damaged(c) ==
  /\ tail[c] = "cut"
  /\ \A t \in Threads : phase[t] = "flush" => Cur(t) # c

\* Writers fail closed: behind a damaged last line nothing is ever chained or
\* even begun; the evidence of the damage stays as it is.
NothingBehindDamage ==
  [][\A c \in Chains : Damaged(c) => Damaged(c)' /\ log'[c] = log[c]]_vars

\* Every tool call that starts to write returns or fails; in particular the
\* nested locks never block a thread against itself or a sibling.
EveryCallReturns ==
  \A t \in Threads : phase[t] # "idle" ~> phase[t] = "idle"

Abstract == INSTANCE HashChains

\* Locks, processes and torn writes implement chains that grow one linked
\* record at a time.
RefinesHashChains == Abstract!Spec
=============================================================================
