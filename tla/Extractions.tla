----------------------------- MODULE Extractions -----------------------------
(***************************************************************************)
(* The extraction cache (server/extractions.py) and the tools that fill    *)
(* and read it: the tier-1 wrappers of server/tools/memory.py and          *)
(* server/tools/disk.py and the tier-2 reader of server/tools/analytical.  *)
(* An extraction of a pair (evidence, plugin) is three artifacts written   *)
(* one after the other, <plugin>.json, <plugin>.sha256 and a line of       *)
(* extractions.jsonl, by MCP servers and pre-extract workers that share    *)
(* nothing but these files and the audit lock.  Readers take no lock.      *)
(***************************************************************************)
EXTENDS Integers, Sequences, FiniteSets, SequencesExt

CONSTANTS
  Workers,    \* server processes and pre-extract workers, one call at a time
  Pairs,      \* pairs of an evidence id and a plugin
  NoOne,      \* "the audit lock is free"
  MaxCalls,   \* bound: tool calls in all
  MaxFaults   \* bound: crashes and failed writes in all

ASSUME NoOneAssumption  == NoOne \notin Workers
ASSUME BoundsAssumption == MaxCalls \in Nat /\ MaxFaults \in Nat

Absent == 0     \* the file does not exist
Torn   == -1    \* the file exists and is empty or incomplete

VARIABLES
  json,     \* json[p]: the plugin run whose result the file holds
  sidecar,  \* sidecar[p]: the run whose digest the .sha256 file holds
  lines,    \* extractions.jsonl: [pair, run, ok], ok: the line parses
  end,      \* its last line: "whole", "bare" (no newline), or "cut"
  lock,     \* who holds the audit lock
  audit,    \* audit.jsonl: [call, what]
  phase,    \* phase[w]: what worker w does next
  tool,     \* tool[w]: "tier1" or "tier2"
  pair,     \* pair[w]: the pair its call is about
  call,     \* call[w]: the number of its call
  run,      \* run[w]: the result its own plugin run produced
  got,      \* got[w]: the digests its load has read: chain, json
  ncalls,   \* calls and
  nruns,    \* plugin runs so far
  answers,  \* history: the calls that returned or raised
  faults

files   == <<json, sidecar, lines, end>>
request == <<tool, pair, call, ncalls>>
vars == <<files, lock, audit, phase, request, run, got, nruns, answers, faults>>

-----------------------------------------------------------------------------
(* The chain of extractions, as its readers see it. *)

\* _read_chain_state: the last line parses (its newline is not needed).
HeadParses == end # "cut"

\* find_extraction_entry stops at the first line of the pair, and raises at a
\* line before it that does not parse.
Matches(p) == {k \in DOMAIN lines : lines[k].pair = p}
Unparsed   == {k \in DOMAIN lines : ~lines[k].ok}
Entry(p)   == Min(Matches(p))

FindRaises(p) ==
  IF Matches(p) = {} THEN end = "cut" ELSE \E k \in Unparsed : k <= Entry(p)

FilesExist(p) == json[p] # Absent /\ sidecar[p] # Absent

\* load_extraction would return the result of this pair.
Stored(p) ==
  /\ ~FindRaises(p) /\ Matches(p) # {}
  /\ json[p] = lines[Entry(p)].run /\ sidecar[p] = lines[Entry(p)].run

-----------------------------------------------------------------------------
Init ==
  /\ json = [p \in Pairs |-> Absent] /\ sidecar = [p \in Pairs |-> Absent]
  /\ lines = <<>> /\ end = "whole" /\ lock = NoOne /\ audit = <<>>
  /\ phase = [w \in Workers |-> "idle"]
  /\ tool = [w \in Workers |-> "tier1"]
  /\ \E p \in Pairs : pair = [w \in Workers |-> p]
  /\ call = [w \in Workers |-> 0] /\ run = [w \in Workers |-> 0]
  /\ got = [w \in Workers |-> [chain |-> 0, json |-> 0]]
  /\ ncalls = 0 /\ nruns = 0 /\ answers = {} /\ faults = 0

Goto(w, where) == phase' = [phase EXCEPT ![w] = where]

Return(w, outcome, r) ==
  /\ Goto(w, "idle")
  /\ answers' = answers \cup {[call |-> call[w], pair |-> pair[w], tool |-> tool[w],
                               outcome |-> outcome, run |-> r]}

Log(w, what) == audit' = Append(audit, [call |-> call[w], what |-> what])

\* An answer behind its audit line; append_audit_entry needs the lock free.
Answer(w, outcome, r) == lock = NoOne /\ Log(w, outcome) /\ Return(w, outcome, r)

\* An exception nobody catches: no audit line.
Raise(w, outcome) == Return(w, outcome, 0) /\ UNCHANGED audit

\* The evidence id has been resolved: a tier-1 wrapper probes the cache, a
\* tier-2 tool loads.
Call(w) ==
  /\ phase[w] = "idle" /\ ncalls < MaxCalls
  /\ \E k \in {"tier1", "tier2"}, p \in Pairs :
       /\ tool' = [tool EXCEPT ![w] = k]
       /\ pair' = [pair EXCEPT ![w] = p]
       /\ Goto(w, IF k = "tier1" THEN "probe" ELSE "find")
  /\ ncalls' = ncalls + 1
  /\ call' = [call EXCEPT ![w] = ncalls + 1]
  /\ UNCHANGED <<files, lock, audit, run, got, nruns, answers, faults>>

\* Mutant of Probe: the two files are enough.
ProbeFiles(w) ==
  /\ phase[w] = "probe"
  /\ Goto(w, IF FilesExist(pair[w]) THEN "find" ELSE "run")
  /\ UNCHANGED <<files, lock, audit, request, run, got, nruns, answers, faults>>

\* extraction_exists looks for the files first, then for the chain line.
Probe(w) ==
  /\ phase[w] = "probe"
  /\ Goto(w, IF FilesExist(pair[w]) THEN "scan" ELSE "run")
  /\ UNCHANGED <<files, lock, audit, request, run, got, nruns, answers, faults>>

Scan(w) ==
  /\ phase[w] = "scan"
  /\ IF FindRaises(pair[w]) THEN Raise(w, "bad_line")
     ELSE /\ Goto(w, IF Matches(pair[w]) # {} THEN "find" ELSE "run")
          /\ UNCHANGED <<audit, answers>>
  /\ UNCHANGED <<files, lock, request, run, got, nruns, faults>>

-----------------------------------------------------------------------------
(* load_extraction, and the cached or tier-2 answer. *)

\* A tier-1 wrapper catches a hash mismatch only; tier 2 audits both.
NotFound(w) ==
  IF tool[w] = "tier1" THEN Raise(w, "not_found") ELSE Answer(w, "not_found", 0)

Find(w) ==
  /\ phase[w] = "find"
  /\ \/ FindRaises(pair[w]) /\ Raise(w, "bad_line") /\ UNCHANGED got
     \/ ~FindRaises(pair[w]) /\ Matches(pair[w]) = {} /\ NotFound(w) /\ UNCHANGED got
     \/ /\ ~FindRaises(pair[w]) /\ Matches(pair[w]) # {}
        /\ got' = [got EXCEPT ![w].chain = lines[Entry(pair[w])].run]
        /\ Goto(w, "read_json") /\ UNCHANGED <<audit, answers>>
  /\ UNCHANGED <<files, lock, request, run, nruns, faults>>

ReadJson(w) ==
  /\ phase[w] = "read_json"
  /\ \/ ~FilesExist(pair[w]) /\ NotFound(w) /\ UNCHANGED got
     \/ /\ FilesExist(pair[w])
        /\ got' = [got EXCEPT ![w].json = json[pair[w]]]
        /\ Goto(w, "read_sidecar") /\ UNCHANGED <<audit, answers>>
  /\ UNCHANGED <<files, lock, request, run, nruns, faults>>

ReadSidecar(w) ==
  /\ phase[w] = "read_sidecar"
  /\ IF got[w].json = got[w].chain /\ sidecar[pair[w]] = got[w].chain
     THEN Answer(w, IF tool[w] = "tier1" THEN "cached" ELSE "query", got[w].chain)
     ELSE Answer(w, "tampered", 0)
  /\ UNCHANGED <<files, lock, request, run, got, nruns, faults>>

-----------------------------------------------------------------------------
(* _serve_fresh. *)

\* The plugin runs: it fails, or it yields bytes no other run yields (they
\* carry the time of the run).  On an image it does not support, the empty
\* result is stored behind an audit line of its own.
Run(w) ==
  /\ phase[w] = "run"
  /\ \/ Answer(w, "runner_failed", 0) /\ UNCHANGED <<run, nruns>>
     \/ /\ run' = [run EXCEPT ![w] = nruns + 1] /\ nruns' = nruns + 1
        /\ Goto(w, "reserve") /\ UNCHANGED answers
        /\ UNCHANGED audit \/ (lock = NoOne /\ Log(w, "unsupported_os"))
  /\ UNCHANGED <<files, lock, request, got, faults>>

\* Mutant of Reserve: whether the files exist is looked at before the lock.
ReserveAfterCheck(w) ==
  \/ /\ phase[w] = "reserve"
     /\ Goto(w, IF json[pair[w]] = Absent /\ sidecar[pair[w]] = Absent
                THEN "reserve_checked" ELSE "reserve")
     /\ UNCHANGED <<files, lock, audit, request, run, got, nruns, answers, faults>>
  \/ /\ phase[w] = "reserve_checked" /\ lock = NoOne /\ lock' = w
     /\ Goto(w, "json")
     /\ UNCHANGED <<files, audit, request, run, got, nruns, answers, faults>>

Reserve(w) ==
  /\ phase[w] = "reserve" /\ lock = NoOne /\ lock' = w
  /\ Goto(w, "check")
  /\ UNCHANGED <<files, audit, request, run, got, nruns, answers, faults>>

\* Mutants of Check: existing files are overwritten; the exception leaves the
\* reservation in place.
CheckNothing(w) ==
  /\ phase[w] = "check"
  /\ Goto(w, "json") /\ UNCHANGED <<lock, audit, answers>>
  /\ UNCHANGED <<files, request, run, got, nruns, faults>>

CheckKeepsLock(w) ==
  /\ phase[w] = "check"
  /\ \/ /\ json[pair[w]] # Absent \/ sidecar[pair[w]] # Absent
        /\ Raise(w, "file_exists") /\ UNCHANGED lock
     \/ /\ json[pair[w]] = Absent /\ sidecar[pair[w]] = Absent
        /\ Goto(w, "json") /\ UNCHANGED <<lock, audit, answers>>
  /\ UNCHANGED <<files, request, run, got, nruns, faults>>

\* write_extraction refuses to overwrite either file.
Check(w) ==
  /\ phase[w] = "check"
  /\ \/ /\ json[pair[w]] # Absent \/ sidecar[pair[w]] # Absent
        /\ Raise(w, "file_exists") /\ lock' = NoOne
     \/ /\ json[pair[w]] = Absent /\ sidecar[pair[w]] = Absent
        /\ Goto(w, "json") /\ UNCHANGED <<lock, audit, answers>>
  /\ UNCHANGED <<files, request, run, got, nruns, faults>>

\* open("wb"), then write and fsync.
WriteJson(w) ==
  /\ \/ phase[w] = "json" /\ json' = [json EXCEPT ![pair[w]] = Torn]
        /\ Goto(w, "json_flush")
     \/ phase[w] = "json_flush" /\ json' = [json EXCEPT ![pair[w]] = run[w]]
        /\ Goto(w, "sidecar")
  /\ UNCHANGED <<sidecar, lines, end, lock, audit, request, run, got, nruns, answers, faults>>

WriteSidecar(w) ==
  /\ \/ phase[w] = "sidecar" /\ sidecar' = [sidecar EXCEPT ![pair[w]] = Torn]
        /\ Goto(w, "sidecar_flush")
     \/ phase[w] = "sidecar_flush" /\ sidecar' = [sidecar EXCEPT ![pair[w]] = run[w]]
        /\ Goto(w, "append")
  /\ UNCHANGED <<json, lines, end, lock, audit, request, run, got, nruns, answers, faults>>

\* append_extraction_entry up to the first bytes.  The write extends a last
\* line that lost its newline, and that line parses no more.
AppendBegin(w) ==
  /\ phase[w] = "append"
  /\ \/ /\ HeadParses
        /\ lines' = IF end = "bare" THEN [lines EXCEPT ![Len(lines)].ok = FALSE] ELSE lines
        /\ end' = "cut" /\ Goto(w, "append_flush") /\ UNCHANGED <<lock, audit, answers>>
     \/ /\ ~HeadParses
        /\ Raise(w, "bad_line") /\ lock' = NoOne /\ UNCHANGED <<lines, end>>
  /\ UNCHANGED <<json, sidecar, request, run, got, nruns, faults>>

\* The whole record is in the file; `tail` says whether its newline is.
LineLands(w, tail) ==
  LET ok == lines = <<>> \/ Last(lines).ok IN
  /\ lines' = Append(lines, [pair |-> pair[w], run |-> run[w], ok |-> ok])
  /\ end' = IF ok THEN tail ELSE "cut"
  /\ UNCHANGED <<json, sidecar>>

AppendEnd(w) ==
  /\ phase[w] = "append_flush"
  /\ LineLands(w, "whole")
  /\ Goto(w, "audit")
  /\ UNCHANGED <<lock, audit, request, run, got, nruns, answers, faults>>

\* The success line, on the reserved line; the reservation ends.
AuditFresh(w) ==
  /\ phase[w] = "audit"
  /\ Log(w, "fresh") /\ Return(w, "fresh", run[w])
  /\ lock' = NoOne
  /\ UNCHANGED <<files, request, run, got, nruns, faults>>

-----------------------------------------------------------------------------
\* The worker dies or a write fails: the lock is freed, the files stay as they
\* are, and a line in flight may be there without its newline.
Fail(w) ==
  /\ phase[w] # "idle" /\ faults < MaxFaults
  /\ faults' = faults + 1
  /\ UNCHANGED files \/ (phase[w] = "append_flush" /\ LineLands(w, "bare"))
  /\ lock' = IF lock = w THEN NoOne ELSE lock
  /\ Goto(w, "idle")
  /\ UNCHANGED <<audit, request, run, got, nruns, answers>>

Work(w) ==
  \/ Probe(w) \/ Scan(w) \/ Find(w) \/ ReadJson(w) \/ ReadSidecar(w)
  \/ Run(w) \/ Reserve(w) \/ Check(w) \/ WriteJson(w) \/ WriteSidecar(w)
  \/ AppendBegin(w) \/ AppendEnd(w) \/ AuditFresh(w)

Next == \E w \in Workers : Call(w) \/ Work(w) \/ Fail(w)

\* A worker that is not blocked on the lock keeps running (plugins time out).
Fairness == \A w \in Workers : WF_vars(Work(w))

Spec == Init /\ [][Next]_vars /\ Fairness

-----------------------------------------------------------------------------
(* Properties. *)

Served == {a \in answers : a.outcome \in {"fresh", "cached", "query"}}

\* Every variable keeps its type, and the lock is held in the reserved region.
TypeOK ==
  /\ json \in [Pairs -> Torn..MaxCalls] /\ sidecar \in [Pairs -> Torn..MaxCalls]
  /\ lines \in Seq([pair : Pairs, run : 1..MaxCalls, ok : BOOLEAN])
  /\ end \in {"whole", "bare", "cut"}
  /\ lock \in Workers \cup {NoOne}
  /\ \A w \in Workers :
       lock = w <=> phase[w] \in {"check", "json", "json_flush", "sidecar", "sidecar_flush",
                                  "append", "append_flush", "audit"}
  /\ pair \in [Workers -> Pairs] /\ call \in [Workers -> 0..MaxCalls]
  /\ run \in [Workers -> 0..MaxCalls] /\ faults \in 0..MaxFaults

\* "The first match is the only match": racing servers, retries and crashes
\* never leave two chain lines for one pair.
OneLinePerPair == \A p \in Pairs : Cardinality(Matches(p)) <= 1

\* All successful answers about a pair, fresh, cached or queried, before or
\* after a crash, report the result of one and the same plugin run.
AnswersAgree ==
  \A a, b \in Served : a.pair = b.pair => a.run = b.run

\* The result of a pair's first line is its result for good.
StoredResults ==
  [p \in Pairs |-> IF Matches(p) = {} THEN Absent ELSE lines[Entry(p)].run]
ToldResults == {[pair |-> a.pair, result |-> a.run] : a \in Served}

Store == INSTANCE WriteOnceStore WITH
  Results <- 1 .. MaxCalls, Nothing <- Absent, stored <- StoredResults, told <- ToldResults

\* Files, chain lines and unlocked readers implement a store that is written
\* once: what any answer tells is the one result its pair has for good.
RefinesWriteOnce == Store!Spec

\* Nobody touches the files: then no reader is told they were tampered with,
\* however its unlocked reads interleave with writers and crashes, and no
\* cache hit turns into a missing extraction.
NoFalseAlarm ==
  \A a \in answers : /\ a.outcome # "tampered"
                     /\ a.tool = "tier1" => a.outcome # "not_found"

\* While nothing fails, a result that has been computed is stored, by its
\* worker or by the sibling that was faster.
ResultsAreStored ==
  \A p \in Pairs :
    (\E w \in Workers : phase[w] = "reserve" /\ pair[w] = p) ~> Stored(p) \/ faults > 0

-----------------------------------------------------------------------------
(* What a comment says and the code does not do. *)

\* extractions.py: after a crash the next call re-runs the plugin cleanly.
CrashIsRetried ==
  \A a \in answers : a.outcome = "file_exists" => Stored(a.pair)
=============================================================================
