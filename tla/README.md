# A verification project for SIFT-Guard

SIFT-Guard drives language-model analysts over forensic evidence and keeps
everything they do on hash-chained logs. What it promises its users is not an
answer but a trail: evidence that is never changed unnoticed, tool results that
are computed once and never replaced, findings that are confirmed by rules only,
and a record of each step that cannot be edited without being seen. The trail is
made of plain files which several processes write at once, any of which can be
killed by a timeout. That is what these modules are about.

All paths below are relative to `src/`.

## 1. Inventory

### 1.1 The parts and how they interact

| Part | Code | State | Operations | Module |
|---|---|---|---|---|
| Chain write lock | `server/_chain_lock.py` | flock on `<chain>.lock`; per-thread count | `chain_write_lock` enter, leave | `ChainLog` |
| Hash-chained logs | `server/audit.py`, `findings_log.py`, `correlations_log.py`, `extractions_log.py`, `orchestrator/iterations_log.py` | five JSONL files | five appends, `reserve_audit_line`, readers | `ChainLog`, `HashChains` |
| Finding tools | `server/tools/findings.py`, `correlations.py` | none of their own | `record_finding`, `update_finding`, `record_correlation` | `RecordGates` |
| Promotion rules | `orchestrator/promotion.py` | none | `promote` (R1 to R6) | `Promotion` |
| Self-correction loop | `orchestrator/loop.py` | locals of one run; iterations chain | ANALYZE, CORRELATE, PROMOTE, PLAN, WRITE, for one evidence set or many hosts | `SelfCorrectionLoop`, `AnalyzePhase` |
| Subagent dispatch | `orchestrator/dispatch.py` | none | run one analyst with a timeout, ask for one `update_finding` | `AnalyzePhase`, `SelfCorrectionLoop` |
| Extraction cache | `server/extractions.py` | `<plugin>.json`, `<plugin>.sha256`, chain line | `write_extraction`, `load_extraction`, `extraction_exists` | `Extractions` |
| Tier-1 tools | `server/tools/memory.py`, `disk.py` | none | cached path, fresh path | `Extractions`, `DiskMounts` |
| Tier-2 tools | `server/tools/analytical.py` | none | load, verify, `query_records`, `group_by`, `set_difference`, `subtree` | `Extractions`, `RecordQueries` |
| Pre-extraction | `orchestrator/pre_extract.py` | a thread pool | run all disk plugins before ANALYZE | `Extractions`, `DiskMounts` |
| Evidence registry | `server/tools/evidence.py` | `CASE.yaml`, file modes | `register_evidence` | `EvidenceRegistry` |
| Integrity check | `server/integrity.py` | none | re-hash at the end of a run | `EvidenceRegistry` |
| Disk mounts | `server/runners/disk_mount.py` | mount directories, kernel mounts, caches and locks of a process | mount, reuse, clean up, unmount at exit | `DiskMounts`, `MountService` |
| Display | `sift_guard/display.py` | a polling thread and a file offset | tail the audit chain | `AnalyzePhase` |
| Schemas | `server/schemas.py` | none | constraints on calls, marks on evidence text | `RecordGates`, `RecordQueries` |
| Runners | `server/runners/local.py`, `ssh_remote.py` | none | run a plugin as a subprocess | |
| RAG | `rag/`, `server/tools/rag.py` | a read-only index | ingest, query | |
| Inventory, manifest | `orchestrator/inventory.py`, `manifest.py` | a manifest file | scan, classify, group by host | |
| Command lines | `orchestrator/main.py`, `sift_guard/cli.py` | none | stage, register, run, report | |
| Reporting | `reporting/summary.py` | none | render the chains | |
| Rejections log | `server/rejections_log.py` | an unchained file | best-effort append | |

A command line run stages and registers the evidence, may pre-extract disk
artifacts, and enters the loop. Each iteration of the loop dispatches analysts
(one `claude` process each, in parallel by default), then one validator, then
decides by `promote` on every draft and asks for an `update_finding`, then plans
and writes an iteration record. Every dispatched process starts an MCP server of
its own, so the tools of several servers work on the same case directory at the
same time. Servers share nothing but the host's files: five chains with a `.lock`
file each, the extraction files, `CASE.yaml`, and `/proc/mounts`. At the end of
the loop all registered evidence is re-hashed. Meanwhile the console polls the
audit log.

### 1.2 What is hard here

* **Interleavings** of servers and threads on each chain, on the extraction
  cache, on `CASE.yaml`, on mounts, on the loop's counters. Locks nest: a reserved
  audit line keeps the audit lock while other chains are written.
* **State read before it is used:** the audit line number that goes into a
  record before the audit line exists; `extraction_exists` minutes before the
  write; `CASE.yaml` loaded before a file of many gigabytes is hashed; what the
  gates of a recording tool saw before its record lands; a mount path out of a cache.
* **Readers without a lock:** `findings.jsonl` and the audit log are read in the
  middle of appends, by the counters of ANALYZE and by the console.
* **Crashes and partial failures:** a call appends to up to three chains; an
  extraction is two files and a line; `CASE.yaml` is emptied and rewritten; a
  mount is up to three commands, and what a dead process mounted stays.
* **Late delivery:** a dispatch that times out is killed, the tool call its
  server is working on is not.
* **Long protocols:** correlations accumulate over iterations and decide what
  happens to findings later; four flags decide when a run stops.
* **Boundaries:** the last page of a query, the cap of a tree, keys that are
  missing or occur twice.

### 1.3 What makes each part correct

* *Chains:* mutual exclusion that survives nesting and death; each record linked
  to its predecessor; nothing written behind a damaged line; a call that reports
  an audit line reports its own; a call that reports success wrote all it should;
  no thread blocks for good.
* *Recording tools:* what a record cites and names is on the logs, whatever lands
  between the gates and the append; a confirmation stays; the audit log accounts
  for every record.
* *Loop:* no finding confirmed twice or against a standing contradiction; a verdict
  is final and reported as it is;
  silence means silence; a stalemate is one; a requested follow-up runs; each
  draft is counted once; each run ends.
* *ANALYZE:* totals are exact in any order of the threads; each analyst is
  announced with its own findings; the console loses, doubles and cuts no line.
* *Extractions:* one line and one result per evidence and plugin, for all readers,
  for good; no false alarm of tampering; no computed result lost.
* *Queries:* pages add up to the matches, groups to their records, differences
  balance, trees are whole or say they are not, evidence text is marked.
* *Registry:* one entry per file; entries stay while a run works on them; a
  changed file is never trusted; a listed file is read-only.
* *Mounts:* no two mounts meet under one path; nobody unmounts what another call
  reads; an orderly exit leaves nothing mounted but what the operator prepared.

## 2. Modules

| Module | Models | Properties |
|---|---|---|
| `HashChains` | what the five logs promise: chains that grow one linked record at a time | abstract specification |
| `ChainLog` | lock, five appends, reservation, processes, torn writes, crashes | implements `HashChains` |
| `RecordGates` | the gates of the three recording tools, resolution of id prefixes, drift lines, appends and audit lines of concurrent callers | |
| `Promotion` | `promote` | |
| `FindingLedger` | what the loop promises about findings: drafted once, decided once by what was weighed, reported as they stand | abstract specification |
| `SelfCorrectionLoop` | both loops over findings and correlations chains | extends `Promotion`, implements `FindingLedger` |
| `AnalyzePhase` | ANALYZE: pool threads, dispatched analysts, their servers' appends, the console's tail thread | |
| `WriteOnceStore` | what the extraction cache promises: one result per pair, for good | abstract specification |
| `Extractions` | extraction files, cache, tier-1 and tier-2 tools | implements `WriteOnceStore` |
| `RecordQueries` | the four queries over an extraction | |
| `EvidenceRegistry` | `CASE.yaml`, registration, the command line run around it, the re-hash | |
| `MountService` | what `mount_disk_image` promises to the tools | abstract specification |
| `DiskMounts` | mounting, reuse, cleaning up and unmounting of images by several processes | implements `MountService` |
| `...Proofs` | theorems about the module of that name | proved |
| `MC...` | the model values of the instances | |

Four refinements hold the project together. `ChainLog` implements `HashChains`
(checked and proved), which is why the other modules may append in one step.
`Extractions` implements `WriteOnceStore` (checked and proved), which is why
`RecordQueries` may take the extractions as fixed. `DiskMounts` implements
`MountService` (checked, its safety part proved). `SelfCorrectionLoop` implements
`FindingLedger` (checked and proved): to a reader of the case, iterations, killed
dispatches and lost answers make no difference to what is decided of a finding.

Operators that no specification uses (`PollOverPartial`, `RecordUnlocked`, ...) are
changed forms (mutants) of the definition next to them. Each shows of one property that
it can fail, by the bug it stands for.

### 2.1 `ChainLog` over `HashChains`

One thread of a process serves one call. `Appends` lists, for each kind of call,
the chains its code appends to, in order; `Reserving` names those that run inside
`reserve_audit_line`. A call goes through the phases of the code: reserve (enter
the audit lock), peek (read the next audit line), then per append acquire the
chain's lock, read its head, write, flush, release, and at last leave the
reservation. `Enter` and `Leave` are the two ends of `chain_write_lock`:
the outermost block takes the flock, nested ones only count. `lock[c]` is the
kernel's view, `held[t][c]` the thread's ledger.

A write is two steps, because a reader without the lock, or a process that dies,
can see its first half. `tail[c]` says what the last line is: whole, bare (it
parses but its newline is missing), or cut (it does not parse). `Raise` is an
exception in mid-append, which unwinds all the locks of its thread; `Crash` kills
all the threads of a process and the kernel frees their locks. Records carry the
number of the call they belong to, which the code does not write: it is there for
the properties. Digests are numbers, fresh for every record.

Abstractions: a crash leaves a half-written line behind in at most one chain as
bare; the others as whole or cut. Which fields a record has is left out, but for
line, previous hash, hash and audit line.

### 2.2 `RecordGates`

A caller is a server process in a role (analyst, validator, orchestrator). A call
starts by running all its gates against the logs as they are; each gate is a row
`Gate(condition, reason)`, and the first that fails gives the reason of the
refusal, in the order of the code. A call that passes carries what it has resolved
(corrected tools, full finding ids, the state it read) through its remaining
steps: drift lines, reservation of the audit line, append, success line. Other
callers' records land between any two of them. A caller may die after the append
(`Crash`), and the success line is then missing.

`job[c]` holds the step and the arguments; `holder` is who has reserved the audit
line. Finding ids are a prefix and a number, so that prefixes can be ambiguous.
Role, host and the calls that are tried are constants; the instance takes right
calls and wrong ones that reach the different gates.

### 2.3 `Promotion`, and `SelfCorrectionLoop` over `FindingLedger`

`promote` is a function of a finding's confidence, the correlations that name it
and a number of completed iterations; the rules are tried in the order of the
code. The loop's state is what the code keeps in locals (`iteration`, `waiting`,
`prior`, `tokens`, the snapshots in `before`) and what it reads from the chains.
`multiHost`, chosen in the initial state, tells `run_loop`, whose units are
analysts, from `run_loop_multi_host`, whose units are hosts; they share PROMOTE
and PLAN.

What analysts and the validator record is free: any unit of work may record no
finding or one, with any of the chosen confidences; the validator may record any
correlations on findings it is shown. A dispatch that times out can leave one
call in flight (`late`), which lands at any later step. An `update_finding` lands
and is answered, lands and the answer is lost, or fails before it writes.

Here ANALYZE is an arbitrary order of the dispatches, each a step; its threads
are the subject of `AnalyzePhase`. The chains are atomic: how they are written is
the subject of `ChainLog`.

`FindingLedger` keeps how each finding stands, which of them serious contradictions
name, which of those have been weighed, and what was reported. A finding stands by its
last record (`Standing`); the correlations PROMOTE has read are what is weighed
(`NamedBy(seen)`); the promotions that iteration records call applied are the reports
(`Reported`). An update that disputes a finding once more is no step of the ledger.

### 2.4 `AnalyzePhase`

A job is a host, an evidence file and an analyst. A pool thread that takes a job
counts the analyst's findings, waits for the dispatch, keeps the result and adds
its tokens under `state_lock`, counts again and announces the difference. Reading
the total and writing the sum are two steps (`Record`, `AddTokens`), so that the
lock is needed. `Start` takes jobs in order, up to `Workers` at a time, or one
after the other where the run is sequential (`parallel` is chosen in `Init`).

An analyst is live until it ends or its timeout kills it; its server finishes the
call it is serving either way. A call appends to the audit log, and a
`record_finding` to the findings before that; `half` is the file that ends in half
a line at the moment. A counter that meets half a finding raises out of its job;
the pool still takes the remaining jobs, and the step raises at its end.

The console's tail thread reads what was written since its offset, up to the last
newline, and renders line by line, looking up each finding by its hash. A line is
two units long in `offset`, so that an offset can be within a line. `dropped` are
the lines of a batch whose rendering raised.

### 2.5 `Extractions` over `WriteOnceStore`

A worker is an MCP server or a pre-extraction thread that serves one tool call.
Tier-1 calls probe for the files, then for the chain line, without a lock, and
load the extraction or run the plugin. A fresh result is stored inside the
reserved audit line: check that neither file exists, write both, append the line,
write the audit line. Every file operation is a step, a file that is being
written is `Torn`. Readers take no lock and raise on any line that does not parse
before the one they want. Nobody else touches the files: whether tampering would
be found is a matter of digests.

`WriteOnceStore` has a result for a pair, stored once, and what answers have told.
The result is that of the pair's first line (`StoredResults`); the files alone are not
yet a result, and a line is one whether or not the line before it parses.

The extractions chain's own lock is left out, since all its writers hold the
audit lock. The audit append's own half-written lines are `ChainLog`'s.

### 2.6 `RecordQueries`

The extractions of one piece of evidence are fixed in `Init`; each step is one
call of one tool and leaves its answer, its audit lines and, for a client that
pages, the rows it has read. Values are tagged (number, text, list, nothing), so
that a comparison of two kinds is what Python makes of it, an exception included
(`raised`). Field names go through `_canonicalize_field` (aliases, then columns,
but for capitals). Caps are constants. A tree is given by each row's parent; the
walk goes depth first, down to a depth, until a number of nodes is reached.

### 2.7 `EvidenceRegistry`

The command line run goes through the stages register, analyze, verify. In the
first it registers each scanned file, takes a rejection for a warning and goes on;
in the second, analysts may call `register_evidence` through servers of their
own; in the third it re-hashes one entry after the other. A second run may follow.
`register_evidence` loads `CASE.yaml` and the mode, then compares and returns or
rejects, or hashes, sets the mode, opens `CASE.yaml` for writing (which empties
it) and writes all entries it loaded and its own. A process may die at each of
these steps; one that dies while it writes leaves whole entries, half an entry,
or text that does not parse. From outside, files may be rewritten, removed, put
back, and have their mode changed. The audit line behind each exit is a call of
`ChainLog`. Path confinement is left out: analysts call with files it admits.

### 2.8 `DiskMounts` over `MountService`

`table` is `/proc/mounts`, oldest first; a path shows what the youngest mount on
it shows. Caches and the lock per image (`mounted`, `ewfs`, `guests`, `lock`) are
a process's own and die with it. A thread that serves a disk tool takes the lock,
serves the path from the cache if it is still mounted, takes what the operator
announced by a variable or a hint file, or cleans up and tries ewfmount, mount and
guestmount as the format calls for; then its tool reads below the path without a
lock (`using`). A command may work, fail, or time out and have mounted all the
same. A process starts with the sweep over stale mounts and ends by the exit
handler or by a crash. Somebody else may unmount what is there.

`MountService` says: a call is granted at a moment when a read-only mount shows
the image, or refused, and every call comes to its end. That the mount stays for
the whole use is not promised; `UseHolds` says when it does.

## 3. Checks

### 3.1 Runs that pass

| Run | Instance | What it shows |
|---|---|---|
| `chain` | 2 processes of one thread; `record_finding` that corrects its tool, `update_finding`, a query; 3 calls, 2 faults | chains stay linked, answers stay recorded, damage is never written over, siblings never disturb each other while nothing fails, every call returns; `HashChains` is implemented |
| `gates` | an analyst, the validator, the orchestrator; 1 tool call, 2 findings, 1 correlation, 2 updates, 1 refusal | citations and ids resolve, predecessors are named, a confirmation stays, the audit log accounts for the records |
| `loop` | both loops; 2 units, 2 findings, 2 correlations of 4 kinds, 3 iterations, 1 fault | the safety properties of the loop, and that it gets on to its end; `FindingLedger` is implemented |
| `analyze` | 3 jobs (one analyst on two hosts, another on one of them), 2 workers, 2 tool calls; parallel and sequential | totals, announcements and the console are right; everyone ends |
| `extract` | 2 workers, 2 pairs, 3 calls, 2 faults | one line, no false alarm; what is computed is stored while nothing fails; `WriteOnceStore` is implemented |
| `queries` | every extraction of up to 3 and 2 rows and every tree of 5, with a call for each branch | the four tools count, page, subtract, walk and mark as they say |
| `registry` | 2 files, 2 analysts with 2 calls, 2 runs, 1 change, 1 fault | no listed file is writable; the manifest holds; no changed file is trusted |
| `disk_mounts` | 2 threads in one process, 1 in another, one image (raw, E01, VHDX, or the operator's); 3 calls, 2 starts, 1 fault | mounts never meet, a path in use holds, an exit leaves nothing; `MountService` is implemented |

Why these bounds. *chain*: three calls are a writer, the one that meets its damage
and the one that would write behind it; two faults are a failure and a failure of
the recovery; the calls are the one with the most appends (audit, findings,
audit), one with two inside a reservation, and a query with one. *gates*: a correlation needs two findings, an
update a correlation; two updates are the confirmation and what tries to undo it.
*loop*: three iterations are the fewest in which R5 (two completed iterations) and R_b
(two disputed sets) both happen; two findings are one that is corroborated and one
that is disputed, or the two ends of a correlation. *analyze*: two jobs share an
analyst and two a host, and the third waits for a free worker; two calls are a
recording that another counter meets. *extract*: two racers and a later reader.
*queries*: caps of 2 and 3 lie within what the extractions hold, so that each cap
is met, reached exactly and exceeded. *registry*: two command line runs are one that
registers and one that finds the files registered. *disk_mounts*: two
threads race for the lock of one image; a second start, of either process, meets
what the first has left.

Where a property begins with a condition on faults (`Undisturbed` in the loop,
`Steady` and `Alone` in the registry, `smooth` in the mounts, nothing failed in
`HealthyAppends` and `ResultsAreStored`), it is because it does not hold
otherwise; section 3.4 says how. Symmetry is used in `loop` and `registry`, which
check invariants and, in `loop`, an implementation that has no liveness.

### 3.2 Fairness

* `ChainLog`, `Extractions`: weak fairness of each thread's next step. A thread
  that is not blocked runs; locks are held for a few file operations, or, in a
  reservation, for no longer than that; plugins have a timeout. Calls need not
  be made and faults need not happen.
* `AnalyzePhase`: weak fairness of the loop's thread, of each pool thread, of the
  tail thread, of each server in the call it is serving, and of each timeout.
  Analysts need not call, nor end by themselves.
* `DiskMounts`: weak fairness of each thread's work, whose commands have timeouts,
  and strong fairness of taking the lock of an image, which siblings take and
  give back over and over.
* `SelfCorrectionLoop`: its specification has weak fairness of the loop's steps,
  but `RunEnds` is checked as an invariant that implies its end: until a flag has
  fired a step is enabled, and each step uses up a dispatch, a finding to decide on,
  or the iteration, of which there are `MaxIterations`. A dispatch ends because it
  has a timeout. `RunFinite` (section 4) proves that count. That an `update_finding`
  call answers or fails is an assumption: the code sets no timeout on it
  (`orchestrator/loop.py:350`).
* `EvidenceRegistry`, `RecordGates` and `RecordQueries` have safety properties only.

The specifications may end (calls and iterations are bounded, runs finish), so
deadlock is not checked; `EveryCallReturns`, `EveryoneEnds`, `RunEnds` and
`RefinesMountService` say what a deadlock check would.

### 3.3 Disagreements between the code and what it says

Each of these is a run in which the model checker finds the violation:

* `extract_crash_retry`: after a crash between the files and the chain line every
  later call runs the plugin again and then fails, although `extractions.py`
  says that the next call recovers.
* `registry_lost_entry`: two analysts that register at once lose an entry. The
  re-hash at the end of the run then knows nothing of the file.
* `gates_cited_failure`: `schemas.py` says that a finding cannot cite a tool call
  that did not run. The tool an analyst names wrongly is corrected to that of the
  line without a look at the status of the line, which may be a failure.
* `disk_operator_mount`: `disk_mount.py` says that the operator's mount is not to
  be unmounted. One that a hint file announces is cached like the server's
  own, and unmounted when it exits.

### 3.4 Beside the runs

What the models also show, and a reader should know. Names in brackets are
definitions that state the point and that no run checks.

*Chains.* A fault between a record and its audit line leaves the record with
the number of a line which the next call then takes (`AuditLineIsOwn`,
`server/audit.py:177`). A last line that lost only its newline is taken for the
chain head, and the next append makes both records unreadable (`tail` and `lost`).

*Recording tools.* A `rag_query` line is accepted by `record_finding` on an exact
match, though `findings.py:82-88` forbids it. A contradiction may name the same
finding twice. The hosts a `cross_host` correlation claims are not compared with those
of its findings.

*Loop.* `promotion.py:40` says a new corroboration overrides a dispute; R1 comes
first and contradictions stay on the chain, so it never does
(`CorroborationOverridesDispute`; `VerdictsStand` proves that no dispute is lifted). `loop.py:1201` says `cross_host` correlations feed
R3; no finding is ever matched with one (`CrossHostCorroborates`). R5 counts the
run's iterations: a finding first recorded in the third is confirmed by silence at
once (`docs/confidence-methodology.md:130` says otherwise). A standing
contradiction writes the same update again in each iteration. With several hosts an
empty plan means all hosts; that run never ends for want of follow-ups. An update
whose answer was lost is recorded as failed, and is on the chain; the next iteration
takes it from the chain (`ConfirmedOnce`). A finding that lands between two
snapshots is counted in no iteration; a follow-up that lands between two is not
served (`Undisturbed`).

*ANALYZE.* Two images of one host have the same analyst and host, so a disk
analyst that timed out is announced with its sibling's findings, although
`loop.py:936` says it is not: `AnnouncedAreOwn` is about analysts that are alone on
their host. After one job has raised the pool dispatches the remaining ones all the
same, and then no iteration record is written. The comment in `dispatch.py` that the
orchestrator can stop when no server is attached has no counterpart: the loop
warns. A batch of the console whose rendering raises is lost (`dropped`), and so are
lines after the last poll (`display.py:303`).

*Extractions.* The slower of two servers that extract the same pair raises
`FileExistsError` and leaves no audit line.

*Queries.* Ordering two kinds of values, or grouping by a field that holds
lists, raises out of the tool and leaves no audit line, although
`docs/accuracy-report.md:552` says every call has one (`EveryCallTraced`). A difference
with limit 0 returns one row. The rows of a symmetric difference come from both
extractions, and only the untrusted columns of the first are marked. The count of
descendants is that of the nodes kept. A projection on unknown names only returns all
columns.

*Registry.* A hash mismatch at registration is called fatal (`evidence.py:174`);
both command lines log it and go on (`RejectionSparesRun`). A crash while
`CASE.yaml` is rewritten can empty it; the next run registers the evidence as it then
is (`Steady` and `Alone` exclude a crash).

*Mounts.* A second process takes the live mount of the first for a stale one and
empties the path under its tool: `UseHolds` holds while one process is at work. The
sweep goes in the order of `/proc/mounts`, where an ewfmount stands before the mount
that keeps it busy. What ewfmount mounted under sudo is unmounted without it
(`_cleanup_partial_mount`), and fails; an ewfmount that timed out and has mounted is
in no cache. The directory is named after eight characters of the evidence id
(`ShortIsInjective`), and the environment variable names one path for every image
(`EnvAssumption`).

## 4. Proofs

`tlapm` checks every step. The theorems hold for all values of the constants
that satisfy the named assumptions (`BoundsAssumption` and the like), whose
bounds are arbitrary. Three kinds of hypotheses stand in the theorems themselves: finitely
many callers (`Accounts`), images (`DiskMountsProofs`), units and findings (`RunFinite`),
because they count; one caller at most that may update (`OneUpdater`, of `Predecessors` and
`Confirmations`), which is the orchestrator; and `Scanned = Files` in two theorems of the
registry, because files the scan passes over are those whose entries get lost (run
`registry_lost_entry`).

**`ChainLogProofs`.** `LocksCorrect`: the flock of a chain is held by thread t
exactly if t's ledger counts it. This is `LockInv`, inductive with the types: a
thread's phase determines which locks it holds and how often, so a nested entry
never frees an outer one, and a crash frees what its threads held. From it follows
mutual exclusion of the write sections, and from that `ChainInv`: what a writer
read under the lock is still the head of the chain when it writes. `ChainsLinked`
(every record has its place and its predecessor's digest) and `Refinement` (each
step maps to one extension of one chain or to a stutter) are consequences.
`AnswersHold` adds what a reserving thread knows of the audit chain between its
reservation and its answer. `DamageIsFinal` is an action property: no step writes
to a chain whose last line does not parse. `HealthHolds`: in `HealthInv` a last line is
incomplete only while the lock's holder is in its write, and the audit line a record
names is written or still reserved by its call (`Backed`). `OnceHolds`: call numbers are
apart, and each unfinished call has made just the appends it is past (`EachMade`, a count
kept by `EntriesAppend` and `DueStep`). `TypeCorrect` is the type invariant. `NoDeadlock` is
what makes calls return, as an invariant: who holds a lock is in an append, and waits for
nothing, or has reserved the audit line, and then waits at most for an append; so waiting
has at most two links and some call can always go on. `CallsFinite` counts the steps a
call has left: at most sixteen, fewer after each step of its thread, never more through a
step of another. `Blocked` is the negation of the guards of `Reserve` and `Acquire`; that
no other guard ever blocks a thread (a head that does not parse refuses the call) is an
ENABLED statement and seen on TLC's instance by `EveryCallReturns`.

**`RecordGatesProofs`.** A caller's gates are read long before its record lands. The
invariant `GatesInv` says that each job carries what its gates have seen (`JobHolds`):
its citations are on the audit log, its finding and its correlations on theirs. That
survives every other step because the logs only grow (`Extends`), and gives `Citations`
and `Resolution`. The state of a finding does change, and `update_finding` reads it
before it takes the lock: `Predecessors` and `Confirmations` therefore assume
`OneUpdater`, that one caller at most may update. `UpdatesInv` says that what a waiting
update has read is still the state of its finding, and that ids count the drafts, so that
no draft ever comes after a confirmation. `Accounts` (for finitely many callers) counts:
each landed record adds a call that is to log its success, each success line takes one
away, each death loses at most one. `CallsAssumption` says which fields callers pass.
`TypeCorrect` includes the lock of the audit log (`Locked`): nobody but its holder is
between a reservation and its record, and its holder is on the way to its own line. The
bound on findings is tested when a call begins, so calls at once may pass it.

**`SelfCorrectionLoopProofs`.** First `promote` by itself. `PromoteIsTotal`: for every
confidence, set of correlations and count, `promote` yields a decision of the right type.
`ConfirmedIsSettled`: no decision confirms a finding as DISPUTED.
`DisputesOutrank`: with a serious contradiction the decision is DRAFT and
DISPUTED and the contradiction is among its grounds. `DecisionsHaveGrounds`: only
R5 and R6 decide without a correlation, R5 only if there is none, which is why
the gate of `update_finding` never refuses a decision for lack of grounds.

Then all safety properties of the loop, for any
units, findings, kinds of correlation and bounds; of `RunEnds` all but its ENABLED
(`RunCounted`). None is inductive by itself; `LoopInv`
has, besides the types: one record per completed iteration, numbered (`Counted`); the
disputed set it remembers is that of the last record (`Remembered`); a draft is the
first record of its finding and a confirmation the last (`History`, `Final`,
`InFlight` for what is still to land); what this iteration and its records count as
added is what lay between its snapshots, no draft twice (`Deltas`); what is applied
now is on the chain (`AppliedNow`); and, as long as nothing has failed, the chains hold
nothing but what the steps of the loop asked for, each record with the iteration it
belongs to (`Complete`, `Rounds`, `Dispatched`). `OneConfirmation` then says that a
decision is taken on a finding that is not confirmed, and that nothing but that
decision's own update can confirm it. `DisputesHold` and `SilenceHolds` join `Rounds`
with the theorems on `promote`; `RequestsRun` and `DraftsCounted` follow from
`Complete` and `Deltas`. `RunFinite` is the termination argument: `StepsLeft`, what is
left of this iteration and a `Round` of steps for each iteration to come, falls with every
step of the loop and with nothing else. With the ENABLED of `RunEnds`, which TLC checks,
a run ends. `LedgerKept` shows `FindingLedger` implemented. Its invariant `LedgerInv`
adds that a record which disputes a finding rests on a contradiction PROMOTE has read
(`Verdicts`), so that each later decision, by `DisputesOutrank`, disputes it again
(`DisputesLast`); with `Final` the last record of a finding then tells how all of them
decide (`StandingIs`), and a record lands in the ledger in one step or in none.
`VerdictsStand`: no step changes a verdict, and reports stay true.

**`ExtractionsProofs`.** `OneLine`, `Agreement`, `Quiet`, `WrittenOnce`, `TypeCorrect`.
`StoreInv`: the audit lock is held by the worker in its reserved region; a worker that is
storing has a pair with no line; both files of a pair hold the result of its line, and
the line is its only one. The files precede the line, so who passes the check that
neither exists has found no line either, and files with a line are never written again.
`Knows` says what each worker may rely on where it stands, `Honest` what an answer says
of the line. `WrittenOnce` maps each step to one of `WriteOnceStore` or to a stutter: a line
that lands stores (`LandingStores`), an answer tells (`ReturnTells`). `Bounds` counts: the
calls that may still run their plugin and the runs so far are no more than the calls.
`NothingDropped`: as long as nothing failed, all lines parse, and files that exist have a
line or are being written by the holder of the lock (`CleanInv`); so a call that has a
result ends only with a result of its pair stored, whether it wrote it or was refused
because the files exist, and what is stored stays readable. `CallsEnd`: twelve steps at
most, none taken twice, and nobody takes the lock from its holder.

**`EvidenceRegistryProofs`.** `ListedStaysReadonly`: until somebody else changes a
mode, no entry of `CASE.yaml` names a writable file. Order alone (mode first, then
write) does not give it, since calls write what they loaded long before, over each
other's text, and can die half-way. The invariant `ModeInv` therefore says it of
every loaded copy, and of each call past its `chmod` that its file is read-only;
`SealedCut` shows that no cut-short write can break it.
`ManifestStays` and `ChangeTells` rest on a second invariant, `CaseInv`, about two worlds
that only shrink (`WorldsShrink`). In one, every file is one the scan recognises and
nothing but contents changes: analysts call when every file is listed (`Busy`), so a
call finds its entry and writes nothing, and the run alone rewrites `CASE.yaml`,
from a copy nobody has outdated (`Kept`). In the other the run has the case to itself;
`LoneRunTells` is the theorem of that one, whichever files are scanned. In both, what was
registered stays registered and no digest on record is one a file is still to get
(`Quiet`), so a suspect is in the queue of the re-hash or was told of (`Told`).
`TypeCorrect` stands on its own (`RangesInv`): digests and ids are no newer than the
counters, in what a crash cuts short too (`CutsAreEntries`), and the run registers
nothing but what its scan found.

**`AnalyzePhaseProofs`.** `Totals`, `OwnAnnounced`, for any jobs, workers and calls.
`PhaseInv` joins four things. `Sums`: a total that was read stays the total as long as
its reader holds `state_lock`, and `tokens` is the number of results already added.
`Analysts`: an analyst that is over has no server at work, a job that was answered has
an analyst that has ended or was killed, and completed calls leave a trace on the logs.
`Announcements`: only an analyst of the same name on the same host changes what a job
counts, so the count of a job that is alone starts at 0 and what is announced is its
own. `Returned`: findings that land after the step has counted are those of analysts
that were killed. `Tailed` has an invariant of its own, `TailInv`: the offset of the
tail thread is the end of a whole line; its batch is the run of lines before that; what is
shown or fell to a failed look-up are exactly the lines between the start and the batch.
`TypeCorrect` joins the two and adds that what a job had counted before its dispatch is at
most what it counts now (`CountsInv`), so that no announced number is below zero.
`NobodyStuck`: until the tail thread has ended, some guard of the loop, of the tail thread
or of a job holds, or a job waits for an analyst its timeout will kill. Who is busy can go
on, or waits for `state_lock`, whose holder can (`BusyGoesOn`); if nobody is, the first job
in the queue finds a place in the pool, or the step is joined (`QueueGoesOn`).

**`DiskMountsProofs`.** `Serialized`, and `Served`: the safety part of `MountService` is
implemented, for any threads, processes and commands, and finitely many images (the
mount table starts as a sequence of what the operator mounted). `MountInv` says that whatever is
mounted in the directory of an image is that image, since directory names are
told apart by the images' digests (`ShortIsInjective`), that caches keep only such paths,
and that an image's lock is held by exactly the thread that works for it. A path is
handed out right after the check that something read-only is mounted there, and by
`MountInv` that can only be the image of the path.
`NeverMeets`, `StaysMounted` and `ExitCleans` are about the smooth world, where
processes come one after the other and commands behave. `SmoothInv` has six clauses.
`Host`: what is mounted where, each place at most once. `Turns`: one process is up.
`Numbers`: starts are told apart. `Standing`: what each phase of an attempt knows of its
place. `Kept`: what a cache keeps is mounted. `Owned`: what the process mounted is in
its cache, or in the hands of the thread that will keep it or take it down; because of
it an orderly exit finds everything. `NobodyStuck`: who waits for an image's lock waits for
a thread of its own process that works for the image (`LocksAtHome`), and whoever has the
lock is nine steps at most from giving it up. `NoPathIsNone` says that no path is the mark of an
empty cache entry.

**`RecordQueriesProofs`.** `Marked`, `Covered`, `Balanced`, `Grouped`, for any
extractions and calls that satisfy `CasesAssumption` (records are lists and have the
columns of their plugin, the walk of a tree lists processes) and `CallsAssumption` (the
types of the tools' parameters). That the walk lists processes is assumed, and
evaluated on the instance, because it is a recursion over data. The operators select
and rank with CHOOSE, so the proofs begin with what is chosen: of a finite chain
(`IsChain`), `Ranked` lists each element once, at its rank (`RankedLists`), hence
`Ascending` and `Select` list finite sets of places in their order. `Marked`: a projection
shows only columns it was given, and the marks are taken over the same. `Covered`: in
`PageInv` the rows read so far are the records from some place on, one page after the
other, all pages but the last full. `Balanced`: the records of an extraction are the
first ones of each key, duplicates, and those without a key (`RecordsAddUp`); the rows of
a difference are those whose key the other side lacks (`DifferingCounted`). `Grouped`: one
more clause, an equality, keeps the matching records of that value (`HitsOfValue`), as
many as `Counter` counts; `Ahead` orders the values, by count and then by first meeting,
as a chain (`CounterRanks`); and numbering the occurrences of each value numbers the
records (`OccurrencesAddUp`).

Only model-checked: what depends on fairness or ENABLED (`EveryCallReturns`, the first
conjunct of `RunEnds`, `ResultsAreStored`, `EveryoneEnds`, the liveness of
`RefinesMountService`), which is out of the prover's reach; and `SubtreeWhole`, which is
about what a recursive walk over a tree collects, and would need induction over the tree.
The safety they stand on is proved. No wait is for ever: `NoDeadlock` (chains), `CallsEnd`
(extractions), `NobodyStuck` (ANALYZE, mounts). Nothing goes in circles: `CallsFinite`,
`CallsEnd`, `NobodyStuck` of the mounts, `RunFinite`; for ANALYZE this is not proved,
because the sum of all `uses` is a fold, and facts about folds need induction. What is left
to fairness is that a step that can be taken is, and, where threads compete for a lock,
that each obtains it.

## 5. What is not modelled, and why

* Hashing, JSON and YAML text: a digest is a fresh number, a line parses or it does
  not.
* RAG, reporting, parsers of tool output, prompts, schemas of records: data
  processing without state that others share. Runners: a plugin ends with a result or
  a failure.
* Staging and argument handling of the command lines: sequential set-up. Inventory and
  manifest: names are matched once, before a run, and nothing changes afterwards.
* The rejections log: best effort, unchained, read by nobody in a run.
* `display.py` but for its polling thread: rendering. `umount_all_for`: called by nobody.
* The demo data script.

## 6. How the project grew, and what is left

In the order of importance: `HashChains`, `ChainLog` and its proofs; `Promotion`;
`SelfCorrectionLoop`; `Extractions`; `EvidenceRegistry`; then `RecordGates`,
`RecordQueries`, `DiskMounts` over `MountService`, `AnalyzePhase`, the proofs about
extractions, gates, the loop, ANALYZE, mounts, the registry and queries,
`WriteOnceStore` and `FindingLedger`.

Left: host grouping of `inventory.py` as an operator against a reference definition.
