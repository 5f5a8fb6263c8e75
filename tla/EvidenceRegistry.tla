-------------------------- MODULE EvidenceRegistry --------------------------
(***************************************************************************)
(* The evidence registry: register_evidence (server/tools/evidence.py),    *)
(* the CASE.yaml it reads and rewrites as a whole without a lock, and the  *)
(* end-of-run re-hash (server/integrity.py).  One command line run after   *)
(* the other registers the files its scan finds, lets the analysts work,   *)
(* and re-hashes.  Analysts may call register_evidence meanwhile, each     *)
(* through an MCP server of its own, on any file in the evidence folder.   *)
(* Digests are numbers, a new one for every change of a file's content.    *)
(* The audit line behind every exit is a call of ChainLog.                 *)
(***************************************************************************)
EXTENDS Integers, Sequences

CONSTANTS
  Cli,          \* the process of the command line run
  Analysts,     \* MCP servers of analysts
  Files,        \* files in the evidence folder
  Scanned,      \* those the scan recognises as evidence
  NoFile,       \* the path of an entry cut before its path
  MaxRuns,      \* bound: command line runs
  MaxCalls,     \* bound: registrations by analysts
  MaxChanges,   \* bound: changes of a file's content from outside
  MaxFaults     \* bound: files removed, modes changed and processes that die

ASSUME NamesAssumption == Cli \notin Analysts /\ NoFile \notin Files
ASSUME ScanAssumption  == Scanned \subseteq Files
ASSUME BoundsAssumption ==
  /\ MaxRuns \in Nat /\ MaxCalls \in Nat /\ MaxChanges \in Nat
  /\ MaxFaults \in Nat

Workers == Analysts \cup {Cli}
Gone == 0     \* the digest of a file that does not exist
Cut  == 0     \* the id of an entry whose record does not validate

VARIABLES
  bytes,     \* bytes[f]: the digest of what the file holds
  readonly,  \* readonly[f]: the mode is 0o444
  doc,       \* the entries of CASE.yaml: [file, id, digest]
  parses,    \* CASE.yaml parses
  stage,     \* the run: "off", "register", "analyze", "verify"
  todo,      \* scanned files the run has not tried to register
  manifest,  \* [file, id] of the evidence the run works on
  queue,     \* entries the re-hash has still to check
  failed,    \* it has met a mismatch
  phase,     \* phase[w]: what register_evidence does next
  file,      \* file[w]: its argument
  seen,      \* seen[w]: the entries it loaded
  sha,       \* sha[w]: the digest it computed
  ids,       \* ids minted
  promised,  \* history: the records fresh registrations returned
  suspects,  \* history: files that had changed when the re-hash began
  verdict,   \* history: how the last run ended
  rejected,  \* history: this run had a registration rejected
  runs, calls, changes, removals, unlocks, crashes

disk    == <<bytes, readonly>>
yaml    == <<doc, parses>>
rehash  == <<queue, failed, suspects, verdict>>
course  == <<stage, todo, runs, rehash>>
request == <<file, seen, sha>>
outside == <<changes, removals, unlocks, crashes>>
vars == <<disk, yaml, course, manifest, rejected, phase, request, ids, promised,
          calls, outside>>

-----------------------------------------------------------------------------
Init ==
  /\ bytes = [f \in Files |-> 1] /\ readonly = [f \in Files |-> FALSE]
  /\ doc = <<>> /\ parses = TRUE
  /\ stage = "off" /\ todo = {} /\ manifest = {} /\ queue = <<>> /\ failed = FALSE
  /\ phase = [w \in Workers |-> "idle"]
  /\ \E f \in Files : file = [w \in Workers |-> f]
  /\ seen = [w \in Workers |-> <<>>] /\ sha = [w \in Workers |-> 0]
  /\ ids = 0 /\ promised = {} /\ suspects = {} /\ verdict = "none" /\ rejected = FALSE
  /\ runs = 0 /\ calls = 0 /\ changes = 0 /\ removals = 0
  /\ unlocks = 0 /\ crashes = 0

Goto(w, where) == phase' = [phase EXCEPT ![w] = where]

\* Files somebody was promised a digest of that is no longer theirs.
Changed == {r.file : r \in {q \in promised : bytes[q.file] # q.digest}}

-----------------------------------------------------------------------------
(* register_evidence. *)

Begin(w, f) ==
  /\ phase[w] = "idle"
  /\ file' = [file EXCEPT ![w] = f]
  /\ Goto(w, "load")
  /\ UNCHANGED <<disk, yaml, rehash, stage, manifest, rejected, seen, sha, ids, promised, outside>>

\* The run lists the record in its manifest.
Return(w, id) ==
  /\ Goto(w, "idle")
  /\ manifest' = IF w = Cli THEN manifest \cup {[file |-> file[w], id |-> id]} ELSE manifest
  /\ UNCHANGED <<stage, rejected>>

\* The run warns of a file it cannot register and goes on without it.
Raise(w) == Goto(w, "idle") /\ UNCHANGED <<stage, manifest, rejected>>

\* It does not catch the parser's exception.
RaiseYaml(w) ==
  /\ Goto(w, "idle")
  /\ stage' = IF w = Cli THEN "off" ELSE stage
  /\ UNCHANGED <<manifest, rejected>>

Reject(w) ==
  /\ Goto(w, "idle")
  /\ rejected' = (rejected \/ w = Cli)
  /\ UNCHANGED <<stage, manifest>>

\* _find_existing_evidence_entry: the first entry of the path, if it validates.
Existing(entries, f) ==
  {entries[k] : k \in {j \in DOMAIN entries :
     /\ entries[j].file = f /\ entries[j].id # Cut
     /\ \A i \in 1 .. (j - 1) : entries[i].file # f}}

\* Mutant of Recorded: a file that is registered is always hashed anew.
RecordedNever(w) == {}

\* The record a mode of 0o444 lets the call trust.
Recorded(w) == IF readonly[file[w]] THEN Existing(doc, file[w]) ELSE {}

\* The path exists; CASE.yaml and the file's mode are read.
Load(w) ==
  /\ phase[w] = "load"
  /\ \/ bytes[file[w]] = Gone /\ Raise(w) /\ UNCHANGED seen
     \/ bytes[file[w]] # Gone /\ ~parses /\ RaiseYaml(w) /\ UNCHANGED seen
     \/ /\ bytes[file[w]] # Gone /\ parses
        /\ seen' = [seen EXCEPT ![w] = doc]
        /\ Goto(w, IF Recorded(w) # {} THEN "compare" ELSE "hash")
        /\ UNCHANGED <<stage, manifest, rejected>>
  /\ UNCHANGED <<disk, yaml, rehash, todo, runs, file, sha, ids, promised, calls, outside>>

\* The idempotent skip re-hashes the file; one that vanished raises as well.
Compare(w) ==
  /\ phase[w] = "compare"
  /\ \E e \in Existing(seen[w], file[w]) :
       \/ bytes[file[w]] = e.digest /\ Return(w, e.id)
       \/ bytes[file[w]] \notin {e.digest, Gone} /\ Reject(w)
       \/ bytes[file[w]] = Gone /\ Raise(w)
  /\ UNCHANGED <<disk, yaml, rehash, todo, runs, request, ids, promised, calls, outside>>

Hash(w) ==
  /\ phase[w] = "hash"
  /\ \/ bytes[file[w]] = Gone /\ Raise(w) /\ UNCHANGED sha
     \/ /\ bytes[file[w]] # Gone
        /\ sha' = [sha EXCEPT ![w] = bytes[file[w]]]
        /\ Goto(w, "chmod") /\ UNCHANGED <<stage, manifest, rejected>>
  /\ UNCHANGED <<disk, yaml, rehash, todo, runs, file, seen, ids, promised, calls, outside>>

\* Mutant of Chmod: the mode is left as it is.
ChmodNothing(w) ==
  /\ phase[w] = "chmod"
  /\ Goto(w, "open") /\ UNCHANGED <<stage, manifest, rejected>>
  /\ UNCHANGED <<disk, yaml, rehash, todo, runs, request, ids, promised, calls, outside>>

Chmod(w) ==
  /\ phase[w] = "chmod"
  /\ \/ bytes[file[w]] = Gone /\ Raise(w) /\ UNCHANGED readonly
     \/ /\ bytes[file[w]] # Gone
        /\ readonly' = [readonly EXCEPT ![file[w]] = TRUE]
        /\ Goto(w, "open") /\ UNCHANGED <<stage, manifest, rejected>>
  /\ UNCHANGED <<bytes, yaml, rehash, todo, runs, request, ids, promised, calls, outside>>

\* open("w") empties CASE.yaml.
Open(w) ==
  /\ phase[w] = "open"
  /\ doc' = <<>> /\ parses' = TRUE
  /\ Goto(w, "write")
  /\ UNCHANGED <<disk, course, manifest, rejected, request, ids, promised, calls, outside>>

NewEntry(w) == [file |-> file[w], id |-> ids + 1, digest |-> sha[w]]

\* Mutant of Rewritten: a new record replaces an older one of the path.
RewrittenReplacing(w) ==
  Append(SelectSeq(seen[w], LAMBDA e : e.file # file[w]), NewEntry(w))

\* What the call writes: the entries it loaded at its start, and its own.
Rewritten(w) == Append(seen[w], NewEntry(w))

\* Text written over that of a sibling that has written meanwhile may leave
\* the end of the longer text behind.
Write(w) ==
  /\ phase[w] = "write"
  /\ doc' = Rewritten(w)
  /\ parses' = TRUE \/ (doc # <<>> /\ parses' = FALSE)
  /\ ids' = ids + 1
  /\ promised' = promised \cup {NewEntry(w)}
  /\ Return(w, ids + 1)
  /\ UNCHANGED <<disk, rehash, todo, runs, request, calls, outside>>

Register(w) ==
  Load(w) \/ Compare(w) \/ Hash(w) \/ Chmod(w) \/ Open(w) \/ Write(w)

-----------------------------------------------------------------------------
(* The command line run. *)

StartRun ==
  /\ stage = "off" /\ phase[Cli] = "idle" /\ runs < MaxRuns
  /\ stage' = "register" /\ todo' = Scanned /\ manifest' = {} /\ rejected' = FALSE
  /\ runs' = runs + 1
  /\ UNCHANGED <<disk, yaml, rehash, phase, request, ids, promised, calls, outside>>

RegisterNext ==
  /\ stage = "register"
  /\ \E f \in todo : Begin(Cli, f) /\ todo' = todo \ {f}
  /\ UNCHANGED <<runs, calls>>

\* A run without evidence is an error.
StartAnalysis ==
  /\ stage = "register" /\ todo = {} /\ phase[Cli] = "idle"
  /\ stage' = IF manifest = {} THEN "off" ELSE "analyze"
  /\ UNCHANGED <<disk, yaml, rehash, todo, runs, manifest, rejected, phase, request, ids,
                 promised, calls, outside>>

AnalystCalls(a) ==
  /\ stage = "analyze" /\ calls < MaxCalls
  /\ \E f \in Files : Begin(a, f)
  /\ calls' = calls + 1
  /\ UNCHANGED <<todo, runs>>

\* verify_evidence_integrity reads CASE.yaml.  A call of an analyst whose
\* dispatch was killed may still be under way.
StartVerify ==
  /\ stage = "analyze"
  /\ stage' = IF parses THEN "verify" ELSE "off"
  /\ queue' = IF parses THEN doc ELSE queue
  /\ failed' = FALSE /\ suspects' = Changed /\ verdict' = "none"
  /\ UNCHANGED <<disk, yaml, todo, runs, manifest, rejected, phase, request, ids, promised,
                 calls, outside>>

\* An entry whose file differs, or cannot be read, or has no path or digest.
Mismatch(e) == e.file = NoFile \/ e.digest = Gone \/ bytes[e.file] # e.digest

VerifyNext ==
  /\ stage = "verify" /\ queue # <<>>
  /\ failed' = (failed \/ Mismatch(Head(queue)))
  /\ queue' = Tail(queue)
  /\ UNCHANGED <<disk, yaml, stage, todo, runs, suspects, verdict, manifest, rejected, phase,
                 request, ids, promised, calls, outside>>

\* Any failure is fatal, after every entry has been checked.
EndRun ==
  /\ stage = "verify" /\ queue = <<>>
  /\ verdict' = IF failed THEN "fatal" ELSE "trusted"
  /\ stage' = "off"
  /\ UNCHANGED <<disk, yaml, todo, runs, queue, failed, suspects, manifest, rejected, phase,
                 request, ids, promised, calls, outside>>

-----------------------------------------------------------------------------
(* What happens from outside. *)

Fault == removals + unlocks + crashes < MaxFaults

\* Somebody rewrites a file, or puts one back, and keeps its mode.
Change(f) ==
  /\ changes < MaxChanges /\ changes' = changes + 1
  /\ bytes' = [bytes EXCEPT ![f] = changes + 2]
  /\ UNCHANGED <<readonly, yaml, course, manifest, rejected, phase, request, ids, promised,
                 calls, removals, unlocks, crashes>>

Remove(f) ==
  /\ Fault /\ removals' = removals + 1
  /\ bytes' = [bytes EXCEPT ![f] = Gone]
  /\ UNCHANGED <<readonly, yaml, course, manifest, rejected, phase, request, ids, promised,
                 calls, changes, unlocks, crashes>>

Unlock(f) ==
  /\ Fault /\ unlocks' = unlocks + 1
  /\ readonly[f] /\ readonly' = [readonly EXCEPT ![f] = FALSE]
  /\ UNCHANGED <<bytes, yaml, course, manifest, rejected, phase, request, ids, promised,
                 calls, changes, removals, crashes>>

\* What a write cut short leaves of CASE.yaml: whole entries, and what has
\* arrived of the next one.
Starts(entries) == {SubSeq(entries, 1, k) : k \in 0..(Len(entries) - 1)}

CutEntries(e) ==
  {[file |-> NoFile, id |-> Cut, digest |-> 0], [file |-> e.file, id |-> Cut, digest |-> 0],
   [file |-> e.file, id |-> Cut, digest |-> e.digest]}

CutShort(entries) ==
  UNION {{p} \cup {Append(p, c) : c \in CutEntries(entries[Len(p) + 1])} : p \in Starts(entries)}

Die(w) ==
  /\ Fault /\ crashes' = crashes + 1
  /\ phase[w] # "idle" \/ (w = Cli /\ stage # "off")
  /\ \/ phase[w] = "write" /\ doc' \in CutShort(Rewritten(w)) /\ parses' \in BOOLEAN
     \/ UNCHANGED yaml
  /\ Goto(w, "idle")
  /\ stage' = IF w = Cli THEN "off" ELSE stage
  /\ UNCHANGED <<disk, rehash, todo, runs, manifest, rejected, request, ids, promised, calls,
                 changes, removals, unlocks>>

Next ==
  \/ \E w \in Workers : Register(w) \/ Die(w)
  \/ StartRun \/ RegisterNext \/ StartAnalysis \/ StartVerify \/ VerifyNext \/ EndRun
  \/ \E a \in Analysts : AnalystCalls(a)
  \/ \E f \in Files : Change(f) \/ Remove(f) \/ Unlock(f)

Spec == Init /\ [][Next]_vars

-----------------------------------------------------------------------------
(* Properties. *)

Entries == [file : Files \cup {NoFile}, id : 0..ids, digest : 0..(changes + 1)]

\* Every variable keeps its type, and no analysis starts while a scanned file has
\* not been tried.
TypeOK ==
  /\ bytes \in [Files -> 0..(changes + 1)] /\ readonly \in [Files -> BOOLEAN]
  /\ doc \in Seq(Entries) /\ parses \in BOOLEAN /\ queue \in Seq(Entries)
  /\ stage \in {"off", "register", "analyze", "verify"}
  /\ todo \subseteq Scanned /\ (stage \in {"analyze", "verify"} => todo = {})
  /\ manifest \subseteq [file : Scanned, id : 1..ids]
  /\ phase \in [Workers -> {"idle", "load", "compare", "hash", "chmod", "open", "write"}]
  /\ file \in [Workers -> Files] /\ sha \in [Workers -> 0..(changes + 1)]
  /\ seen \in [Workers -> Seq(Entries)]
  /\ verdict \in {"none", "fatal", "trusted"}

\* Whoever registers at once and whoever dies: CASE.yaml never names a file that
\* can still be written to, unless somebody else changed its mode.
ListedIsReadonly ==
  unlocks = 0 => \A k \in DOMAIN doc : doc[k].file # NoFile => readonly[doc[k].file]

\* Nothing made a file of the case new to the registry again.
Steady == crashes = 0 /\ unlocks = 0 /\ removals = 0

\* Nobody but the run has registered anything, and nothing has died.
Alone == crashes = 0 /\ calls = 0

\* Analysts may call register_evidence on registered files, at once and over
\* and over, and files may change meanwhile: no file ever has two entries, and
\* what the run works on stays registered under the id its manifest gives.
ManifestHolds ==
  Steady =>
    /\ \A j, k \in DOMAIN doc : doc[j].file = doc[k].file => j = k
    /\ stage \in {"analyze", "verify"} =>
         \A m \in manifest : \E k \in DOMAIN doc : doc[k].file = m.file /\ doc[k].id = m.id

\* A run that ends trusted had no file whose content differed from what any
\* registration, of this run or an earlier one, recorded of it, even one
\* registered again after somebody gave it another mode.
ChangeIsFatal ==
  (Steady \/ Alone) /\ verdict = "trusted" => suspects = {}

-----------------------------------------------------------------------------
(* What docs and comments say and the code does not do. *)

\* server/main.py: register_evidence records the entry in CASE.yaml.
RegisteredIsRecorded ==
  parses /\ (\A w \in Workers : phase[w] # "write") =>
    \A r \in promised : \E k \in DOMAIN doc : doc[k].id = r.id

\* evidence.py: a hash mismatch is a fatal rejection that spares the run.
RejectionSparesRun == stage = "analyze" => ~rejected
=============================================================================
