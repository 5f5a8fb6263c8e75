------------------------- MODULE ExtractionsProofs -------------------------
(***************************************************************************)
(* For any number of workers, pairs, calls and faults: a pair has at most  *)
(* one line, all answers about it agree, no reader meets a false alarm of  *)
(* tampering, and the store is written once.  The argument: from the check *)
(* that neither file exists to the line on the chain one worker holds the  *)
(* audit lock; the files of a pair exist before its line does, so that     *)
(* nobody checks behind the line; and files that have a line are never     *)
(* written again.                                                          *)
(***************************************************************************)
EXTENDS Extractions, SequenceTheorems, FiniteSetTheorems, TLAPS

Entries == [pair : Pairs, run : Nat \ {0}, ok : BOOLEAN]

\* The phases inside the reserved audit line, and those of them in which the
\* files are being written and the line is not there yet.
Storing == {"json", "json_flush", "sidecar", "sidecar_flush", "append", "append_flush"}
Reserved == {"check", "audit"} \cup Storing
Phases == {"idle", "probe", "scan", "find", "read_json", "read_sidecar", "run", "reserve"}
            \cup Reserved

Types ==
  /\ json \in [Pairs -> Int] /\ sidecar \in [Pairs -> Int]
  /\ lines \in Seq(Entries)
  /\ phase \in [Workers -> Phases] /\ tool \in [Workers -> {"tier1", "tier2"}]
  /\ pair \in [Workers -> Pairs] /\ run \in [Workers -> Nat] /\ nruns \in Nat
  /\ got \in [Workers -> [chain : Int, json : Int]]

\* The audit lock is held by the worker that is in its reserved region.
Locks == \A w \in Workers : lock = w <=> phase[w] \in Reserved

OnChain(p, r) == \E k \in DOMAIN lines : lines[k].pair = p /\ lines[k].run = r
Listed(p) == \E k \in DOMAIN lines : lines[k].pair = p

\* Every line is the only one of its pair, and both files hold its result.
Backed ==
  \A k \in DOMAIN lines :
    /\ json[lines[k].pair] = lines[k].run /\ sidecar[lines[k].pair] = lines[k].run
    /\ \A j \in DOMAIN lines : lines[j].pair = lines[k].pair => j = k

\* What a worker may rely on where it stands.
Knows(w) ==
  /\ phase[w] \in Storing => ~ Listed(pair[w])
  /\ phase[w] \in Reserved \cup {"reserve"} => run[w] # 0
  /\ phase[w] \in {"sidecar", "sidecar_flush", "append", "append_flush"} =>
       json[pair[w]] = run[w]
  /\ phase[w] \in {"append", "append_flush"} => sidecar[pair[w]] = run[w]
  /\ phase[w] = "audit" => OnChain(pair[w], run[w])
  /\ phase[w] = "find" /\ tool[w] = "tier1" => Listed(pair[w])
  /\ phase[w] \in {"read_json", "read_sidecar"} => OnChain(pair[w], got[w].chain)
  /\ phase[w] = "read_sidecar" => got[w].json = got[w].chain

\* What an answer says is on the chain.
Honest(a) ==
  /\ a.outcome \in {"fresh", "cached", "query"} => OnChain(a.pair, a.run)
  /\ a.outcome # "tampered"
  /\ a.tool = "tier1" => a.outcome # "not_found"

StoreInv ==
  /\ Types /\ Locks /\ Backed
  /\ \A w \in Workers : Knows(w)
  /\ \A a \in answers : Honest(a)

-----------------------------------------------------------------------------
(* The chain. *)

\* A pair that has a line has one entry: its own.
LEMMA EntryIsTheLine ==
  ASSUME Types, Backed, NEW p \in Pairs, Matches(p) # {}
  PROVE  Entry(p) \in DOMAIN lines /\ lines[Entry(p)].pair = p
<1>1. PICK k \in DOMAIN lines : lines[k].pair = p
  BY DEF Matches
<1>2. Matches(p) = {k}
  BY <1>1 DEF Matches, Backed
<1>3. k <= k
  BY DEF Types
<1>4. Entry(p) = k
  BY <1>2, <1>3 DEF Entry, Min
<1> QED BY <1>1, <1>4

\* A step that leaves the files and the chain alone and moves one worker.
LEMMA QuietStep ==
  ASSUME StoreInv, NEW w \in Workers, Types', Locks', Knows(w)',
         json' = json, sidecar' = sidecar, lines' = lines,
         \A v \in Workers \ {w} : /\ phase'[v] = phase[v] /\ tool'[v] = tool[v]
                                  /\ pair'[v] = pair[v] /\ run'[v] = run[v]
                                  /\ got'[v] = got[v],
         \A a \in answers' \ answers : Honest(a)
  PROVE  StoreInv'
<1>1. Backed'
  BY DEF StoreInv, Backed
<1>2. \A v \in Workers : Knows(v)'
  BY DEF StoreInv, Knows, OnChain, Listed
<1>3. \A a \in answers' : Honest(a)
  BY DEF StoreInv
<1>4. \A a \in answers' : Honest(a)'
  BY <1>3 DEF Honest, OnChain
<1> QED BY <1>1, <1>2, <1>4 DEF StoreInv

LEMMA LineTyped ==
  ASSUME Types, NEW k \in DOMAIN lines
  PROVE  lines[k].pair \in Pairs /\ lines[k].run \in Nat \ {0} /\ lines[k].ok \in BOOLEAN
<1>1. lines[k] \in Entries
  BY DEF Types
<1> QED BY <1>1 DEF Entries

\* A worker that has read a line knows its files.
LEMMA LineIsBacked ==
  ASSUME Types, Backed, NEW p \in Pairs, NEW r, OnChain(p, r)
  PROVE  json[p] = r /\ sidecar[p] = r /\ r \in Nat \ {0}
<1>1. PICK k \in DOMAIN lines : lines[k].pair = p /\ lines[k].run = r
  BY DEF OnChain
<1>2. lines[k] \in Entries
  BY DEF Types
<1> QED BY <1>1, <1>2 DEF Backed, Entries

LEMMA GotTyped ==
  ASSUME Types, NEW w \in Workers, NEW r \in Int
  PROVE  /\ [got EXCEPT ![w].chain = r] \in [Workers -> [chain : Int, json : Int]]
         /\ [got EXCEPT ![w].chain = r][w].chain = r
         /\ [got EXCEPT ![w].json = r] \in [Workers -> [chain : Int, json : Int]]
         /\ [got EXCEPT ![w].json = r][w].chain = got[w].chain
         /\ [got EXCEPT ![w].json = r][w].json = r
         /\ \A v \in Workers \ {w} : /\ [got EXCEPT ![w].chain = r][v] = got[v]
                                     /\ [got EXCEPT ![w].json = r][v] = got[v]
<1>1. [got[w] EXCEPT !.chain = r] = [chain |-> r, json |-> got[w].json]
  BY DEF Types
<1>2. [got[w] EXCEPT !.json = r] = [chain |-> got[w].chain, json |-> r]
  BY DEF Types
<1> QED BY <1>1, <1>2 DEF Types

-----------------------------------------------------------------------------
(* Steps that read. *)

LEMMA CallStep == ASSUME StoreInv, NEW w \in Workers, Call(w) PROVE StoreInv'
<1>1. Types' /\ Locks'
  BY DEF Call, StoreInv, Types, Locks, Goto, files, Phases, Storing, Reserved
<1>2. Knows(w)'
  BY DEF Call, StoreInv, Types, Knows, Goto, files, Phases, Storing, Reserved
<1> QED BY <1>1, <1>2, QuietStep DEF Call, StoreInv, Types, Goto, files

LEMMA ProbeStep == ASSUME StoreInv, NEW w \in Workers, Probe(w) PROVE StoreInv'
<1>1. Types' /\ Locks'
  BY DEF Probe, StoreInv, Types, Locks, Goto, files, request, Phases, Storing, Reserved
<1>2. Knows(w)'
  BY DEF Probe, StoreInv, Types, Knows, Goto, files, request, Phases, Storing, Reserved
<1> QED BY <1>1, <1>2, QuietStep DEF Probe, StoreInv, Types, Goto, files, request

\* What a call adds to the answers when it raises, or returns behind its line.
LEMMA NewAnswer ==
  ASSUME NEW w \in Workers, NEW o, NEW r, Return(w, o, r), NEW a \in answers' \ answers
  PROVE  a.pair = pair[w] /\ a.tool = tool[w] /\ a.outcome = o /\ a.run = r
  BY DEF Return

LEMMA ScanStep == ASSUME StoreInv, NEW w \in Workers, Scan(w) PROVE StoreInv'
<1>1. Types' /\ Locks'
  BY DEF Scan, Raise, Return, StoreInv, Types, Locks, Goto, files, request, Phases, Storing,
         Reserved
<1>2. Knows(w)'
  BY DEF Scan, Raise, Return, StoreInv, Types, Knows, Goto, files, request, Phases, Storing,
         Reserved, Matches, Listed
<1>3. \A a \in answers' \ answers : Honest(a)
  BY NewAnswer DEF Scan, Raise, Honest
<1> QED BY <1>1, <1>2, <1>3, QuietStep
        DEF Scan, Raise, Return, StoreInv, Types, Goto, files, request

LEMMA FindStep == ASSUME StoreInv, NEW w \in Workers, Find(w) PROVE StoreInv'
<1> USE DEF Find, NotFound, Raise, Answer
<1>1. CASE got' = got /\ phase'[w] = "idle"
  <2>1. Types' /\ Locks'
    BY <1>1 DEF Return, StoreInv, Types, Locks, Goto, files, request, Phases, Storing, Reserved
  <2>2. Knows(w)'
    BY <1>1 DEF Knows, Storing, Reserved
  <2>3. tool[w] = "tier1" => Matches(pair[w]) # {}
    BY DEF StoreInv, Knows, Listed, Matches
  <2>4. \A a \in answers' \ answers : Honest(a)
    BY <2>3, NewAnswer DEF Honest, Goto
  <2> QED BY <1>1, <2>1, <2>2, <2>4, QuietStep
          DEF Return, StoreInv, Types, Goto, files, request
<1>2. CASE /\ Matches(pair[w]) # {} /\ Goto(w, "read_json") /\ UNCHANGED <<audit, answers>>
           /\ got' = [got EXCEPT ![w].chain = lines[Entry(pair[w])].run]
  <2>1. OnChain(pair[w], lines[Entry(pair[w])].run)
    BY <1>2, EntryIsTheLine DEF StoreInv, Types, OnChain
  <2>2. lines[Entry(pair[w])].run \in Int
    BY <2>1, LineIsBacked DEF StoreInv, Types
  <2>3. /\ got' \in [Workers -> [chain : Int, json : Int]]
        /\ got'[w].chain = lines[Entry(pair[w])].run
        /\ \A v \in Workers \ {w} : got'[v] = got[v]
    BY <1>2, <2>2, GotTyped DEF StoreInv
  <2>4. Types' /\ Locks'
    BY <1>2, <2>3 DEF StoreInv, Types, Locks, Goto, files, request, Phases, Storing, Reserved
  <2>5. Knows(w)'
    BY <1>2, <2>1, <2>3 DEF StoreInv, Types, Knows, Goto, files, request, Storing, Reserved, OnChain
  <2> QED BY <1>2, <2>3, <2>4, <2>5, QuietStep DEF StoreInv, Types, Goto, files, request
<1> QED BY <1>1, <1>2 DEF Return, StoreInv, Types, Goto

LEMMA ReadJsonStep == ASSUME StoreInv, NEW w \in Workers, ReadJson(w) PROVE StoreInv'
<1>1. phase[w] = "read_json" /\ OnChain(pair[w], got[w].chain)
  BY DEF ReadJson, StoreInv, Knows
<1>2. /\ json[pair[w]] = got[w].chain /\ got[w].chain # 0 /\ got[w].chain \in Int
      /\ sidecar[pair[w]] = got[w].chain
  BY <1>1, LineIsBacked DEF StoreInv, Types
<1>3. FilesExist(pair[w])
  BY <1>2 DEF FilesExist, Absent
<1>4. /\ got' = [got EXCEPT ![w].json = json[pair[w]]] /\ Goto(w, "read_sidecar")
      /\ UNCHANGED <<audit, answers, files, lock, request, run, nruns, faults>>
  BY <1>3 DEF ReadJson
<1>5. /\ got' \in [Workers -> [chain : Int, json : Int]]
      /\ got'[w].chain = got[w].chain /\ got'[w].json = got[w].chain
      /\ \A v \in Workers \ {w} : got'[v] = got[v]
  BY <1>2, <1>4, GotTyped DEF StoreInv
<1>6. Types' /\ Locks'
  BY <1>1, <1>4, <1>5 DEF StoreInv, Types, Locks, Goto, files, request, Phases, Storing, Reserved
<1>7. Knows(w)'
  BY <1>1, <1>4, <1>5 DEF StoreInv, Types, Knows, Goto, files, request, Storing, Reserved, OnChain
<1> QED BY <1>4, <1>5, <1>6, <1>7, QuietStep DEF StoreInv, Types, Goto, files, request

LEMMA ReadSidecarStep == ASSUME StoreInv, NEW w \in Workers, ReadSidecar(w) PROVE StoreInv'
<1> USE DEF ReadSidecar, Answer
<1>0. got[w].json = got[w].chain /\ OnChain(pair[w], got[w].chain)
  BY DEF StoreInv, Knows
<1>1. sidecar[pair[w]] = got[w].chain
  BY <1>0, LineIsBacked DEF StoreInv, Types
<1>2. Types' /\ Locks'
  BY DEF Return, StoreInv, Types, Locks, Goto, files, request, Phases, Storing, Reserved
<1>3. Knows(w)'
  BY DEF Return, StoreInv, Types, Knows, Goto, files, request, Phases, Storing, Reserved
<1>4. \A a \in answers' \ answers : Honest(a)
  BY <1>0, <1>1, NewAnswer DEF Honest
<1> QED BY <1>2, <1>3, <1>4, QuietStep
        DEF Return, StoreInv, Types, Goto, files, request

-----------------------------------------------------------------------------
(* Steps that store. *)

LEMMA OneInside ==
  ASSUME Locks, NEW v \in Workers, NEW w \in Workers,
         phase[v] \in Reserved, phase[w] \in Reserved
  PROVE  v = w
  BY DEF Locks

LEMMA RunStep == ASSUME StoreInv, NEW w \in Workers, Run(w) PROVE StoreInv'
<1> USE DEF Run, Answer
<1>1. Types'
  <2>1. run' \in [Workers -> Nat] /\ nruns' \in Nat
    <3>1. \/ run' = run /\ nruns' = nruns
          \/ run' = [run EXCEPT ![w] = nruns + 1] /\ nruns' = nruns + 1
      OBVIOUS
    <3>2. nruns + 1 \in Nat
      BY DEF StoreInv, Types
    <3> QED BY ONLY <3>1, <3>2, StoreInv DEF StoreInv, Types
  <2>2. phase' \in [Workers -> Phases]
    BY DEF Return, StoreInv, Types, Goto, Phases, Reserved
  <2> QED BY <2>1, <2>2 DEF StoreInv, Types, files, request
<1>2. Locks'
  BY DEF Return, StoreInv, Types, Locks, Goto, files, Storing, Reserved
<1>3. Knows(w)'
  BY DEF Return, StoreInv, Types, Knows, Goto, files, request, Phases, Storing, Reserved
<1>4. \A a \in answers' \ answers : Honest(a)
  BY NewAnswer DEF Honest
<1> QED BY <1>1, <1>2, <1>3, <1>4, QuietStep
        DEF Return, StoreInv, Types, Goto, files, request

LEMMA ReserveStep == ASSUME StoreInv, NEW w \in Workers, Reserve(w) PROVE StoreInv'
<1> USE DEF Reserve
<1>1. \A v \in Workers : phase[v] \notin Reserved
  BY NoOneAssumption DEF StoreInv, Locks
<1>2. Types'
  BY DEF StoreInv, Types, Goto, files, request, Phases, Reserved
<1>3. Locks'
  BY <1>1 DEF StoreInv, Types, Locks, Goto, files, request, Storing, Reserved
<1>4. Knows(w)'
  BY DEF StoreInv, Types, Knows, Goto, files, request, Phases, Storing, Reserved
<1> QED BY <1>2, <1>3, <1>4, QuietStep DEF StoreInv, Types, Goto, files, request

\* A worker leaves its reserved region.
LEMMA Unlocked ==
  ASSUME Types, Locks, NEW w \in Workers, phase[w] \in Reserved, lock' = NoOne,
         NEW p \in Phases \ Reserved, Goto(w, p)
  PROVE  Locks'
<1>1. \A v \in Workers : phase[v] \in Reserved => v = w
  BY OneInside
<1> QED BY <1>1, NoOneAssumption DEF Types, Locks, Goto

LEMMA CheckStep == ASSUME StoreInv, NEW w \in Workers, Check(w) PROVE StoreInv'
<1> USE DEF Check, Raise
<1>1. Types'
  BY DEF Return, StoreInv, Types, Goto, files, request, Phases, Storing, Reserved
<1>2. Locks'
  <2>1. CASE lock' = NoOne /\ Goto(w, "idle")
    BY <2>1, Unlocked DEF StoreInv, Phases, Reserved, Storing
  <2>2. CASE lock' = lock /\ Goto(w, "json")
    BY <2>2 DEF StoreInv, Types, Locks, Goto, Reserved, Storing
  <2> QED BY <2>1, <2>2 DEF Return
<1>3. Knows(w)'
  <2>1. json[pair[w]] = Absent => ~ Listed(pair[w])
    BY LineTyped DEF StoreInv, Backed, Listed, Absent
  <2> QED BY <2>1 DEF Return, StoreInv, Types, Knows, Goto, files, request, Storing, Reserved,
                      Listed
<1>4. \A a \in answers' \ answers : Honest(a)
  BY NewAnswer DEF Honest
<1> QED BY <1>1, <1>2, <1>3, <1>4, QuietStep
        DEF Return, StoreInv, Types, Goto, files, request

LEMMA AuditFreshStep == ASSUME StoreInv, NEW w \in Workers, AuditFresh(w) PROVE StoreInv'
<1> USE DEF AuditFresh
<1>1. Types'
  BY DEF Return, StoreInv, Types, Goto, files, request, Phases, Storing, Reserved
<1>2. Locks'
  BY Unlocked DEF Return, StoreInv, Phases, Reserved, Storing
<1>3. Knows(w)'
  BY DEF Return, StoreInv, Types, Knows, Goto, files, request, Storing, Reserved
<1>4. \A a \in answers' \ answers : Honest(a)
  BY NewAnswer DEF Honest, StoreInv, Knows
<1> QED BY <1>1, <1>2, <1>3, <1>4, QuietStep
        DEF Return, StoreInv, Types, Goto, files, request

\* While a worker writes the files of a pair, what the lines, the other workers
\* and the answers say of files is about other pairs.
LEMMA WriteStep ==
  ASSUME StoreInv, NEW w \in Workers, phase[w] \in Storing, NEW p \in Storing, Goto(w, p),
         Types', lock' = lock, lines' = lines, answers' = answers,
         UNCHANGED <<tool, pair, run, got>>, Knows(w)',
         \A q \in Pairs \ {pair[w]} : json'[q] = json[q] /\ sidecar'[q] = sidecar[q]
  PROVE  StoreInv'
<1>1. ~ Listed(pair[w])
  BY DEF StoreInv, Knows
<1>2. Backed'
  BY <1>1, LineTyped DEF StoreInv, Backed, Listed
<1>3. Locks'
  BY DEF StoreInv, Types, Locks, Goto, Reserved
<1>4. ASSUME NEW v \in Workers \ {w} PROVE Knows(v)'
  <2>1. phase'[v] = phase[v] /\ phase[v] \notin Reserved
    BY <1>4, OneInside DEF StoreInv, Types, Goto, Reserved
  <2> QED BY <1>4, <2>1 DEF StoreInv, Knows, OnChain, Listed, Reserved, Storing
<1>5. \A a \in answers' : Honest(a)'
  BY DEF StoreInv, Honest, OnChain
<1> QED BY <1>2, <1>3, <1>4, <1>5 DEF StoreInv

LEMMA WriteJsonStep == ASSUME StoreInv, NEW w \in Workers, WriteJson(w) PROVE StoreInv'
<1> USE DEF WriteJson
<1>1. Types'
  <2>1. json' \in [Pairs -> Int]
    BY DEF StoreInv, Types, Torn
  <2> QED BY <2>1 DEF StoreInv, Types, Goto, request, Phases, Storing, Reserved
<1>2. Knows(w)'
  BY DEF StoreInv, Types, Knows, Goto, request, Storing, Reserved, Listed
<1> QED BY <1>1, <1>2, WriteStep DEF StoreInv, Types, request, Storing

LEMMA WriteSidecarStep == ASSUME StoreInv, NEW w \in Workers, WriteSidecar(w) PROVE StoreInv'
<1> USE DEF WriteSidecar
<1>1. Types'
  <2>1. sidecar' \in [Pairs -> Int]
    BY DEF StoreInv, Types, Torn
  <2> QED BY <2>1 DEF StoreInv, Types, Goto, request, Phases, Storing, Reserved
<1>2. Knows(w)'
  BY DEF StoreInv, Types, Knows, Goto, request, Storing, Reserved, Listed
<1> QED BY <1>1, <1>2, WriteStep DEF StoreInv, Types, request, Storing

\* The record is on the chain, behind files that hold its result.
LEMMA LandStep ==
  ASSUME StoreInv, NEW w \in Workers, phase[w] = "append_flush", NEW tail, LineLands(w, tail)
  PROVE  /\ lines' \in Seq(Entries) /\ Backed'
         /\ Len(lines') = Len(lines) + 1
         /\ lines'[Len(lines')].pair = pair[w] /\ lines'[Len(lines')].run = run[w]
         /\ \A k \in DOMAIN lines : k \in DOMAIN lines' /\ lines'[k] = lines[k]
<1>1. PICK e \in Entries : lines' = Append(lines, e) /\ e.pair = pair[w] /\ e.run = run[w]
  <2>1. run[w] \in Nat \ {0}
    BY DEF StoreInv, Types, Knows, Reserved, Storing
  <2>2. lines = <<>> \/ Last(lines).ok \in BOOLEAN
    <3>1. lines # <<>> => Len(lines) \in DOMAIN lines
      BY DEF StoreInv, Types
    <3> QED BY <3>1, LineTyped DEF StoreInv, Last
  <2> DEFINE ok == lines = <<>> \/ Last(lines).ok
  <2>3. ok \in BOOLEAN
    BY <2>2
  <2>4. lines' = Append(lines, [pair |-> pair[w], run |-> run[w], ok |-> ok])
    BY DEF LineLands
  <2>5. pair[w] \in Pairs
    BY DEF StoreInv, Types
  <2> HIDE DEF ok
  <2> QED BY <2>1, <2>3, <2>4, <2>5 DEF Entries
<1>2. /\ lines' \in Seq(Entries) /\ Len(lines') = Len(lines) + 1
      /\ lines'[Len(lines) + 1] = e
      /\ \A k \in DOMAIN lines : k \in DOMAIN lines' /\ lines'[k] = lines[k]
  BY <1>1 DEF StoreInv, Types
<1>3. \A k \in DOMAIN lines' : k \in DOMAIN lines \/ k = Len(lines) + 1
  BY <1>2 DEF StoreInv, Types
<1>4. json[pair[w]] = run[w] /\ sidecar[pair[w]] = run[w] /\ ~ Listed(pair[w])
  BY DEF StoreInv, Knows, Storing
<1>5. json' = json /\ sidecar' = sidecar
  BY DEF LineLands
<1>6. ASSUME NEW k \in DOMAIN lines' PROVE
        /\ json'[lines'[k].pair] = lines'[k].run /\ sidecar'[lines'[k].pair] = lines'[k].run
        /\ \A j \in DOMAIN lines' : lines'[j].pair = lines'[k].pair => j = k
  BY <1>1, <1>2, <1>3, <1>4, <1>5, <1>6 DEF StoreInv, Backed, Listed
<1>7. Backed'
  BY <1>6 DEF Backed
<1> QED BY <1>1, <1>2, <1>7

\* Lines are only ever added; what they say of pairs and results stays.
LEMMA LinesStay ==
  ASSUME StoreInv, NEW p, NEW r,
         \A k \in DOMAIN lines : /\ k \in DOMAIN lines' /\ lines'[k].pair = lines[k].pair
                                 /\ lines'[k].run = lines[k].run
  PROVE  (OnChain(p, r) => OnChain(p, r)') /\ (Listed(p) => Listed(p)')
  BY DEF OnChain, Listed

\* A step on the chain by the worker that is about to have its line there.
LEMMA ChainStep ==
  ASSUME StoreInv, NEW w \in Workers, phase[w] \in {"append", "append_flush"},
         Types', Locks', Backed', Knows(w)', answers' = answers,
         UNCHANGED <<json, sidecar, tool, pair, run, got>>,
         \A v \in Workers \ {w} : phase'[v] = phase[v],
         \A k \in DOMAIN lines : /\ k \in DOMAIN lines' /\ lines'[k].pair = lines[k].pair
                                 /\ lines'[k].run = lines[k].run
  PROVE  StoreInv'
<1>1. \A p, r : (OnChain(p, r) => OnChain(p, r)') /\ (Listed(p) => Listed(p)')
  BY LinesStay
<1>2. ASSUME NEW v \in Workers \ {w} PROVE Knows(v)'
  <2>1. phase[v] \notin Reserved
    BY <1>2, OneInside DEF StoreInv, Reserved, Storing
  <2> QED BY <1>1, <1>2, <2>1 DEF StoreInv, Knows, Reserved, Storing
<1>3. \A a \in answers' : Honest(a)'
  BY <1>1 DEF StoreInv, Honest
<1> QED BY <1>2, <1>3 DEF StoreInv

\* The write extends the last line; what the lines say of pairs and results
\* stays.
LEMMA LinesAreCut ==
  ASSUME StoreInv, NEW w \in Workers, AppendBegin(w), HeadParses
  PROVE  /\ lines' \in Seq(Entries) /\ DOMAIN lines' = DOMAIN lines
         /\ \A k \in DOMAIN lines : /\ lines'[k].pair = lines[k].pair
                                    /\ lines'[k].run = lines[k].run
<1>1. CASE lines' = lines
  BY <1>1 DEF StoreInv, Types
<1>2. CASE lines' = [lines EXCEPT ![Len(lines)].ok = FALSE] /\ Len(lines) = 0
  <2>1. lines' = lines
    BY <1>2 DEF StoreInv, Types
  <2> QED BY <2>1, <1>1
<1>3. CASE lines' = [lines EXCEPT ![Len(lines)].ok = FALSE] /\ Len(lines) > 0
  <2> DEFINE last == lines[Len(lines)]
             e    == [last EXCEPT !.ok = FALSE]
  <2>1. Len(lines) \in 1 .. Len(lines) /\ last \in Entries
    BY <1>3 DEF StoreInv, Types
  <2>2. e \in Entries /\ e.pair = last.pair /\ e.run = last.run
    BY <2>1 DEF Entries
  <2>3. lines' = [lines EXCEPT ![Len(lines)] = e]
    BY <1>3
  <2> HIDE DEF e
  <2>4. /\ lines' \in Seq(Entries) /\ Len(lines') = Len(lines)
        /\ \A k \in 1 .. Len(lines) : lines'[k] = IF k = Len(lines) THEN e ELSE lines[k]
    BY <2>1, <2>2, <2>3, ExceptSeq DEF StoreInv, Types
  <2> QED BY <2>2, <2>4 DEF StoreInv, Types
<1>4. \/ lines' = lines \/ lines' = [lines EXCEPT ![Len(lines)].ok = FALSE]
  BY DEF AppendBegin
<1> QED BY <1>1, <1>2, <1>3, <1>4 DEF StoreInv, Types

LEMMA AppendBeginStep == ASSUME StoreInv, NEW w \in Workers, AppendBegin(w) PROVE StoreInv'
<1> USE DEF AppendBegin
<1>1. CASE HeadParses
  <2>1. /\ lines' \in Seq(Entries) /\ DOMAIN lines' = DOMAIN lines
        /\ \A k \in DOMAIN lines : /\ lines'[k].pair = lines[k].pair
                                   /\ lines'[k].run = lines[k].run
    BY <1>1, LinesAreCut
  <2>2. Types' /\ Locks'
    BY <1>1, <2>1 DEF StoreInv, Types, Locks, Goto, request, Phases, Reserved, Storing
  <2>3. Backed'
    BY <1>1, <2>1 DEF StoreInv, Backed
  <2>4. Knows(w)'
    BY <1>1, <2>1 DEF StoreInv, Types, Knows, Goto, request, Reserved, Storing, Listed
  <2> QED BY <1>1, <2>1, <2>2, <2>3, <2>4, ChainStep DEF StoreInv, Types, Goto, request
<1>2. CASE ~ HeadParses
  <2>1. Types'
    BY <1>2 DEF Raise, Return, StoreInv, Types, Goto, request, Phases
  <2>2. Locks'
    BY <1>2, Unlocked DEF Raise, Return, StoreInv, Phases, Reserved, Storing
  <2>3. Knows(w)'
    BY <1>2 DEF Raise, Return, StoreInv, Types, Knows, Goto, request, Reserved, Storing
  <2>4. \A a \in answers' \ answers : Honest(a)
    BY <1>2, NewAnswer DEF Raise, Honest
  <2> QED BY <1>2, <2>1, <2>2, <2>3, <2>4, QuietStep
          DEF Raise, Return, StoreInv, Types, Goto, request
<1> QED BY <1>1, <1>2

LEMMA AppendEndStep == ASSUME StoreInv, NEW w \in Workers, AppendEnd(w) PROVE StoreInv'
<1> USE DEF AppendEnd
<1>1. /\ lines' \in Seq(Entries) /\ Backed' /\ Len(lines') = Len(lines) + 1
      /\ lines'[Len(lines')].pair = pair[w] /\ lines'[Len(lines')].run = run[w]
      /\ \A k \in DOMAIN lines : k \in DOMAIN lines' /\ lines'[k] = lines[k]
  BY LandStep
<1>2. Types' /\ Locks'
  BY <1>1 DEF StoreInv, Types, Locks, Goto, request, LineLands, Phases, Reserved, Storing
<1>3. OnChain(pair[w], run[w])'
  <2>1. Len(lines') \in DOMAIN lines'
    BY <1>1 DEF StoreInv, Types
  <2> QED BY <1>1, <2>1 DEF OnChain, request
<1>4. Knows(w)'
  BY <1>3 DEF StoreInv, Types, Knows, Goto, request, Reserved, Storing
<1> QED BY <1>1, <1>2, <1>4, ChainStep DEF StoreInv, Types, Goto, request, LineLands

LEMMA FailStep == ASSUME StoreInv, NEW w \in Workers, Fail(w) PROVE StoreInv'
<1>1. /\ phase' = [phase EXCEPT ![w] = "idle"] /\ answers' = answers
      /\ UNCHANGED <<tool, pair, run, got, nruns>>
  BY DEF Fail, Goto, request
<1>2. Knows(w)'
  BY <1>1 DEF StoreInv, Types, Knows, Reserved, Storing
<1>3. Locks'
  <2>1. CASE lock = w
    BY <1>1, <2>1, NoOneAssumption DEF Fail, StoreInv, Types, Locks, Reserved, Storing
  <2>2. CASE lock # w
    BY <1>1, <2>2 DEF Fail, StoreInv, Types, Locks, Reserved, Storing
  <2> QED BY <2>1, <2>2
<1>4. CASE UNCHANGED files
  <2>1. Types'
    BY <1>1, <1>4 DEF StoreInv, Types, files, Phases
  <2> QED BY <1>1, <1>2, <1>3, <1>4, <2>1, QuietStep DEF StoreInv, Types, files
<1>5. CASE phase[w] = "append_flush" /\ LineLands(w, "bare")
  <2>1. /\ lines' \in Seq(Entries) /\ Backed'
        /\ \A k \in DOMAIN lines : k \in DOMAIN lines' /\ lines'[k] = lines[k]
    BY <1>5, LandStep
  <2>2. Types'
    BY <1>1, <1>5, <2>1 DEF StoreInv, Types, LineLands, Phases
  <2> QED BY <1>1, <1>2, <1>3, <1>5, <2>1, <2>2, ChainStep DEF StoreInv, Types, LineLands
<1> QED BY <1>4, <1>5 DEF Fail

-----------------------------------------------------------------------------
(* The invariant and what follows from it. *)

LEMMA StoreStarts == Init => StoreInv
<1> SUFFICES ASSUME Init PROVE StoreInv
  OBVIOUS
<1>1. lines \in Seq(Entries) /\ DOMAIN lines = {}
  BY DEF Init
<1>2. Types
  BY <1>1 DEF Init, Types, Phases, Absent
<1>3. Locks
  BY NoOneAssumption DEF Init, Locks, Reserved, Storing
<1> QED BY <1>1, <1>2, <1>3 DEF Init, StoreInv, Backed, Knows, Reserved, Storing

LEMMA StoreSteps == StoreInv /\ [Next]_vars => StoreInv'
<1> SUFFICES ASSUME StoreInv, [Next]_vars PROVE StoreInv'
  OBVIOUS
<1>1. ASSUME NEW w \in Workers, Call(w) PROVE StoreInv'
  BY <1>1, CallStep
<1>2. ASSUME NEW w \in Workers, Work(w) PROVE StoreInv'
  BY <1>2, ProbeStep, ScanStep, FindStep, ReadJsonStep, ReadSidecarStep, RunStep, ReserveStep,
     CheckStep, WriteJsonStep, WriteSidecarStep, AppendBeginStep, AppendEndStep,
     AuditFreshStep DEF Work
<1>3. ASSUME NEW w \in Workers, Fail(w) PROVE StoreInv'
  BY <1>3, FailStep
<1>4. CASE UNCHANGED vars
  <2>1. UNCHANGED <<json, sidecar, lines, lock, phase, tool, pair, run, got, nruns, answers>>
    BY <1>4 DEF vars, files, request
  <2> QED BY <2>1 DEF StoreInv, Types, Locks, Backed, Knows, Honest, OnChain, Listed
<1> QED BY <1>1, <1>2, <1>3, <1>4 DEF Next

LEMMA StoreHolds == Spec => []StoreInv
  BY StoreStarts, StoreSteps, PTL DEF Spec

\* Racing servers, retries and crashes never leave two lines for one pair
\* (write_extraction, find_extraction_entry).
THEOREM OneLine == Spec => []OneLinePerPair
<1>1. StoreInv => OneLinePerPair
  <2> SUFFICES ASSUME StoreInv, NEW p \in Pairs PROVE Cardinality(Matches(p)) <= 1
    BY DEF OneLinePerPair
  <2>1. CASE Matches(p) = {}
    BY <2>1, FS_EmptySet
  <2>2. ASSUME NEW k \in Matches(p) PROVE Cardinality(Matches(p)) <= 1
    <3>1. Matches(p) = {k}
      BY <2>2 DEF StoreInv, Backed, Matches
    <3>2. Cardinality({k}) = 1
      BY FS_Singleton
    <3> QED BY <3>1, <3>2
  <2> QED BY <2>1, <2>2
<1> QED BY <1>1, StoreHolds, PTL

\* Whoever answers, fresh, cached or queried, before or after a crash, answers
\* about a pair with the result of one plugin run (load_extraction, _serve_fresh).
THEOREM Agreement == Spec => []AnswersAgree
<1>1. StoreInv => AnswersAgree
  <2> SUFFICES ASSUME StoreInv, NEW a \in Served, NEW b \in Served, a.pair = b.pair
               PROVE  a.run = b.run
    BY DEF AnswersAgree
  <2>1. OnChain(a.pair, a.run) /\ OnChain(b.pair, b.run)
    BY DEF StoreInv, Honest, Served
  <2> QED BY <2>1 DEF StoreInv, Backed, OnChain
<1> QED BY <1>1, StoreHolds, PTL

\* While nobody else touches the files, no reader reports tampering and no cache
\* hit turns into a missing extraction, although readers take no lock.
THEOREM Quiet == Spec => []NoFalseAlarm
<1>1. StoreInv => NoFalseAlarm
  BY DEF StoreInv, Honest, NoFalseAlarm
<1> QED BY <1>1, StoreHolds, PTL

-----------------------------------------------------------------------------
(* Bounds.  A call runs its plugin once at most: the calls that may still   *)
(* run it and the runs so far are no more than the calls.                  *)

Waiting == {w \in Workers : phase[w] \in {"probe", "scan", "run"}}

Bounds ==
  /\ IsFiniteSet(Waiting) /\ nruns + Cardinality(Waiting) <= ncalls
  /\ ncalls \in 0 .. MaxCalls /\ faults \in 0 .. MaxFaults
  /\ end \in {"whole", "bare", "cut"} /\ lock \in Workers \cup {NoOne}
  /\ call \in [Workers -> 0 .. ncalls] /\ \A w \in Workers : run[w] <= nruns
  /\ \A p \in Pairs : json[p] \in Torn .. nruns /\ sidecar[p] \in Torn .. nruns

LEMMA WaitingCount ==
  ASSUME StoreInv, Bounds
  PROVE  /\ Cardinality(Waiting) \in Nat /\ nruns \in Nat /\ ncalls \in Nat
         /\ nruns + Cardinality(Waiting) <= ncalls /\ ncalls <= MaxCalls
         /\ \A w \in Workers : run[w] \in Nat /\ run[w] <= nruns
<1>1. Cardinality(Waiting) \in Nat
  BY FS_CardinalityType DEF Bounds
<1>2. nruns \in Nat /\ \A w \in Workers : run[w] \in Nat
  BY DEF StoreInv, Types
<1>3. ncalls \in Nat /\ ncalls <= MaxCalls
  BY BoundsAssumption DEF Bounds
<1> QED BY <1>1, <1>2, <1>3 DEF Bounds

\* A worker goes on, and does not begin to wait.
LEMMA NoneWaits ==
  ASSUME StoreInv, Bounds, NEW w \in Workers, NEW p \in Phases, Goto(w, p),
         w \in Waiting \/ p \notin {"probe", "scan", "run"}
  PROVE  /\ IsFiniteSet(Waiting') /\ Cardinality(Waiting') \in Nat
         /\ Cardinality(Waiting') <= Cardinality(Waiting)
         /\ w \in Waiting /\ p \notin {"probe", "scan", "run"} =>
              Cardinality(Waiting') = Cardinality(Waiting) - 1
<1>1. Waiting' = Waiting \/ (w \in Waiting /\ Waiting' = Waiting \ {w})
  BY DEF StoreInv, Types, Goto, Waiting
<1>2. w \in Waiting /\ p \notin {"probe", "scan", "run"} => Waiting' = Waiting \ {w}
  BY DEF StoreInv, Types, Goto, Waiting
<1>3. IsFiniteSet(Waiting) /\ Cardinality(Waiting) \in Nat
  BY WaitingCount DEF Bounds
<1>4. w \in Waiting => /\ IsFiniteSet(Waiting \ {w})
                       /\ Cardinality(Waiting \ {w}) = Cardinality(Waiting) - 1
  BY <1>3, FS_RemoveElement
<1>5. CASE Waiting' = Waiting /\ ~ (w \in Waiting /\ p \notin {"probe", "scan", "run"})
  BY <1>3, <1>5
<1>6. CASE w \in Waiting /\ Waiting' = Waiting \ {w}
  <2>1. IsFiniteSet(Waiting') /\ Cardinality(Waiting') = Cardinality(Waiting) - 1
    BY <1>4, <1>6
  <2>2. Cardinality(Waiting') \in Nat
    BY <2>1, FS_CardinalityType
  <2> QED BY <1>3, <2>1, <2>2
<1> QED BY <1>1, <1>2, <1>5, <1>6

\* A step that computes nothing.
LEMMA SameRuns ==
  ASSUME StoreInv, Bounds, NEW w \in Workers, NEW p \in Phases, Goto(w, p),
         w \in Waiting \/ p \notin {"probe", "scan", "run"},
         UNCHANGED <<ncalls, call, run, nruns>>, faults' \in 0 .. MaxFaults,
         end' \in {"whole", "bare", "cut"}, lock' \in Workers \cup {NoOne},
         \A q \in Pairs : /\ json'[q] \in {json[q], Torn, run[w]}
                          /\ sidecar'[q] \in {sidecar[q], Torn, run[w]}
  PROVE  Bounds'
<1>1. run[w] \in Torn .. nruns /\ Torn \in Torn .. nruns
  <2>1. nruns \in Nat /\ run[w] \in Nat /\ run[w] <= nruns
    BY WaitingCount
  <2> QED BY <2>1 DEF Torn
<1>2. \A q \in Pairs : json'[q] \in Torn .. nruns' /\ sidecar'[q] \in Torn .. nruns'
  BY <1>1 DEF Bounds
<1>3. /\ IsFiniteSet(Waiting') /\ Cardinality(Waiting') \in Nat
      /\ Cardinality(Waiting') <= Cardinality(Waiting)
  BY NoneWaits
<1>4. nruns' + Cardinality(Waiting') <= ncalls'
  BY <1>3, WaitingCount
<1> QED BY <1>2, <1>3, <1>4 DEF Bounds

LEMMA CallBounds == ASSUME StoreInv, Bounds, NEW w \in Workers, Call(w) PROVE Bounds'
<1> USE DEF Call
<1>1. /\ IsFiniteSet(Waiting') /\ Cardinality(Waiting') \in Nat
      /\ Cardinality(Waiting') <= Cardinality(Waiting) + 1
  <2>1. Waiting' \subseteq Waiting \cup {w} /\ Waiting \subseteq Waiting' /\ w \notin Waiting
    BY DEF StoreInv, Types, Goto, Waiting
  <2>2. CASE Waiting' = Waiting
    BY <2>2, WaitingCount DEF Bounds
  <2>3. CASE Waiting' = Waiting \cup {w}
    <3>1. /\ IsFiniteSet(Waiting \cup {w})
          /\ Cardinality(Waiting \cup {w}) = Cardinality(Waiting) + 1
      BY <2>1, FS_AddElement DEF Bounds
    <3>2. IsFiniteSet(Waiting') /\ Cardinality(Waiting') = Cardinality(Waiting) + 1
      BY <2>3, <3>1
    <3> QED BY <3>2, WaitingCount
  <2> QED BY <2>1, <2>2, <2>3
<1>2. ncalls' = ncalls + 1 /\ ncalls \in Nat /\ ncalls + 1 <= MaxCalls
  BY BoundsAssumption DEF Bounds
<1>3. nruns' + Cardinality(Waiting') <= ncalls'
  BY <1>1, <1>2, WaitingCount
<1>4. call' \in [Workers -> 0 .. ncalls']
  BY <1>2 DEF Bounds
<1> QED BY <1>1, <1>2, <1>3, <1>4, BoundsAssumption DEF Bounds, files

LEMMA RunBounds == ASSUME StoreInv, Bounds, NEW w \in Workers, Run(w) PROVE Bounds'
<1>1. CASE run' = [run EXCEPT ![w] = nruns + 1] /\ nruns' = nruns + 1 /\ Goto(w, "reserve")
  <2>1. UNCHANGED <<files, lock, request, faults>> /\ w \in Waiting
    BY DEF Run, Waiting
  <2>2. /\ IsFiniteSet(Waiting') /\ Cardinality(Waiting') \in Nat
        /\ Cardinality(Waiting') = Cardinality(Waiting) - 1
    BY <1>1, <2>1, NoneWaits DEF Phases, Reserved
  <2>3. nruns' + Cardinality(Waiting') <= ncalls'
    BY <1>1, <2>1, <2>2, WaitingCount DEF request
  <2>4. \A v \in Workers : run'[v] <= nruns'
    <3>1. \A v \in Workers : run'[v] = IF v = w THEN nruns + 1 ELSE run[v]
      BY <1>1 DEF StoreInv, Types
    <3> QED BY <1>1, <3>1, WaitingCount
  <2>5. \A q \in Pairs : json'[q] \in Torn .. nruns' /\ sidecar'[q] \in Torn .. nruns'
    <3>1. UNCHANGED <<json, sidecar>>
      BY <2>1 DEF files
    <3>2. \A q \in Pairs : json[q] \in Torn .. nruns /\ sidecar[q] \in Torn .. nruns
      BY DEF Bounds
    <3> QED BY <1>1, <3>1, <3>2, WaitingCount DEF Torn
  <2> QED BY <2>1, <2>2, <2>3, <2>4, <2>5 DEF Bounds, files, request
<1>2. CASE Answer(w, "runner_failed", 0) /\ UNCHANGED <<run, nruns>>
  <2>1. UNCHANGED <<files, lock, request, faults, run, nruns>> /\ Goto(w, "idle")
    BY <1>2 DEF Run, Answer, Return
  <2> QED BY <2>1, SameRuns DEF Phases, files, request, Bounds
<1> QED BY <1>1, <1>2 DEF Run

LEMMA WorkBounds == ASSUME StoreInv, Bounds, NEW w \in Workers, Work(w) PROVE Bounds'
<1> USE DEF Phases, Storing, Reserved
<1>1. CASE Probe(w) \/ Scan(w)
  <2>1. \E p \in {"scan", "find", "run", "idle"} : Goto(w, p)
    BY <1>1 DEF Probe, Scan, Raise, Return
  <2>2. /\ UNCHANGED <<files, lock, request, run, nruns, faults>>
        /\ w \in Waiting
    BY <1>1 DEF Probe, Scan, Waiting
  <2> QED BY <2>1, <2>2, SameRuns DEF files, request, Bounds
<1>2. CASE Find(w) \/ ReadJson(w) \/ ReadSidecar(w) \/ Reserve(w) \/ Check(w) \/ AuditFresh(w)
  <2>1. \E p \in {"idle", "read_json", "read_sidecar", "check", "json"} : Goto(w, p)
    BY <1>2 DEF Find, ReadJson, ReadSidecar, Reserve, Check, AuditFresh, NotFound, Answer,
                Raise, Return
  <2>2. UNCHANGED <<files, request, run, nruns, faults>>
    BY <1>2 DEF Find, ReadJson, ReadSidecar, Reserve, Check, AuditFresh
  <2>3. lock' \in {lock, w, NoOne}
    BY <1>2 DEF Find, ReadJson, ReadSidecar, Reserve, Check, AuditFresh
  <2> QED BY <2>1, <2>2, <2>3, SameRuns DEF files, request, Bounds
<1>3. CASE WriteJson(w) \/ WriteSidecar(w)
  <2>1. \E p \in {"json_flush", "sidecar", "sidecar_flush", "append"} : Goto(w, p)
    BY <1>3 DEF WriteJson, WriteSidecar
  <2>2. UNCHANGED <<end, lock, request, run, nruns, faults>>
    BY <1>3 DEF WriteJson, WriteSidecar
  <2>3. \A q \in Pairs : /\ json'[q] \in {json[q], Torn, run[w]}
                         /\ sidecar'[q] \in {sidecar[q], Torn, run[w]}
    BY <1>3 DEF WriteJson, WriteSidecar, StoreInv, Types
  <2> QED BY <2>1, <2>2, <2>3, SameRuns DEF request, Bounds
<1>4. CASE AppendBegin(w) \/ AppendEnd(w)
  <2>1. \E p \in {"append_flush", "idle", "audit"} : Goto(w, p)
    BY <1>4 DEF AppendBegin, AppendEnd, Raise, Return
  <2>2. UNCHANGED <<json, sidecar, request, run, nruns, faults>>
    BY <1>4 DEF AppendBegin, AppendEnd, LineLands
  <2>3. lock' \in {lock, NoOne} /\ end' \in {end, "cut", "whole"}
    BY <1>4 DEF AppendBegin, AppendEnd, LineLands
  <2> QED BY <2>1, <2>2, <2>3, SameRuns DEF request, Bounds
<1> QED BY <1>1, <1>2, <1>3, <1>4, RunBounds DEF Work

LEMMA FailBounds == ASSUME StoreInv, Bounds, NEW w \in Workers, Fail(w) PROVE Bounds'
<1>1. /\ Goto(w, "idle") /\ UNCHANGED <<json, sidecar, request, run, nruns>>
      /\ lock' \in {lock, NoOne} /\ end' \in {end, "cut", "bare"}
  BY DEF Fail, LineLands, files
<1>2. faults' \in 0 .. MaxFaults
  BY BoundsAssumption DEF Fail, Bounds
<1> QED BY <1>1, <1>2, SameRuns DEF Phases, request, Bounds

LEMMA BoundsHold == Spec => [](StoreInv /\ Bounds)
<1>1. Init => Bounds
  <2> SUFFICES ASSUME Init PROVE Bounds
    OBVIOUS
  <2>1. Waiting = {}
    BY DEF Init, Waiting
  <2>2. IsFiniteSet(Waiting) /\ Cardinality(Waiting) = 0
    BY <2>1, FS_EmptySet
  <2> QED BY <2>2, BoundsAssumption DEF Init, Bounds, Torn, Absent
<1>2. StoreInv /\ Bounds /\ [Next]_vars => Bounds'
  <2> SUFFICES ASSUME StoreInv, Bounds, [Next]_vars PROVE Bounds'
    OBVIOUS
  <2>1. CASE UNCHANGED vars
    BY <2>1 DEF vars, files, request, Bounds, Waiting
  <2> QED BY <2>1, CallBounds, WorkBounds, FailBounds DEF Next
<1> QED BY <1>1, <1>2, StoreHolds, PTL DEF Spec

\* Every variable keeps its type, no call runs its plugin twice, and the audit
\* lock is held in the reserved region and nowhere else (_serve_fresh).
THEOREM TypeCorrect == Spec => []TypeOK
<1>1. StoreInv /\ Bounds => TypeOK
  <2> SUFFICES ASSUME StoreInv, Bounds PROVE TypeOK
    OBVIOUS
  <2>1. nruns \in Nat /\ nruns <= MaxCalls
    BY WaitingCount, BoundsAssumption
  <2>2. json \in [Pairs -> Torn .. MaxCalls] /\ sidecar \in [Pairs -> Torn .. MaxCalls]
    BY <2>1, BoundsAssumption DEF StoreInv, Types, Bounds, Torn
  <2>3. lines \in Seq([pair : Pairs, run : 1 .. MaxCalls, ok : BOOLEAN])
    <3>1. ASSUME NEW k \in DOMAIN lines
          PROVE  lines[k] \in [pair : Pairs, run : 1 .. MaxCalls, ok : BOOLEAN]
      <4>1. lines[k] \in Entries /\ lines[k].run = json[lines[k].pair]
        BY DEF StoreInv, Types, Backed
      <4>2. lines[k].run \in 1 .. MaxCalls
        BY <2>1, <4>1, BoundsAssumption DEF Bounds, Entries
      <4> QED BY <4>1, <4>2 DEF Entries
    <3>2. Len(lines) \in Nat /\ lines = [k \in 1 .. Len(lines) |-> lines[k]]
      BY DEF StoreInv, Types
    <3>3. DOMAIN lines = 1 .. Len(lines)
      BY DEF StoreInv, Types
    <3> DEFINE LineType == [pair : Pairs, run : 1 .. MaxCalls, ok : BOOLEAN]
    <3>4. \A k \in 1 .. Len(lines) : lines[k] \in LineType
      BY <3>1, <3>3
    <3> HIDE DEF LineType
    <3>5. lines \in Seq(LineType)
      BY <3>2, <3>4
    <3> QED BY <3>5 DEF LineType
  <2>4. /\ call \in [Workers -> 0 .. MaxCalls] /\ run \in [Workers -> 0 .. MaxCalls]
    BY <2>1, BoundsAssumption DEF StoreInv, Types, Bounds
  <2>5. \A w \in Workers :
          lock = w <=> phase[w] \in {"check", "json", "json_flush", "sidecar", "sidecar_flush",
                                     "append", "append_flush", "audit"}
    BY DEF StoreInv, Locks, Reserved, Storing
  <2> QED BY <2>2, <2>3, <2>4, <2>5 DEF StoreInv, Types, Bounds, TypeOK
<1> QED BY <1>1, BoundsHold, PTL


-----------------------------------------------------------------------------
(* The store that is written once. *)

\* The store has a result for the pairs that have a line, and it is the line's.
StoreOfLines ==
  \A p \in Pairs : /\ \A r : OnChain(p, r) => StoredResults[p] = r
                   /\ ~ Listed(p) => StoredResults[p] = Absent

LEMMA StoredIs == StoreInv => StoreOfLines
<1> SUFFICES ASSUME StoreInv, NEW p \in Pairs
             PROVE  /\ \A r : OnChain(p, r) => StoredResults[p] = r
                    /\ ~ Listed(p) => StoredResults[p] = Absent
  BY DEF StoreOfLines
<1>1. ASSUME NEW r, OnChain(p, r) PROVE StoredResults[p] = r
  <2>1. Matches(p) # {}
    BY <1>1 DEF OnChain, Matches
  <2>2. Entry(p) \in DOMAIN lines /\ lines[Entry(p)].pair = p
    BY <2>1, EntryIsTheLine DEF StoreInv
  <2>3. lines[Entry(p)].run = r
    BY <1>1, <2>2 DEF StoreInv, Backed, OnChain
  <2> QED BY <2>1, <2>3 DEF StoredResults
<1>2. ~ Listed(p) => StoredResults[p] = Absent
  BY DEF Listed, Matches, StoredResults
<1> QED BY <1>1, <1>2

LEMMA StoredIsNext == StoreInv' => StoreOfLines'
  BY StoredIs, PTL

\* Pairs of which the lines say what they said before keep their result.
LEMMA StoreStays ==
  ASSUME StoreInv, StoreInv', NEW p \in Pairs, Listed(p)' <=> Listed(p),
         \A r : OnChain(p, r) => OnChain(p, r)'
  PROVE  StoredResults'[p] = StoredResults[p]
<1>1. StoreOfLines /\ StoreOfLines'
  BY StoredIs, StoredIsNext
<1>2. CASE Listed(p)
  <2>1. PICK r : OnChain(p, r)
    BY <1>2 DEF Listed, OnChain
  <2> QED BY <1>1, <2>1 DEF StoreOfLines
<1>3. CASE ~ Listed(p)
  <2>1. StoredResults[p] = Absent
    BY <1>1, <1>3 DEF StoreOfLines
  <2>2. StoredResults'[p] = Absent
    BY <1>1, <1>3 DEF StoreOfLines
  <2> QED BY <2>1, <2>2
<1> QED BY <1>2, <1>3

LEMMA StoreIsFunction ==
  /\ StoredResults = [p \in Pairs |-> StoredResults[p]]
  /\ StoredResults' = [p \in Pairs |-> StoredResults'[p]]
  BY DEF StoredResults

\* A call returns: what it serves is told, and nothing is if it serves none.
LEMMA ReturnTells ==
  ASSUME StoreInv, StoreInv', lines' = lines, NEW w \in Workers, NEW o, NEW r, Return(w, o, r)
  PROVE  Store!Tell(pair[w]) \/ UNCHANGED Store!vars
<1> DEFINE a == [call |-> call[w], pair |-> pair[w], tool |-> tool[w], outcome |-> o, run |-> r]
<1>1. answers' = answers \cup {a} /\ a.pair = pair[w] /\ a.outcome = o /\ a.run = r
  BY DEF Return
<1> HIDE DEF a
<1>2. StoredResults' = StoredResults
  BY DEF StoredResults, Matches, Entry
<1>3. CASE o \in {"fresh", "cached", "query"}
  <2>1. OnChain(pair[w], r)
    <3>1. \A x \in answers' : x.outcome = o => OnChain(x.pair, x.run)'
      BY <1>3 DEF StoreInv, Honest
    <3> QED BY <1>1, <3>1 DEF OnChain
  <2>2. pair[w] \in Pairs /\ r # Absent
    BY <2>1, LineIsBacked DEF StoreInv, Types, Absent
  <2>3. StoredResults[pair[w]] = r
    BY <2>1, <2>2, StoredIs DEF StoreOfLines
  <2>4. Served' = Served \cup {a}
    BY <1>1, <1>3 DEF Served
  <2>5. ToldResults' = ToldResults \cup {[pair |-> pair[w], result |-> r]}
    BY <1>1, <2>4 DEF ToldResults
  <2> QED BY <1>2, <2>2, <2>3, <2>5 DEF Store!Tell
<1>4. CASE o \notin {"fresh", "cached", "query"}
  <2>1. Served' = Served
    BY <1>1, <1>4 DEF Served
  <2> QED BY <1>2, <2>1 DEF ToldResults, Store!vars
<1> QED BY <1>3, <1>4

\* A line lands: its pair, which had none, has a result.
LEMMA LandingStores ==
  ASSUME StoreInv, StoreInv', Bounds, NEW w \in Workers, phase[w] = "append_flush",
         NEW tail, LineLands(w, tail), answers' = answers
  PROVE  Store!Store(pair[w])
<1>1. /\ Len(lines') = Len(lines) + 1
      /\ lines'[Len(lines')].pair = pair[w] /\ lines'[Len(lines')].run = run[w]
      /\ \A k \in DOMAIN lines : k \in DOMAIN lines' /\ lines'[k] = lines[k]
  BY LandStep
<1>2. /\ Len(lines') \in DOMAIN lines'
      /\ \A k \in DOMAIN lines' : k \in DOMAIN lines \/ k = Len(lines')
  <2>1. lines \in Seq(Entries) /\ lines' \in Seq(Entries)
    BY DEF StoreInv, Types
  <2> QED BY <1>1, <2>1
<1>3. pair[w] \in Pairs /\ ~ Listed(pair[w]) /\ run[w] \in 1 .. MaxCalls
  <2>1. run[w] # 0
    BY DEF StoreInv, Knows, Reserved, Storing
  <2>2. run[w] \in 1 .. MaxCalls
    BY <2>1, WaitingCount, BoundsAssumption
  <2> QED BY <2>2 DEF StoreInv, Types, Knows, Storing
<1>4. StoredResults[pair[w]] = Absent
  BY <1>3, StoredIs DEF StoreOfLines
<1>5. \E k \in DOMAIN lines' : lines'[k].pair = pair[w] /\ lines'[k].run = run[w]
  BY <1>1, <1>2
<1>6. StoredResults'[pair[w]] = run[w]
  BY <1>3, <1>5, StoredIsNext DEF StoreOfLines, OnChain
<1>7. ASSUME NEW p \in Pairs \ {pair[w]} PROVE StoredResults'[p] = StoredResults[p]
  <2>1. \A k \in DOMAIN lines' : lines'[k].pair = p => k \in DOMAIN lines
    BY <1>1, <1>2, <1>7
  <2>2. Listed(p)' <=> Listed(p)
    BY <1>1, <2>1 DEF Listed
  <2>3. \A r : OnChain(p, r) => OnChain(p, r)'
    BY <1>1 DEF OnChain
  <2> QED BY <2>2, <2>3, StoreStays
<1>8. StoredResults' = [StoredResults EXCEPT ![pair[w]] = StoredResults'[pair[w]]]
  BY <1>7, StoreIsFunction
<1>9. ToldResults' = ToldResults
  BY DEF ToldResults, Served
<1> QED BY <1>3, <1>4, <1>6, <1>8, <1>9 DEF Store!Store

LEMMA StoreStep ==
  ASSUME StoreInv, StoreInv', Bounds, Next
  PROVE  Store!Next \/ UNCHANGED Store!vars
<1>1. PICK w \in Workers : Call(w) \/ Work(w) \/ Fail(w)
  BY DEF Next
<1>2. pair[w] \in Pairs
  BY DEF StoreInv, Types
<1>3. CASE lines' = lines /\ answers' = answers
  BY <1>3 DEF StoredResults, Matches, Entry, ToldResults, Served, Store!vars
<1>4. CASE lines' = lines /\ \E o, r : Return(w, o, r)
  BY <1>2, <1>4, ReturnTells DEF Store!Next
<1>5. CASE AppendBegin(w) /\ HeadParses
  <2>1. /\ DOMAIN lines' = DOMAIN lines
        /\ \A k \in DOMAIN lines : /\ lines'[k].pair = lines[k].pair
                                   /\ lines'[k].run = lines[k].run
    BY <1>5, LinesAreCut
  <2>2. ASSUME NEW p \in Pairs PROVE StoredResults'[p] = StoredResults[p]
    <3>1. Listed(p)' <=> Listed(p)
      BY <2>1 DEF Listed
    <3>2. \A r : OnChain(p, r) => OnChain(p, r)'
      BY <2>1 DEF OnChain
    <3> QED BY <3>1, <3>2, StoreStays
  <2>3. StoredResults' = StoredResults
    BY <2>2, StoreIsFunction
  <2>4. ToldResults' = ToldResults
    BY <1>5 DEF AppendBegin, ToldResults, Served
  <2> QED BY <2>3, <2>4 DEF Store!vars
<1>6. CASE phase[w] = "append_flush" /\ answers' = answers /\ \E tail : LineLands(w, tail)
  BY <1>2, <1>6, LandingStores DEF Store!Next
<1>7. CASE Call(w) \/ Fail(w)
  <2>1. answers' = answers
    BY <1>7 DEF Call, Fail
  <2>2. \/ lines' = lines
        \/ phase[w] = "append_flush" /\ \E tail : LineLands(w, tail)
    BY <1>7 DEF Call, Fail, files
  <2> QED BY <1>3, <1>6, <2>1, <2>2
<1>8. CASE Work(w)
  <2>1. CASE Probe(w) \/ Scan(w) \/ Find(w) \/ ReadJson(w) \/ ReadSidecar(w)
    <3>1. lines' = lines
      BY <2>1 DEF Probe, Scan, Find, ReadJson, ReadSidecar, files
    <3>2. answers' = answers \/ \E o, r : Return(w, o, r)
      BY <2>1 DEF Probe, Scan, Find, ReadJson, ReadSidecar, NotFound, Answer, Raise
    <3> QED BY <1>3, <1>4, <3>1, <3>2
  <2>2. CASE Run(w) \/ Reserve(w) \/ Check(w) \/ WriteJson(w) \/ WriteSidecar(w) \/ AuditFresh(w)
    <3>1. lines' = lines
      BY <2>2 DEF Run, Reserve, Check, WriteJson, WriteSidecar, AuditFresh, files
    <3>2. answers' = answers \/ \E o, r : Return(w, o, r)
      BY <2>2 DEF Run, Reserve, Check, WriteJson, WriteSidecar, AuditFresh, Answer, Raise
    <3> QED BY <1>3, <1>4, <3>1, <3>2
  <2>3. CASE AppendBegin(w) /\ ~ HeadParses
    <3>1. lines' = lines /\ \E o, r : Return(w, o, r)
      BY <2>3 DEF AppendBegin, Raise
    <3> QED BY <1>4, <3>1
  <2>4. CASE AppendEnd(w)
    BY <1>6, <2>4 DEF AppendEnd
  <2> QED BY <1>5, <1>8, <2>1, <2>2, <2>3, <2>4 DEF Work
<1> QED BY <1>1, <1>7, <1>8

\* Whatever races, retries and crashes do to its files, the cache is a store that
\* is written once, and every answer tells what it stores (write_extraction,
\* load_extraction).
THEOREM WrittenOnce == Spec => RefinesWriteOnce
<1>1. Init => Store!Init
  <2> SUFFICES ASSUME Init PROVE Store!Init
    OBVIOUS
  <2>1. \A p \in Pairs : Matches(p) = {}
    BY DEF Init, Matches
  <2>2. Served = {}
    BY DEF Init, Served
  <2> QED BY <2>1, <2>2 DEF StoredResults, ToldResults, Store!Init
<1>2. StoreInv /\ StoreInv' /\ Bounds /\ [Next]_vars => [Store!Next]_Store!vars
  <2> SUFFICES ASSUME StoreInv, StoreInv', Bounds, [Next]_vars
               PROVE  Store!Next \/ UNCHANGED Store!vars
    OBVIOUS
  <2>1. CASE UNCHANGED vars
    BY <2>1 DEF vars, files, StoredResults, Matches, Entry, ToldResults, Served, Store!vars
  <2> QED BY <2>1, StoreStep
<1> QED BY <1>1, <1>2, BoundsHold, PTL DEF Spec, RefinesWriteOnce, Store!Spec

-----------------------------------------------------------------------------
(* Nothing computed is dropped: the safety part of ResultsAreStored.        *)

\* While nothing has failed, all lines parse, the last one but for the append in
\* flight, and files that exist have a line or are being written.
Clean ==
  /\ \A k \in DOMAIN lines : lines[k].ok
  /\ end = "whole" \/ (end = "cut" /\ \E w \in Workers : phase[w] = "append_flush")
  /\ \A p \in Pairs : json[p] # Absent \/ sidecar[p] # Absent =>
       Listed(p) \/ \E w \in Workers : phase[w] \in Storing /\ pair[w] = p
CleanInv == faults = 0 => Clean

\* Then what is on the chain is what load_extraction returns.
ListedIsStored == faults = 0 => \A p \in Pairs : Listed(p) <=> Stored(p)

LEMMA CleanReads == StoreInv /\ CleanInv => ListedIsStored
<1> SUFFICES ASSUME StoreInv, Clean, NEW p \in Pairs PROVE Listed(p) <=> Stored(p)
  BY DEF CleanInv, ListedIsStored
<1>1. Listed(p) <=> Matches(p) # {}
  BY DEF Listed, Matches
<1>2. ASSUME Matches(p) # {} PROVE Stored(p)
  <2>1. Entry(p) \in DOMAIN lines /\ lines[Entry(p)].pair = p
    BY <1>2, EntryIsTheLine DEF StoreInv
  <2>2. Unparsed = {}
    BY DEF Clean, Unparsed
  <2>3. ~ FindRaises(p)
    BY <1>2, <2>2 DEF FindRaises
  <2>4. json[p] = lines[Entry(p)].run /\ sidecar[p] = lines[Entry(p)].run
    BY <2>1 DEF StoreInv, Backed
  <2> QED BY <1>2, <2>3, <2>4 DEF Stored
<1>3. Stored(p) => Matches(p) # {}
  BY DEF Stored
<1> QED BY <1>1, <1>2, <1>3

\* A worker that holds the lock and is not in its append finds the chain whole.
LEMMA HeadIsWhole ==
  ASSUME Locks, Clean, NEW w \in Workers, phase[w] \in Reserved \ {"append_flush"}
  PROVE  end = "whole"
<1>1. \A v \in Workers : phase[v] = "append_flush" => v = w
  BY OneInside DEF Reserved, Storing
<1> QED BY <1>1 DEF Clean

\* A worker that holds the lock finds no files but those that have a line.
LEMMA FilesHaveLines ==
  ASSUME Locks, Clean, NEW w \in Workers, phase[w] = "check", NEW p \in Pairs,
         json[p] # Absent \/ sidecar[p] # Absent
  PROVE  Listed(p)
<1>1. \A v \in Workers : phase[v] \in Storing => v = w
  BY OneInside DEF Reserved
<1>2. "check" \notin Storing
  BY DEF Storing
<1> QED BY <1>1, <1>2 DEF Clean

\* A step that leaves the files alone, of a worker that is not writing them.
LEMMA CleanQuiet ==
  ASSUME StoreInv, Clean, UNCHANGED files, NEW w \in Workers, phase[w] \notin Storing,
         \A v \in Workers \ {w} : phase'[v] = phase[v] /\ pair'[v] = pair[v]
  PROVE  Clean'
<1>1. UNCHANGED <<json, sidecar, lines, end>>
  BY DEF files
<1>2. \A v \in Workers : phase[v] \in Storing =>
        phase'[v] = phase[v] /\ pair'[v] = pair[v]
  OBVIOUS
<1>3. \A v \in Workers : phase[v] = "append_flush" => phase'[v] = "append_flush"
  BY <1>2 DEF Storing
<1> QED BY <1>1, <1>2, <1>3 DEF Clean, Listed

LEMMA CleanWrite ==
  ASSUME StoreInv, Clean, NEW w \in Workers, WriteJson(w) \/ WriteSidecar(w)
  PROVE  Clean'
<1>1. /\ phase[w] \in Storing \ {"append_flush"} /\ phase'[w] \in Storing
      /\ \A v \in Workers \ {w} : phase'[v] = phase[v]
      /\ UNCHANGED <<pair, lines, end>>
  BY DEF StoreInv, Types, WriteJson, WriteSidecar, Goto, request, Storing
<1>2. end = "whole"
  BY <1>1, HeadIsWhole DEF StoreInv, Reserved
<1>3. \A p \in Pairs : p # pair[w] => json'[p] = json[p] /\ sidecar'[p] = sidecar[p]
  BY DEF StoreInv, Types, WriteJson, WriteSidecar
<1>4. ASSUME NEW p \in Pairs, json'[p] # Absent \/ sidecar'[p] # Absent
      PROVE  Listed(p)' \/ \E v \in Workers : phase'[v] \in Storing /\ pair'[v] = p
  <2>1. CASE p = pair[w]
    BY <1>1, <2>1
  <2>2. CASE p # pair[w]
    BY <1>1, <1>3, <1>4, <2>2 DEF Clean, Listed
  <2> QED BY <2>1, <2>2
<1> QED BY <1>1, <1>2, <1>4 DEF Clean

LEMMA CleanBegin ==
  ASSUME StoreInv, Clean, NEW w \in Workers, AppendBegin(w)
  PROVE  Clean' /\ lines' = lines /\ phase'[w] = "append_flush"
<1>1. end = "whole"
  BY HeadIsWhole DEF StoreInv, AppendBegin, Reserved, Storing
<1>2. /\ lines' = lines /\ end' = "cut" /\ UNCHANGED <<json, sidecar, pair>>
      /\ phase'[w] = "append_flush"
      /\ \A v \in Workers \ {w} : phase'[v] = phase[v]
  BY <1>1 DEF StoreInv, Types, AppendBegin, HeadParses, Goto, request
<1>3. \A v \in Workers : phase[v] \in Storing => phase'[v] \in Storing
  BY <1>2 DEF Storing
<1> QED BY <1>2, <1>3 DEF Clean, Listed

LEMMA CleanEnd ==
  ASSUME StoreInv, Clean, NEW w \in Workers, AppendEnd(w)
  PROVE  /\ Clean' /\ phase'[w] = "audit"
         /\ \A p \in Pairs : Listed(p) => Listed(p)'
<1>1. /\ phase[w] = "append_flush" /\ LineLands(w, "whole") /\ phase'[w] = "audit"
      /\ UNCHANGED <<json, sidecar, pair>>
      /\ \A v \in Workers \ {w} : phase'[v] = phase[v]
  BY DEF StoreInv, Types, AppendEnd, LineLands, Goto, request
<1> DEFINE e == [pair |-> pair[w], run |-> run[w], ok |-> TRUE]
<1>2. lines = <<>> \/ Last(lines).ok
  <2>1. lines # <<>> => Len(lines) \in DOMAIN lines
    BY DEF StoreInv, Types
  <2> QED BY <2>1 DEF Clean, Last
<1>3. lines' = Append(lines, e) /\ end' = "whole"
  <2>1. (lines = <<>> \/ Last(lines).ok) = TRUE
    <3>1. lines # <<>> => Len(lines) \in DOMAIN lines
      BY DEF StoreInv, Types
    <3>2. lines # <<>> => Last(lines).ok \in BOOLEAN
      BY <3>1, LineTyped DEF StoreInv, Last
    <3> QED BY <1>2, <3>2
  <2> QED BY <1>1, <2>1 DEF LineLands
<1>4. e.ok /\ e.pair = pair[w]
  OBVIOUS
<1> HIDE DEF e
<1>5. /\ Len(lines) + 1 \in DOMAIN lines' /\ lines'[Len(lines) + 1] = e
      /\ \A k \in DOMAIN lines : k \in DOMAIN lines' /\ lines'[k] = lines[k]
      /\ \A k \in DOMAIN lines' : k \in DOMAIN lines \/ k = Len(lines) + 1
  <2>1. lines \in Seq(Entries)
    BY DEF StoreInv, Types
  <2>2. DOMAIN lines = 1 .. Len(lines) /\ Len(lines) \in Nat
    BY <2>1
  <2>3. /\ DOMAIN lines' = 1 .. Len(lines) + 1
        /\ \A k \in 1 .. Len(lines) : lines'[k] = lines[k]
        /\ lines'[Len(lines) + 1] = e
    BY <1>3, <2>1, <2>2
  <2> QED BY <2>2, <2>3
<1>6. \A p \in Pairs : Listed(p) => Listed(p)'
  BY <1>5 DEF Listed
<1>7. Listed(pair[w])'
  BY <1>1, <1>4, <1>5 DEF Listed
<1>8. ASSUME NEW p \in Pairs, json'[p] # Absent \/ sidecar'[p] # Absent PROVE Listed(p)'
  <2>1. Listed(p) \/ \E v \in Workers : phase[v] \in Storing /\ pair[v] = p
    BY <1>1, <1>8 DEF Clean
  <2>2. \A v \in Workers : phase[v] \in Storing => v = w
    BY <1>1, OneInside DEF StoreInv, Reserved, Storing
  <2> QED BY <1>1, <1>6, <1>7, <2>1, <2>2
<1>9. \A k \in DOMAIN lines' : lines'[k].ok
  BY <1>4, <1>5 DEF Clean
<1> QED BY <1>1, <1>3, <1>6, <1>8, <1>9 DEF Clean

\* What a step without a failure does.
LEMMA CleanStep ==
  ASSUME StoreInv, Clean, NEW w \in Workers, Call(w) \/ Work(w)
  PROVE  /\ Clean'
         /\ \A p \in Pairs : Listed(p) => Listed(p)'
         /\ \A v \in Workers : phase[v] \in Reserved \cup {"reserve"} /\ phase'[v] = "idle" =>
              v = w /\ pair'[w] = pair[w] /\ Listed(pair[w])'
<1> DEFINE Still == /\ UNCHANGED files
                    /\ \A v \in Workers \ {w} : phase'[v] = phase[v] /\ pair'[v] = pair[v]
           Ends  == phase[w] \in Reserved \cup {"reserve"} /\ phase'[w] = "idle" =>
                      pair'[w] = pair[w] /\ Listed(pair[w])'
<1>1. ASSUME Still, phase[w] \notin Reserved \cup {"reserve"}
      PROVE  Clean' /\ (\A p \in Pairs : Listed(p) => Listed(p)') /\ Ends
  BY <1>1, CleanQuiet DEF files, Listed, Reserved
<1>2. CASE Call(w)
  <2>1. Still /\ phase[w] \notin Reserved \cup {"reserve"}
    BY <1>2 DEF StoreInv, Types, Call, Goto, Reserved, Storing
  <2>2. \A v \in Workers \ {w} : phase'[v] = phase[v]
    BY <2>1
  <2> QED BY <1>1, <2>1, <2>2 DEF Reserved, Storing
<1>3. CASE Probe(w) \/ Scan(w) \/ Find(w) \/ ReadJson(w) \/ ReadSidecar(w) \/ Run(w)
  <2>1. UNCHANGED files /\ UNCHANGED pair /\ phase[w] \notin Reserved \cup {"reserve"}
    BY <1>3 DEF Probe, Scan, Find, ReadJson, ReadSidecar, Run, request, Reserved, Storing
  <2>2. \E x : phase' = [phase EXCEPT ![w] = x]
    BY <1>3 DEF Probe, Scan, Find, ReadJson, ReadSidecar, Run, NotFound, Answer, Raise, Return, Goto
  <2>3. \A v \in Workers \ {w} : phase'[v] = phase[v]
    BY <2>2 DEF StoreInv, Types
  <2>4. Still
    BY <2>1, <2>3
  <2> QED BY <1>1, <2>1, <2>3, <2>4 DEF Reserved, Storing
<1>4. CASE Reserve(w)
  <2>1. UNCHANGED files /\ UNCHANGED pair /\ phase[w] = "reserve"
        /\ phase' = [phase EXCEPT ![w] = "check"]
    BY <1>4 DEF Reserve, Goto, request
  <2>2. phase'[w] # "idle" /\ \A v \in Workers \ {w} : phase'[v] = phase[v]
    BY <2>1 DEF StoreInv, Types
  <2>3. Clean'
    BY <2>1, <2>2, CleanQuiet DEF Storing
  <2> QED BY <2>1, <2>2, <2>3 DEF files, Listed, Reserved, Storing
<1>5. CASE Check(w)
  <2>1. UNCHANGED files /\ UNCHANGED pair /\ phase[w] = "check"
        /\ \/ phase' = [phase EXCEPT ![w] = "json"]
           \/ /\ phase' = [phase EXCEPT ![w] = "idle"]
              /\ json[pair[w]] # Absent \/ sidecar[pair[w]] # Absent
    BY <1>5 DEF Check, Raise, Return, Goto, request
  <2>2. \A v \in Workers \ {w} : phase'[v] = phase[v]
    BY <2>1 DEF StoreInv, Types
  <2>3. Clean'
    BY <2>1, <2>2, CleanQuiet DEF Storing
  <2>4. phase'[w] = "idle" => Listed(pair[w])
    <3>1. phase'[w] = "idle" => json[pair[w]] # Absent \/ sidecar[pair[w]] # Absent
      BY <2>1 DEF StoreInv, Types
    <3>2. pair[w] \in Pairs
      BY DEF StoreInv, Types
    <3> QED BY <2>1, <3>1, <3>2, FilesHaveLines DEF StoreInv
  <2> QED BY <2>1, <2>2, <2>3, <2>4 DEF files, Listed, Reserved, Storing
<1>6. CASE WriteJson(w) \/ WriteSidecar(w)
  <2>1. phase'[w] # "idle" /\ lines' = lines /\ \A v \in Workers \ {w} : phase'[v] = phase[v]
    BY <1>6 DEF StoreInv, Types, WriteJson, WriteSidecar, Goto
  <2> QED BY <1>6, <2>1, CleanWrite DEF Listed, Reserved, Storing
<1>7. CASE AppendBegin(w)
  <2>1. \A v \in Workers \ {w} : phase'[v] = phase[v]
    BY <1>7 DEF StoreInv, Types, AppendBegin, Raise, Return, Goto
  <2> QED BY <1>7, <2>1, CleanBegin DEF Listed, Reserved, Storing
<1>8. CASE AppendEnd(w)
  <2>1. \A v \in Workers \ {w} : phase'[v] = phase[v]
    BY <1>8 DEF StoreInv, Types, AppendEnd, Goto
  <2> QED BY <1>8, <2>1, CleanEnd DEF Reserved, Storing
<1>9. CASE AuditFresh(w)
  <2>1. UNCHANGED files /\ UNCHANGED pair /\ phase[w] = "audit"
        /\ \A v \in Workers \ {w} : phase'[v] = phase[v]
    BY <1>9 DEF StoreInv, Types, AuditFresh, Return, Goto, request
  <2>2. Clean'
    BY <2>1, CleanQuiet DEF Storing
  <2>3. Listed(pair[w])
    BY <2>1 DEF StoreInv, Knows, OnChain, Listed
  <2> QED BY <2>1, <2>2, <2>3 DEF files, Listed, Reserved, Storing
<1> QED BY <1>2, <1>3, <1>4, <1>5, <1>6, <1>7, <1>8, <1>9 DEF Work

\* A call that has a result leaves the write region, by success or because the
\* files were there already, only with a result of its pair stored; and stored
\* is stored for good.
ComputedIsKept ==
  faults' = 0 =>
    /\ \A w \in Workers : phase[w] \in Reserved \cup {"reserve"} /\ phase'[w] = "idle" =>
         Stored(pair[w])'
    /\ \A p \in Pairs : Stored(p) => Stored(p)'

LEMMA KeptStep ==
  ASSUME StoreInv, StoreInv', Bounds, CleanInv, [Next]_vars
  PROVE  CleanInv' /\ [ComputedIsKept]_vars
<1>1. CASE UNCHANGED vars
  BY <1>1 DEF vars, files, request, CleanInv, Clean, Listed
<1>2. CASE Next
  <2>1. PICK w \in Workers : Call(w) \/ Work(w) \/ Fail(w)
    BY <1>2 DEF Next
  <2>2. CASE Fail(w)
    <3>1. faults' # 0
      BY <2>2 DEF Fail, Bounds
    <3> QED BY <3>1 DEF CleanInv, ComputedIsKept
  <2>3. CASE Call(w) \/ Work(w)
    <3>1. faults' = faults
      BY <2>3 DEF Call, Work, Probe, Scan, Find, ReadJson, ReadSidecar, Run, Reserve, Check,
                  WriteJson, WriteSidecar, AppendBegin, AppendEnd, AuditFresh
    <3>2. CASE faults # 0
      BY <3>1, <3>2 DEF CleanInv, ComputedIsKept
    <3>3. CASE faults = 0
      <4>1. Clean
        BY <3>3 DEF CleanInv
      <4>2. /\ Clean'
            /\ \A p \in Pairs : Listed(p) => Listed(p)'
            /\ \A v \in Workers : phase[v] \in Reserved \cup {"reserve"} /\ phase'[v] = "idle" =>
                 v = w /\ pair'[w] = pair[w] /\ Listed(pair[w])'
        BY <2>3, <4>1, CleanStep
      <4>3. CleanInv'
        BY <4>2 DEF CleanInv
      <4>4. ListedIsStored /\ ListedIsStored'
        BY <4>3, CleanReads, PTL
      <4>5. \A p \in Pairs : (Listed(p) <=> Stored(p)) /\ (Listed(p)' <=> Stored(p)')
        BY <3>1, <3>3, <4>4 DEF ListedIsStored
      <4>6. ASSUME NEW v \in Workers, phase[v] \in Reserved \cup {"reserve"}, phase'[v] = "idle"
            PROVE  Stored(pair[v])'
        <5>1. v = w /\ pair'[w] = pair[w] /\ Listed(pair[w])' /\ pair[w] \in Pairs
          BY <4>2, <4>6 DEF StoreInv, Types
        <5>2. Stored(pair[w])'
          BY <4>5, <5>1
        <5> QED BY <5>1, <5>2
      <4>7. ComputedIsKept
        BY <4>2, <4>5, <4>6 DEF ComputedIsKept
      <4> QED BY <4>3, <4>7
    <3> QED BY <3>2, <3>3
  <2> QED BY <2>1, <2>2, <2>3
<1> QED BY <1>1, <1>2

\* While nothing fails, no computed result is dropped, whichever siblings race for
\* the pair: who is told that the files exist finds a result stored (_serve_fresh,
\* write_extraction), and a stored result stays readable.
THEOREM NothingDropped == Spec => [][ComputedIsKept]_vars
<1>1. Init => CleanInv
  BY DEF Init, CleanInv, Clean
<1>2. StoreInv /\ StoreInv' /\ Bounds /\ CleanInv /\ [Next]_vars =>
        CleanInv' /\ [ComputedIsKept]_vars
  BY KeptStep
<1> QED BY <1>1, <1>2, BoundsHold, PTL DEF Spec

-----------------------------------------------------------------------------
(* Nobody waits for ever.                                                  *)

\* What is left of the call of a worker, in steps at most.
StepsToEnd ==
  [probe |-> 12, scan |-> 11, run |-> 10, reserve |-> 9, check |-> 8, json |-> 7,
   json_flush |-> 6, sidecar |-> 5, sidecar_flush |-> 4, append |-> 3, append_flush |-> 2,
   audit |-> 1, find |-> 3, read_json |-> 2, read_sidecar |-> 1, idle |-> 0]

\* Every step of a call brings it closer to its end: a plugin runs once, and
\* nothing is retried; and the audit lock is only ever waited for outside the
\* region it guards, so who holds it goes on.
CallsShorten ==
  /\ \A w \in Workers : Work(w) => StepsToEnd[phase'[w]] < StepsToEnd[phase[w]]
  /\ \A v, w \in Workers : lock = v /\ Work(w) /\ v # w => lock' = v /\ phase'[v] = phase[v]

LEMMA WorkShortens ==
  ASSUME StoreInv, NEW w \in Workers, Work(w)
  PROVE  /\ StepsToEnd[phase'[w]] < StepsToEnd[phase[w]]
         /\ \A v \in Workers \ {w} : phase'[v] = phase[v]
         /\ lock' # lock => lock \in {w, NoOne}
<1> DEFINE Moves(from, to) == phase[w] = from /\ \E x \in to : phase' = [phase EXCEPT ![w] = x]
           Frees == lock' # lock => lock \in {w, NoOne}
<1>0. phase \in [Workers -> Phases] /\ (phase[w] \in Reserved => lock = w)
  BY DEF StoreInv, Types, Locks
<1>1. CASE Probe(w)
  <2>1. Moves("probe", {"scan", "run"}) /\ Frees
    BY <1>1 DEF Probe, Goto
  <2> QED BY <1>0, <2>1 DEF StepsToEnd
<1>2. CASE Scan(w)
  <2>1. Moves("scan", {"idle", "find", "run"}) /\ Frees
    BY <1>2 DEF Scan, Goto, Raise, Return
  <2> QED BY <1>0, <2>1 DEF StepsToEnd
<1>3. CASE Find(w)
  <2>1. Moves("find", {"idle", "read_json"}) /\ Frees
    BY <1>3 DEF Find, NotFound, Goto, Raise, Answer, Return
  <2> QED BY <1>0, <2>1 DEF StepsToEnd
<1>4. CASE ReadJson(w)
  <2>1. Moves("read_json", {"idle", "read_sidecar"}) /\ Frees
    BY <1>4 DEF ReadJson, NotFound, Goto, Raise, Answer, Return
  <2> QED BY <1>0, <2>1 DEF StepsToEnd
<1>5. CASE ReadSidecar(w)
  <2>1. Moves("read_sidecar", {"idle"}) /\ Frees
    BY <1>5 DEF ReadSidecar, Goto, Answer, Return
  <2> QED BY <1>0, <2>1 DEF StepsToEnd
<1>6. CASE Run(w)
  <2>1. Moves("run", {"idle", "reserve"}) /\ Frees
    BY <1>6 DEF Run, Goto, Answer, Return
  <2> QED BY <1>0, <2>1 DEF StepsToEnd
<1>7. CASE Reserve(w)
  <2>1. Moves("reserve", {"check"}) /\ Frees
    BY <1>7 DEF Reserve, Goto
  <2> QED BY <1>0, <2>1 DEF StepsToEnd
<1>8. CASE Check(w)
  <2>1. Moves("check", {"idle", "json"}) /\ Frees
    BY <1>0, <1>8 DEF Check, Goto, Raise, Return, Reserved
  <2> QED BY <1>0, <2>1 DEF StepsToEnd
<1>9. CASE WriteJson(w)
  <2>1. (Moves("json", {"json_flush"}) \/ Moves("json_flush", {"sidecar"})) /\ Frees
    BY <1>9 DEF WriteJson, Goto
  <2> QED BY <1>0, <2>1 DEF StepsToEnd
<1>10. CASE WriteSidecar(w)
  <2>1. (Moves("sidecar", {"sidecar_flush"}) \/ Moves("sidecar_flush", {"append"})) /\ Frees
    BY <1>10 DEF WriteSidecar, Goto
  <2> QED BY <1>0, <2>1 DEF StepsToEnd
<1>11. CASE AppendBegin(w)
  <2>1. Moves("append", {"idle", "append_flush"}) /\ Frees
    BY <1>0, <1>11 DEF AppendBegin, Goto, Raise, Return, Reserved, Storing
  <2> QED BY <1>0, <2>1 DEF StepsToEnd
<1>12. CASE AppendEnd(w)
  <2>1. Moves("append_flush", {"audit"}) /\ Frees
    BY <1>12 DEF AppendEnd, Goto
  <2> QED BY <1>0, <2>1 DEF StepsToEnd
<1>13. CASE AuditFresh(w)
  <2>1. Moves("audit", {"idle"}) /\ Frees
    BY <1>0, <1>13 DEF AuditFresh, Goto, Return, Reserved
  <2> QED BY <1>0, <2>1 DEF StepsToEnd
<1> QED BY <1>1, <1>2, <1>3, <1>4, <1>5, <1>6, <1>7, <1>8, <1>9, <1>10, <1>11, <1>12, <1>13
        DEF Work

\* A call ends after twelve steps at most, and no sibling takes the lock from the
\* worker that holds it or moves it: with NothingDropped, what ResultsAreStored
\* says up to fairness.
THEOREM CallsEnd == Spec => []Locks /\ [][CallsShorten]_vars
<1>1. StoreInv => Locks /\ CallsShorten
  <2> SUFFICES ASSUME StoreInv PROVE CallsShorten
    BY DEF StoreInv
  <2>1. ASSUME NEW v \in Workers, NEW w \in Workers, lock = v, Work(w), v # w
        PROVE  lock' = v /\ phase'[v] = phase[v]
    <3>1. lock \notin {w, NoOne}
      BY <2>1, NoOneAssumption
    <3> QED BY <2>1, <3>1, WorkShortens
  <2> QED BY <2>1, WorkShortens DEF CallsShorten
<1> QED BY <1>1, StoreHolds, PTL
=============================================================================
