--------------------------- MODULE ChainLogProofs ---------------------------
(* Proofs about ChainLog, for any threads, processes, calls and faults. *)
EXTENDS ChainLog, FiniteSetTheorems, TLAPS

\* What is used of the table of calls: one to three appends, and a reserving
\* call appends to the audit chain last and only then.
LEMMA AppendsShape ==
  ASSUME NEW k \in DOMAIN Appends
  PROVE  /\ Len(Appends[k]) \in 1..3
         /\ \A i \in 1..Len(Appends[k]) : Appends[k][i] \in Chains
         /\ k \in Reserving => /\ Appends[k][Len(Appends[k])] = "audit"
                               /\ \A i \in 1..Len(Appends[k]) :
                                    i # Len(Appends[k]) => Appends[k][i] # "audit"
<1>1. DOMAIN Appends = {"audited_call", "record_finding", "corrected_finding",
                        "update_finding", "record_correlation",
                        "fresh_extraction", "query_records", "iteration_entry"}
  BY DEF Appends
<1>2. CASE k = "audited_call"        BY <1>2 DEF Appends, Chains, Reserving
<1>3. CASE k = "record_finding"      BY <1>3 DEF Appends, Chains, Reserving
<1>4. CASE k = "corrected_finding"   BY <1>4 DEF Appends, Chains, Reserving
<1>5. CASE k = "update_finding"      BY <1>5 DEF Appends, Chains, Reserving
<1>6. CASE k = "record_correlation"  BY <1>6 DEF Appends, Chains, Reserving
<1>7. CASE k = "fresh_extraction"    BY <1>7 DEF Appends, Chains, Reserving
<1>8. CASE k = "query_records"       BY <1>8 DEF Appends, Chains, Reserving
<1>9. CASE k = "iteration_entry"     BY <1>9 DEF Appends, Chains, Reserving
<1>10. QED
  BY <1>1, <1>2, <1>3, <1>4, <1>5, <1>6, <1>7, <1>8, <1>9

\* The current append of a thread is one of its call's appends.
StepOK == \A t \in Threads : step[t] \in 1..Len(Appends[tool[t]])

LEMMA CurIsChain ==
  ASSUME TypeOK, StepOK, NEW t \in Threads
  PROVE  Cur(t) \in Chains
BY AppendsShape DEF TypeOK, StepOK, Cur

-----------------------------------------------------------------------------
(* Types. *)

LEMMA InitTypes == Init => TypeOK /\ StepOK
<1> SUFFICES ASSUME Init PROVE TypeOK /\ StepOK
  OBVIOUS
<1>1. "audited_call" \in DOMAIN Appends /\ Len(Appends["audited_call"]) = 1
  BY DEF Appends
<1>2. StepOK
  <2> SUFFICES ASSUME NEW t \in Threads PROVE step[t] \in 1..Len(Appends[tool[t]])
    BY DEF StepOK
  <2>1. tool[t] = "audited_call" /\ step[t] = 1
    BY DEF Init
  <2>2. Len(Appends[tool[t]]) = 1
    BY <1>1, <2>1
  <2>3. QED
    BY <2>1, <2>2
<1>3. QED
  BY <1>1, <1>2, NoOneAssumption DEF Init, TypeOK, Entry, Phases, Genesis

\* What the file part of a step does: nothing, part of a line, or one record.
LEMMA RecordLandsTypes ==
  ASSUME TypeOK, StepOK, NEW t \in Threads, NEW end \in {"whole", "bare"},
         RecordLands(t, end)
  PROVE  /\ log' \in [Chains -> Seq(Entry)]
         /\ tail' \in [Chains -> {"whole", "bare", "cut"}]
         /\ lost' \in [Chains -> 0..2]
         /\ digests' \in Nat
<1>1. Cur(t) \in Chains
  BY CurIsChain
<1>2. Record(t) \in Entry
  BY DEF TypeOK, Record, Entry
<1>3. log' \in [Chains -> Seq(Entry)]
  BY <1>1, <1>2 DEF TypeOK, RecordLands
<1>4. tail' \in [Chains -> {"whole", "bare", "cut"}]
  BY <1>1 DEF TypeOK, RecordLands
<1>5. lost' \in [Chains -> 0..2]
  BY <1>1 DEF TypeOK, RecordLands
<1>6. QED
  BY <1>3, <1>4, <1>5 DEF TypeOK, RecordLands

\* Stopping threads keeps the types of what it changes.
LEMMA StopTypes ==
  ASSUME TypeOK, StepOK, NEW ts, Stop(ts)
  PROVE  /\ lock' \in [Chains -> Threads \cup {NoOne}]
         /\ held' \in [Threads -> [Chains -> Nat]]
         /\ phase' \in [Threads -> Phases]
         /\ resv' \in [Threads -> Nat]
         /\ call' \in [Threads -> Nat]
         /\ tool' = tool /\ step' = step /\ got' = got
BY DEF TypeOK, Stop, Phases

LEMMA EnterTypes ==
  ASSUME TypeOK, NEW t \in Threads, NEW c \in Chains, Enter(t, c)
  PROVE  /\ lock' \in [Chains -> Threads \cup {NoOne}]
         /\ held' \in [Threads -> [Chains -> Nat]]
<1>1. held[t][c] + 1 \in Nat
  BY DEF TypeOK
<1>2. held' \in [Threads -> [Chains -> Nat]]
  BY <1>1 DEF TypeOK, Enter
<1>3. lock' \in [Chains -> Threads \cup {NoOne}]
  BY DEF TypeOK, Enter
<1>4. QED
  BY <1>2, <1>3

LEMMA LeaveTypes ==
  ASSUME TypeOK, NEW t \in Threads, NEW c \in Chains, held[t][c] > 0, Leave(t, c)
  PROVE  /\ lock' \in [Chains -> Threads \cup {NoOne}]
         /\ held' \in [Threads -> [Chains -> Nat]]
<1>1. held[t][c] - 1 \in Nat
  BY DEF TypeOK
<1>2. held' \in [Threads -> [Chains -> Nat]]
  BY <1>1 DEF TypeOK, Leave
<1>3. lock' \in [Chains -> Threads \cup {NoOne}]
  BY DEF TypeOK, Leave
<1>4. QED
  BY <1>2, <1>3

-----------------------------------------------------------------------------
(* Locks.  A thread holds the audit lock once for its reservation and the  *)
(* lock of its current append once more; the flock belongs to a thread     *)
(* exactly while its ledger says so.                                       *)

InReservation(t) == tool[t] \in Reserving /\ phase[t] \notin {"idle", "reserve"}
InAppend(t) == phase[t] \in {"read", "write", "flush", "release"}

HeldExactly ==
  \A t \in Threads : \A c \in Chains :
    held[t][c] = (IF InReservation(t) /\ c = "audit" THEN 1 ELSE 0)
                 + (IF InAppend(t) /\ c = Cur(t) THEN 1 ELSE 0)

FlockMatchesLedger ==
  \A t \in Threads : \A c \in Chains : lock[c] = t <=> held[t][c] > 0

\* The phases of a reservation belong to reserving calls.
PhaseOK ==
  \A t \in Threads :
    /\ phase[t] \in {"reserve", "peek", "unreserve"} => tool[t] \in Reserving
    /\ phase[t] = "unreserve" => IsLast(t)

LockInv == TypeOK /\ StepOK /\ PhaseOK /\ HeldExactly /\ FlockMatchesLedger

LEMMA InitLockInv == Init => LockInv
<1> SUFFICES ASSUME Init PROVE LockInv
  OBVIOUS
<1>1. TypeOK /\ StepOK
  BY InitTypes
<1>2. PhaseOK
  BY DEF Init, PhaseOK
<1>3. HeldExactly
  BY DEF Init, HeldExactly, InReservation, InAppend
<1>4. FlockMatchesLedger
  BY NoOneAssumption DEF Init, FlockMatchesLedger
<1>5. QED
  BY <1>1, <1>2, <1>3, <1>4 DEF LockInv

\* A lock a thread enters or leaves keeps the two views of it equal.
LEMMA EnterKeepsFlock ==
  ASSUME LockInv, NEW t \in Threads, NEW c \in Chains, Enter(t, c)
  PROVE  FlockMatchesLedger'
<1>1. \A u \in Threads : \A d \in Chains :
        held'[u][d] = IF u = t /\ d = c THEN held[t][c] + 1 ELSE held[u][d]
  BY DEF LockInv, TypeOK, Enter
<1>2. held[t][c] \in Nat
  BY DEF LockInv, TypeOK
<1>3. CASE held[t][c] > 0 /\ lock' = lock
  BY <1>1, <1>2, <1>3 DEF LockInv, FlockMatchesLedger
<1>4. CASE lock[c] = NoOne /\ lock' = [lock EXCEPT ![c] = t]
  <2>1. \A d \in Chains : lock'[d] = IF d = c THEN t ELSE lock[d]
    BY <1>4 DEF LockInv, TypeOK
  <2>2. QED
    BY <1>1, <1>2, <1>4, <2>1, NoOneAssumption DEF LockInv, FlockMatchesLedger
<1>5. QED
  BY <1>3, <1>4 DEF Enter

LEMMA LeaveKeepsFlock ==
  ASSUME LockInv, NEW t \in Threads, NEW c \in Chains, held[t][c] > 0, Leave(t, c)
  PROVE  FlockMatchesLedger'
<1>1. lock[c] = t
  BY DEF LockInv, FlockMatchesLedger
<1>2. CASE held[t][c] > 1
  <2>1. held'[t][c] > 0 /\ lock' = lock
    BY <1>2 DEF LockInv, TypeOK, Leave
  <2>2. \A u \in Threads : \A d \in Chains :
          (u # t \/ d # c) => held'[u][d] = held[u][d]
    BY DEF LockInv, TypeOK, Leave
  <2>3. QED
    BY <1>1, <2>1, <2>2 DEF LockInv, FlockMatchesLedger
<1>3. CASE ~(held[t][c] > 1)
  <2>1. held'[t][c] = 0 /\ lock' = [lock EXCEPT ![c] = NoOne]
    BY <1>3 DEF LockInv, TypeOK, Leave
  <2>2. \A u \in Threads : \A d \in Chains :
          (u # t \/ d # c) => held'[u][d] = held[u][d]
    BY DEF LockInv, TypeOK, Leave
  <2>3. QED
    BY <1>1, <2>1, <2>2, NoOneAssumption DEF LockInv, TypeOK, FlockMatchesLedger
<1>4. QED
  BY <1>2, <1>3

LEMMA StopKeepsFlock ==
  ASSUME LockInv, NEW ts, Stop(ts)
  PROVE  /\ FlockMatchesLedger'
         /\ HeldExactly'
         /\ PhaseOK'
         /\ StepOK'
<1>1. FlockMatchesLedger'
  BY NoOneAssumption DEF LockInv, TypeOK, FlockMatchesLedger, Stop
<1>2. HeldExactly'
  BY DEF LockInv, TypeOK, HeldExactly, Stop, InReservation, InAppend, Cur
<1>3. PhaseOK' /\ StepOK'
  BY DEF LockInv, TypeOK, PhaseOK, StepOK, Stop, IsLast
<1>4. QED
  BY <1>1, <1>2, <1>3

\* A step of thread t leaves the others alone: HeldExactly is about t only.
OthersStay(t) ==
  \A u \in Threads \ {t} :
    /\ tool'[u] = tool[u] /\ phase'[u] = phase[u]
    /\ step'[u] = step[u] /\ held'[u] = held[u]

LEMMA LocalStep ==
  ASSUME LockInv, NEW t \in Threads, OthersStay(t),
         \A c \in Chains :
           held'[t][c] = (IF InReservation(t)' /\ c = "audit" THEN 1 ELSE 0)
                         + (IF InAppend(t)' /\ c = Cur(t)' THEN 1 ELSE 0),
         step'[t] \in 1..Len(Appends[tool'[t]]),
         phase'[t] \in {"reserve", "peek", "unreserve"} => tool'[t] \in Reserving,
         phase'[t] = "unreserve" => IsLast(t)'
  PROVE  HeldExactly' /\ StepOK' /\ PhaseOK'
<1>1. HeldExactly'
  <2> SUFFICES ASSUME NEW u \in Threads, NEW c \in Chains
               PROVE  held'[u][c]
                        = (IF InReservation(u)' /\ c = "audit" THEN 1 ELSE 0)
                          + (IF InAppend(u)' /\ c = Cur(u)' THEN 1 ELSE 0)
    BY DEF HeldExactly
  <2>1. CASE u = t
    BY <2>1
  <2>2. CASE u # t
    BY <2>2 DEF LockInv, HeldExactly, OthersStay, InReservation, InAppend, Cur
  <2>3. QED
    BY <2>1, <2>2
<1>2. StepOK'
  BY DEF LockInv, StepOK, OthersStay
<1>3. PhaseOK'
  BY DEF LockInv, PhaseOK, OthersStay, IsLast
<1>4. QED
  BY <1>1, <1>2, <1>3

LEMMA CallKeepsLocks ==
  ASSUME LockInv, NEW t \in Threads, Call(t)
  PROVE  LockInv'
<1>1. PICK k \in Tools :
         /\ tool'  = [tool EXCEPT ![t] = k]
         /\ phase' = [phase EXCEPT ![t] = IF k \in Reserving THEN "reserve" ELSE "acquire"]
  BY DEF Call
<1>2. k \in DOMAIN Appends
  BY ToolsAssumption
<1>3. TypeOK'
  BY <1>1, <1>2 DEF LockInv, TypeOK, Call, fileVars, lockVars, Phases
<1>4. \A c \in Chains : held'[t][c] = 0
  BY DEF LockInv, HeldExactly, InReservation, InAppend, Call, lockVars
<1>5. tool'[t] = k /\ phase'[t] = (IF k \in Reserving THEN "reserve" ELSE "acquire")
      /\ step'[t] = 1
  BY <1>1 DEF LockInv, TypeOK, Call
<1>6. OthersStay(t)
  BY <1>1 DEF OthersStay, LockInv, TypeOK, Call, lockVars
<1>7. 1 \in 1..Len(Appends[k])
  BY <1>2, AppendsShape
<1>8. HeldExactly' /\ StepOK' /\ PhaseOK'
  BY <1>4, <1>5, <1>6, <1>7, LocalStep DEF InReservation, InAppend
<1>9. FlockMatchesLedger'
  BY DEF LockInv, FlockMatchesLedger, Call, lockVars
<1>10. QED
  BY <1>3, <1>8, <1>9 DEF LockInv

LEMMA ReserveKeepsLocks ==
  ASSUME LockInv, NEW t \in Threads, Reserve(t)
  PROVE  LockInv'
<1>1. "audit" \in Chains
  BY DEF Chains
<1>2. TypeOK'
  BY <1>1, EnterTypes DEF LockInv, TypeOK, Reserve, fileVars, Phases
<1>3. \A c \in Chains : held[t][c] = 0
  BY DEF LockInv, HeldExactly, InReservation, InAppend, Reserve
<1>4. \A c \in Chains : held'[t][c] = IF c = "audit" THEN 1 ELSE 0
  BY <1>3 DEF LockInv, TypeOK, Reserve, Enter
<1>5. phase'[t] = "peek" /\ tool'[t] = tool[t] /\ step'[t] = step[t] /\ tool[t] \in Reserving
  BY DEF LockInv, TypeOK, PhaseOK, Reserve
<1>6. OthersStay(t)
  BY DEF OthersStay, LockInv, TypeOK, Reserve, Enter
<1>7. step'[t] \in 1..Len(Appends[tool'[t]])
  BY <1>5 DEF LockInv, StepOK
<1>8. HeldExactly' /\ StepOK' /\ PhaseOK'
  BY <1>4, <1>5, <1>6, <1>7, LocalStep DEF InReservation, InAppend
<1>9. FlockMatchesLedger'
  BY <1>1, EnterKeepsFlock DEF Reserve
<1>10. QED
  BY <1>2, <1>8, <1>9 DEF LockInv

LEMMA AcquireKeepsLocks ==
  ASSUME LockInv, NEW t \in Threads, Acquire(t)
  PROVE  LockInv'
<1>1. Cur(t) \in Chains
  BY CurIsChain DEF LockInv
<1>2. TypeOK'
  BY <1>1, EnterTypes DEF LockInv, TypeOK, Acquire, fileVars, Phases
<1>3. \A c \in Chains :
        held[t][c] = IF tool[t] \in Reserving /\ c = "audit" THEN 1 ELSE 0
  BY DEF LockInv, HeldExactly, InReservation, InAppend, Acquire
<1>4. \A c \in Chains :
        held'[t][c] = held[t][c] + (IF c = Cur(t) THEN 1 ELSE 0)
  BY <1>1 DEF LockInv, TypeOK, Acquire, Enter
<1>5. phase'[t] = "read" /\ tool'[t] = tool[t] /\ step'[t] = step[t]
  BY DEF LockInv, TypeOK, Acquire
<1>6. OthersStay(t)
  BY DEF OthersStay, LockInv, TypeOK, Acquire, Enter
<1>7. step'[t] \in 1..Len(Appends[tool'[t]])
  BY <1>5 DEF LockInv, StepOK
<1>8. HeldExactly' /\ StepOK' /\ PhaseOK'
  BY <1>3, <1>4, <1>5, <1>6, <1>7, LocalStep DEF InReservation, InAppend, Cur
<1>9. FlockMatchesLedger'
  BY <1>1, EnterKeepsFlock DEF Acquire
<1>10. QED
  BY <1>2, <1>8, <1>9 DEF LockInv

\* The steps between taking and giving up a lock: only the phase changes.
LEMMA PhaseStepKeepsLocks ==
  ASSUME LockInv, NEW t \in Threads, TypeOK', NEW ph \in Phases,
         \/ phase[t] = "peek" /\ ph = "acquire"
         \/ InAppend(t) /\ ph \in {"read", "write", "flush", "release"},
         phase' = [phase EXCEPT ![t] = ph],
         UNCHANGED <<lockVars, tool, step>>
  PROVE  LockInv'
<1>1. phase'[t] = ph
  BY DEF LockInv, TypeOK
<1>2. OthersStay(t)
  BY DEF OthersStay, LockInv, TypeOK, lockVars
<1>3. \A c \in Chains :
        held'[t][c] = (IF InReservation(t)' /\ c = "audit" THEN 1 ELSE 0)
                      + (IF InAppend(t)' /\ c = Cur(t)' THEN 1 ELSE 0)
  BY <1>1 DEF LockInv, HeldExactly, InReservation, InAppend, Cur, lockVars
<1>4. step'[t] \in 1..Len(Appends[tool'[t]])
  BY DEF LockInv, StepOK
<1>5. ph \notin {"reserve", "peek", "unreserve"}
  OBVIOUS
<1>6. HeldExactly' /\ StepOK' /\ PhaseOK'
  BY <1>1, <1>2, <1>3, <1>4, <1>5, LocalStep
<1>7. FlockMatchesLedger'
  BY DEF LockInv, FlockMatchesLedger, lockVars
<1>8. QED
  BY <1>6, <1>7 DEF LockInv

LEMMA HeadTypes ==
  ASSUME TypeOK, NEW c \in Chains
  PROVE  NextLine(c) \in Nat /\ LastHash(log[c]) \in Nat
<1>1. log[c] \in Seq(Entry)
  BY DEF TypeOK
<1>2. CASE log[c] = <<>>
  BY <1>2 DEF NextLine, LastHash, Genesis
<1>3. CASE log[c] # <<>>
  <2>1. Len(log[c]) \in 1..Len(log[c])
    BY <1>1, <1>3
  <2>2. log[c][Len(log[c])] \in Entry
    BY <1>1, <2>1
  <2>3. QED
    BY <1>1, <1>3, <2>1, <2>2 DEF NextLine, LastHash, Entry
<1>4. QED
  BY <1>2, <1>3

LEMMA PeekKeepsLocks ==
  ASSUME LockInv, NEW t \in Threads, Peek(t)
  PROVE  LockInv'
<1>1. NextLine("audit") \in Nat
  BY HeadTypes DEF LockInv, Chains
<1>2. TypeOK'
  BY <1>1 DEF LockInv, TypeOK, Peek, fileVars, lockVars, Phases
<1>3. "acquire" \in Phases
  BY DEF Phases
<1>4. QED
  BY <1>2, <1>3, PhaseStepKeepsLocks DEF Peek

LEMMA ReadStateKeepsLocks ==
  ASSUME LockInv, NEW t \in Threads, ReadState(t)
  PROVE  LockInv'
<1>1. Cur(t) \in Chains
  BY CurIsChain DEF LockInv
<1>2. NextLine(Cur(t)) \in Nat /\ LastHash(log[Cur(t)]) \in Nat
  BY <1>1, HeadTypes DEF LockInv
<1>3. TypeOK'
  BY <1>2 DEF LockInv, TypeOK, ReadState, fileVars, lockVars, Phases
<1>4. "write" \in Phases /\ InAppend(t)
  BY DEF Phases, InAppend, ReadState
<1>5. QED
  BY <1>3, <1>4, PhaseStepKeepsLocks DEF ReadState

LEMMA WriteBeginKeepsLocks ==
  ASSUME LockInv, NEW t \in Threads, WriteBegin(t)
  PROVE  LockInv'
<1>1. Cur(t) \in Chains
  BY CurIsChain DEF LockInv
<1>2. TypeOK'
  <2>1. tail' \in [Chains -> {"whole", "bare", "cut"}] /\ lost' \in [Chains -> 0..2]
    BY <1>1 DEF LockInv, TypeOK, WriteBegin
  <2>2. phase' \in [Threads -> Phases]
    BY DEF LockInv, TypeOK, WriteBegin, Phases
  <2>3. QED
    BY <2>1, <2>2 DEF LockInv, TypeOK, WriteBegin, lockVars
<1>3. "flush" \in Phases /\ InAppend(t)
  BY DEF Phases, InAppend, WriteBegin
<1>4. QED
  BY <1>2, <1>3, PhaseStepKeepsLocks DEF WriteBegin

LEMMA WriteEndKeepsLocks ==
  ASSUME LockInv, NEW t \in Threads, WriteEnd(t)
  PROVE  LockInv'
<1>1. TypeOK'
  <2>1. /\ log' \in [Chains -> Seq(Entry)]
        /\ tail' \in [Chains -> {"whole", "bare", "cut"}]
        /\ lost' \in [Chains -> 0..2]
        /\ digests' \in Nat
    BY RecordLandsTypes DEF LockInv, WriteEnd
  <2>2. phase' \in [Threads -> Phases]
    BY DEF LockInv, TypeOK, WriteEnd, Phases
  <2>3. QED
    BY <2>1, <2>2 DEF LockInv, TypeOK, WriteEnd, lockVars
<1>2. "release" \in Phases /\ InAppend(t)
  BY DEF Phases, InAppend, WriteEnd
<1>3. QED
  BY <1>1, <1>2, PhaseStepKeepsLocks DEF WriteEnd

LEMMA AnswerType ==
  ASSUME TypeOK, NEW t \in Threads
  PROVE  Answer(t) \in [call : Nat, tool : DOMAIN Appends, line : Nat]
<1>1. call[t] \in Nat /\ tool[t] \in DOMAIN Appends /\ resv[t] \in Nat
  BY DEF TypeOK
<1>2. QED
  BY <1>1 DEF Answer

LEMMA ReleaseKeepsLocks ==
  ASSUME LockInv, NEW t \in Threads, Release(t)
  PROVE  LockInv'
<1>1. Cur(t) \in Chains /\ tool[t] \in DOMAIN Appends
  BY CurIsChain DEF LockInv, TypeOK
<1>2. Len(Appends[tool[t]]) \in 1..3 /\ step[t] \in 1..Len(Appends[tool[t]])
  BY <1>1, AppendsShape DEF LockInv, StepOK
<1>3. \A c \in Chains :
        held[t][c] = (IF tool[t] \in Reserving /\ c = "audit" THEN 1 ELSE 0)
                     + (IF c = Cur(t) THEN 1 ELSE 0)
  BY DEF LockInv, HeldExactly, InReservation, InAppend, Release
<1>4. held[t][Cur(t)] > 0
  BY <1>1, <1>3
<1>5. Leave(t, Cur(t))
  BY DEF Release
<1>6. \A c \in Chains :
        held'[t][c] = IF tool[t] \in Reserving /\ c = "audit" THEN 1 ELSE 0
  BY <1>1, <1>3, <1>5 DEF LockInv, TypeOK, Leave
<1>7. FlockMatchesLedger'
  BY <1>1, <1>4, <1>5, LeaveKeepsFlock
<1>8. /\ lock' \in [Chains -> Threads \cup {NoOne}]
      /\ held' \in [Threads -> [Chains -> Nat]]
  BY <1>1, <1>4, <1>5, LeaveTypes DEF LockInv
<1>9. TypeOK'
  <2>1. step' \in [Threads -> 1..3]
    <3>1. CASE ~IsLast(t) /\ step' = [step EXCEPT ![t] = @ + 1]
      <4>1. step[t] + 1 \in 1..3
        <5> DEFINE n == Len(Appends[tool[t]])
                   s == step[t]
        <5>1. n \in 1..3 /\ s \in 1..n /\ s # n
          BY <1>2, <3>1 DEF IsLast
        <5>2. ASSUME NEW i, NEW m, m \in 1..3, i \in 1..m, i # m
              PROVE  i + 1 \in 1..3
          BY <5>2
        <5> HIDE DEF n, s
        <5>3. s + 1 \in 1..3
          BY <5>1, <5>2
        <5>4. QED
          BY <5>3 DEF s
      <4>2. QED
        BY <3>1, <4>1 DEF LockInv, TypeOK
    <3>2. CASE step' = step
      BY <3>2 DEF LockInv, TypeOK
    <3>3. QED
      BY <3>1, <3>2 DEF Release
  <2>2. phase' \in [Threads -> Phases] /\ call' \in [Threads -> Nat]
    <3>1. \E ph \in Phases : phase' = [phase EXCEPT ![t] = ph]
      BY DEF Release, Phases
    <3>2. call' = call \/ call' = [call EXCEPT ![t] = 0]
      BY DEF Release
    <3>3. QED
      BY <3>1, <3>2 DEF LockInv, TypeOK
  <2>3. answers' \subseteq [call : Nat, tool : DOMAIN Appends, line : Nat]
    BY AnswerType DEF LockInv, TypeOK, Release
  <2>4. QED
    BY <1>8, <2>1, <2>2, <2>3 DEF LockInv, TypeOK, Release, fileVars
<1>10. OthersStay(t)
  BY DEF OthersStay, LockInv, TypeOK, Release, Leave
<1>11. HeldExactly' /\ StepOK' /\ PhaseOK'
  <2>1. CASE /\ ~IsLast(t) /\ step' = [step EXCEPT ![t] = @ + 1]
             /\ phase' = [phase EXCEPT ![t] = "acquire"]
    <3>1. phase'[t] = "acquire" /\ tool'[t] = tool[t] /\ step'[t] = step[t] + 1
      BY <2>1 DEF LockInv, TypeOK, Release
    <3>2. step'[t] \in 1..Len(Appends[tool'[t]])
      BY <1>2, <2>1, <3>1 DEF IsLast
    <3>3. QED
      BY <1>6, <1>10, <3>1, <3>2, LocalStep DEF InReservation, InAppend
  <2>2. CASE /\ IsLast(t) /\ tool[t] \in Reserving /\ step' = step
             /\ phase' = [phase EXCEPT ![t] = "unreserve"]
    <3>1. phase'[t] = "unreserve" /\ tool'[t] = tool[t] /\ step'[t] = step[t]
      BY <2>2 DEF LockInv, TypeOK, Release
    <3>2. step'[t] \in 1..Len(Appends[tool'[t]]) /\ IsLast(t)'
      BY <1>2, <2>2, <3>1 DEF IsLast
    <3>3. QED
      BY <1>6, <1>10, <2>2, <3>1, <3>2, LocalStep DEF InReservation, InAppend
  <2>3. CASE /\ IsLast(t) /\ tool[t] \notin Reserving /\ step' = step
             /\ phase' = [phase EXCEPT ![t] = "idle"]
    <3>1. phase'[t] = "idle" /\ tool'[t] = tool[t] /\ step'[t] = step[t]
      BY <2>3 DEF LockInv, TypeOK, Release
    <3>2. step'[t] \in 1..Len(Appends[tool'[t]])
      BY <1>2, <3>1
    <3>3. QED
      BY <1>6, <1>10, <2>3, <3>1, <3>2, LocalStep DEF InReservation, InAppend
  <2>4. QED
    BY <2>1, <2>2, <2>3 DEF Release
<1>12. QED
  BY <1>7, <1>9, <1>11 DEF LockInv

LEMMA UnreserveKeepsLocks ==
  ASSUME LockInv, NEW t \in Threads, Unreserve(t)
  PROVE  LockInv'
<1>1. "audit" \in Chains /\ tool[t] \in Reserving
  BY DEF LockInv, PhaseOK, Chains, Unreserve
<1>2. \A c \in Chains : held[t][c] = IF c = "audit" THEN 1 ELSE 0
  BY <1>1 DEF LockInv, HeldExactly, InReservation, InAppend, Unreserve
<1>3. held[t]["audit"] > 0 /\ Leave(t, "audit")
  BY <1>1, <1>2 DEF Unreserve
<1>4. FlockMatchesLedger'
  BY <1>1, <1>3, LeaveKeepsFlock
<1>5. TypeOK'
  <2>1. /\ lock' \in [Chains -> Threads \cup {NoOne}]
        /\ held' \in [Threads -> [Chains -> Nat]]
    BY <1>1, <1>3, LeaveTypes DEF LockInv
  <2>2. answers' \subseteq [call : Nat, tool : DOMAIN Appends, line : Nat]
    BY AnswerType DEF LockInv, TypeOK, Unreserve
  <2>3. phase' \in [Threads -> Phases] /\ call' \in [Threads -> Nat]
        /\ resv' \in [Threads -> Nat]
    BY DEF LockInv, TypeOK, Unreserve, Phases
  <2>4. QED
    BY <2>1, <2>2, <2>3 DEF LockInv, TypeOK, Unreserve, fileVars
<1>6. \A c \in Chains : held'[t][c] = 0
  BY <1>2, <1>3 DEF LockInv, TypeOK, Leave
<1>7. phase'[t] = "idle" /\ tool'[t] = tool[t] /\ step'[t] = step[t]
  BY DEF LockInv, TypeOK, Unreserve
<1>8. OthersStay(t)
  BY DEF OthersStay, LockInv, TypeOK, Unreserve, Leave
<1>9. step'[t] \in 1..Len(Appends[tool'[t]])
  BY <1>7 DEF LockInv, StepOK
<1>10. HeldExactly' /\ StepOK' /\ PhaseOK'
  BY <1>6, <1>7, <1>8, <1>9, LocalStep DEF InReservation, InAppend
<1>11. QED
  BY <1>4, <1>5, <1>10 DEF LockInv

\* A thread or a process that stops, with or without a record left behind.
LEMMA StopKeepsLocks ==
  ASSUME LockInv, NEW ts, Stop(ts),
         \/ UNCHANGED fileVars
         \/ \E t \in Threads, end \in {"whole", "bare"} : RecordLands(t, end),
         faults' \in Nat, UNCHANGED <<ncalls, answers>>
  PROVE  LockInv'
<1>1. /\ log' \in [Chains -> Seq(Entry)]
      /\ tail' \in [Chains -> {"whole", "bare", "cut"}]
      /\ lost' \in [Chains -> 0..2]
      /\ digests' \in Nat
  <2>1. CASE UNCHANGED fileVars
    BY <2>1 DEF LockInv, TypeOK, fileVars
  <2>2. CASE \E t \in Threads, end \in {"whole", "bare"} : RecordLands(t, end)
    BY <2>2, RecordLandsTypes DEF LockInv
  <2>3. QED
    BY <2>1, <2>2
<1>2. TypeOK'
  BY <1>1, StopTypes DEF LockInv, TypeOK
<1>3. QED
  BY <1>2, StopKeepsFlock DEF LockInv

\* The locks and the types survive every step.
LEMMA NextKeepsLocks ==
  ASSUME LockInv, [Next]_vars
  PROVE  LockInv'
<1>1. CASE UNCHANGED vars
  BY <1>1 DEF vars, fileVars, lockVars, threadVars, LockInv, TypeOK, StepOK, PhaseOK,
              HeldExactly, FlockMatchesLedger, InReservation, InAppend, Cur, IsLast
<1>2. ASSUME NEW t \in Threads, Call(t) PROVE LockInv'
  BY <1>2, CallKeepsLocks
<1>3. ASSUME NEW t \in Threads, Work(t) PROVE LockInv'
  <2>1. CASE Reserve(t)    BY <2>1, ReserveKeepsLocks
  <2>2. CASE Peek(t)       BY <2>2, PeekKeepsLocks
  <2>3. CASE Acquire(t)    BY <2>3, AcquireKeepsLocks
  <2>4. CASE ReadState(t)  BY <2>4, ReadStateKeepsLocks
  <2>5. CASE Refuse(t)
    <3>1. faults' \in Nat
      BY <2>5 DEF Refuse, LockInv, TypeOK
    <3>2. QED
      BY <2>5, <3>1, StopKeepsLocks DEF Refuse
  <2>6. CASE WriteBegin(t) BY <2>6, WriteBeginKeepsLocks
  <2>7. CASE WriteEnd(t)   BY <2>7, WriteEndKeepsLocks
  <2>8. CASE Release(t)    BY <2>8, ReleaseKeepsLocks
  <2>9. CASE Unreserve(t)  BY <2>9, UnreserveKeepsLocks
  <2>10. QED
    BY <1>3, <2>1, <2>2, <2>3, <2>4, <2>5, <2>6, <2>7, <2>8, <2>9 DEF Work
<1>4. ASSUME NEW t \in Threads, Raise(t) PROVE LockInv'
  <2>1. faults' \in Nat
    BY <1>4 DEF Raise, LockInv, TypeOK
  <2>2. QED
    BY <1>4, <2>1, StopKeepsLocks DEF Raise, Torn
<1>5. ASSUME NEW p \in Procs, Crash(p) PROVE LockInv'
  <2>1. faults' \in Nat
    BY <1>5 DEF Crash, LockInv, TypeOK
  <2>2. QED
    BY <1>5, <2>1, StopKeepsLocks DEF Crash
<1>6. QED
  BY <1>1, <1>2, <1>3, <1>4, <1>5 DEF Next

THEOREM LocksCorrect == Spec => []LockInv
<1>1. Init => LockInv
  BY InitLockInv
<1>2. LockInv /\ [Next]_vars => LockInv'
  BY NextKeepsLocks
<1>3. QED
  BY <1>1, <1>2, PTL DEF Spec

\* Every variable of the chain writers keeps its type, for any threads,
\* processes, calls and faults.
THEOREM TypeCorrect == Spec => []TypeOK
<1>1. LockInv => TypeOK
  BY DEF LockInv
<1>2. QED
  BY <1>1, LocksCorrect, PTL

-----------------------------------------------------------------------------
(* One writer per chain, and a fresh view of it.                           *)

\* What holds the flock keeps every other writer of the chain out.
LEMMA OneWriter ==
  ASSUME LockInv, NEW t \in Threads, NEW u \in Threads, InAppend(t),
         \/ InAppend(u) /\ Cur(u) = Cur(t)
         \/ InReservation(u) /\ Cur(t) = "audit"
  PROVE  t = u
<1>1. Cur(t) \in Chains
  BY CurIsChain DEF LockInv
<1>2. held[t][Cur(t)] > 0
  BY <1>1 DEF LockInv, HeldExactly
<1>3. held[u][Cur(t)] > 0
  BY <1>1 DEF LockInv, HeldExactly
<1>4. QED
  BY <1>1, <1>2, <1>3 DEF LockInv, FlockMatchesLedger

\* The state a writer read is the state it writes behind.
ReadFresh ==
  \A t \in Threads : phase[t] \in {"write", "flush"} =>
    /\ got[t].line = Len(log[Cur(t)]) + 1
    /\ got[t].prev = LastHash(log[Cur(t)])

ChainInv == LockInv /\ ReadFresh /\ Chained

LEMMA NextLineIsNext ==
  ASSUME TypeOK, Chained, NEW c \in Chains
  PROVE  NextLine(c) = Len(log[c]) + 1
<1>1. log[c] \in Seq(Entry)
  BY DEF TypeOK
<1>2. CASE log[c] = <<>>
  BY <1>2 DEF NextLine
<1>3. CASE log[c] # <<>>
  <2>1. Len(log[c]) \in 1..Len(log[c])
    BY <1>1, <1>3
  <2>2. log[c][Len(log[c])].line = Len(log[c])
    BY <2>1 DEF Chained
  <2>3. QED
    BY <1>3, <2>2 DEF NextLine
<1>4. QED
  BY <1>2, <1>3

\* A record that lands is linked to the head of its chain.
LEMMA RecordLandsLinked ==
  ASSUME ChainInv, NEW t \in Threads, phase[t] = "flush", NEW end,
         RecordLands(t, end)
  PROVE  Chained'
<1> DEFINE c == Cur(t)
           n == Len(log[c])
<1>1. c \in Chains
  BY CurIsChain DEF ChainInv, LockInv
<1>2. log[c] \in Seq(Entry) /\ n \in Nat
  BY <1>1 DEF ChainInv, LockInv, TypeOK
<1>3. /\ log'[c] = Append(log[c], Record(t))
      /\ \A d \in Chains : d # c => log'[d] = log[d]
  BY <1>1 DEF RecordLands, ChainInv, LockInv, TypeOK
<1>4. Record(t).line = n + 1 /\ Record(t).prev = LastHash(log[c])
  BY DEF ChainInv, ReadFresh, Record
<1>5. SUFFICES ASSUME NEW d \in Chains, NEW k \in 1..Len(log'[d])
               PROVE  /\ log'[d][k].line = k
                      /\ log'[d][k].prev = IF k = 1 THEN Genesis ELSE log'[d][k - 1].hash
  BY DEF Chained
<1>6. CASE d # c
  BY <1>3, <1>6 DEF ChainInv, Chained
<1>7. CASE d = c /\ k \in 1..n
  <2>1. log'[c][k] = log[c][k] /\ (k # 1 => log'[c][k - 1] = log[c][k - 1])
    BY <1>2, <1>3, <1>7
  <2>2. QED
    BY <1>1, <1>7, <2>1 DEF ChainInv, Chained
<1>8. CASE d = c /\ k = n + 1
  <2>1. log'[c][k] = Record(t) /\ (k # 1 => log'[c][k - 1] = log[c][n])
    BY <1>2, <1>3, <1>8
  <2>2. k = 1 <=> log[c] = <<>>
    BY <1>2, <1>8
  <2>3. LastHash(log[c]) = IF k = 1 THEN Genesis ELSE log[c][n].hash
    BY <2>2 DEF LastHash
  <2>4. QED
    BY <1>4, <1>8, <2>1, <2>3
<1>9. Len(log'[c]) = n + 1
  BY <1>2, <1>3
<1>10. QED
  BY <1>2, <1>5, <1>6, <1>7, <1>8, <1>9

\* A step writes at most one record, at the end of the work of its writer.
LEMMA LogStep ==
  ASSUME LockInv, [Next]_vars
  PROVE  \/ log' = log
         \/ \E t \in Threads, end \in {"whole", "bare"} :
              phase[t] = "flush" /\ RecordLands(t, end) /\ phase'[t] \notin {"write", "flush"}
<1>1. CASE UNCHANGED vars
  BY <1>1 DEF vars, fileVars
<1>2. ASSUME NEW t \in Threads, Call(t) PROVE log' = log
  BY <1>2 DEF Call, fileVars
<1>3. ASSUME NEW t \in Threads, Work(t)
      PROVE  \/ log' = log
             \/ phase[t] = "flush" /\ RecordLands(t, "whole") /\ phase'[t] \notin {"write", "flush"}
  <2>1. CASE WriteEnd(t)
    BY <2>1 DEF WriteEnd, LockInv, TypeOK
  <2>2. CASE ~WriteEnd(t)
    BY <1>3, <2>2 DEF Work, Reserve, Peek, Acquire, ReadState, Refuse, WriteBegin,
                      Release, Unreserve, fileVars
  <2>3. QED
    BY <2>1, <2>2
<1>4. ASSUME NEW t \in Threads, Raise(t)
      PROVE  \/ log' = log
             \/ phase[t] = "flush" /\ RecordLands(t, "bare") /\ phase'[t] \notin {"write", "flush"}
  <2>1. phase'[t] = "idle"
    BY <1>4 DEF Raise, Stop
  <2>2. QED
    BY <1>4, <2>1 DEF Raise, Torn, fileVars
<1>5. ASSUME NEW p \in Procs, Crash(p)
      PROVE  \/ log' = log
             \/ \E t \in Threads :
                  phase[t] = "flush" /\ RecordLands(t, "bare") /\ phase'[t] \notin {"write", "flush"}
  <2> DEFINE ts == {t \in Threads : ProcOf[t] = p}
  <2>1. \A t \in ts : phase'[t] = "idle"
    BY <1>5 DEF Crash, Stop
  <2>2. log' = log \/ \E t \in ts : phase[t] = "flush" /\ RecordLands(t, "bare")
    BY <1>5 DEF Crash, fileVars
  <2>3. QED
    BY <2>1, <2>2
<1>6. QED
  BY <1>1, <1>2, <1>3, <1>4, <1>5 DEF Next

\* A thread about to write has just read the chain, or was about to before.
LEMMA WriterStep ==
  ASSUME LockInv, [Next]_vars, NEW u \in Threads, phase'[u] \in {"write", "flush"}
  PROVE  \/ ReadState(u)
         \/ /\ phase[u] \in {"write", "flush"}
            /\ got'[u] = got[u] /\ Cur(u)' = Cur(u)
<1>1. CASE UNCHANGED vars
  BY <1>1 DEF vars, threadVars, Cur
<1>2. ASSUME NEW t \in Threads, Call(t)
      PROVE  phase[u] \in {"write", "flush"} /\ got'[u] = got[u] /\ Cur(u)' = Cur(u)
  <2>1. u # t
    BY <1>2 DEF Call, LockInv, TypeOK
  <2>2. QED
    BY <1>2, <2>1 DEF Call, LockInv, TypeOK, Cur
<1>3. ASSUME NEW t \in Threads, Work(t)
      PROVE  \/ ReadState(u)
             \/ phase[u] \in {"write", "flush"} /\ got'[u] = got[u] /\ Cur(u)' = Cur(u)
  <2>1. CASE Reserve(t)   BY <2>1 DEF Reserve, LockInv, TypeOK, Cur
  <2>2. CASE Peek(t)      BY <2>2 DEF Peek, LockInv, TypeOK, Cur
  <2>3. CASE Acquire(t)   BY <2>3 DEF Acquire, LockInv, TypeOK, Cur
  <2>4. CASE ReadState(t) BY <2>4 DEF ReadState, LockInv, TypeOK, Cur
  <2>5. CASE Refuse(t)    BY <2>5 DEF Refuse, Stop, LockInv, TypeOK, Cur
  <2>6. CASE WriteBegin(t) BY <2>6 DEF WriteBegin, LockInv, TypeOK, Cur
  <2>7. CASE WriteEnd(t)  BY <2>7 DEF WriteEnd, LockInv, TypeOK, Cur
  <2>8. CASE Release(t)
    <3>1. PICK ph \in {"acquire", "unreserve", "idle"} :
            /\ phase' = [phase EXCEPT ![t] = ph]
            /\ step' = step \/ step' = [step EXCEPT ![t] = @ + 1]
            /\ tool' = tool /\ got' = got
      BY <2>8 DEF Release
    <3>2. u # t
      BY <3>1 DEF LockInv, TypeOK
    <3>3. QED
      BY <3>1, <3>2 DEF LockInv, TypeOK, Cur
  <2>9. CASE Unreserve(t) BY <2>9 DEF Unreserve, LockInv, TypeOK, Cur
  <2>10. QED
    BY <1>3, <2>1, <2>2, <2>3, <2>4, <2>5, <2>6, <2>7, <2>8, <2>9 DEF Work
<1>4. ASSUME NEW ts, Stop(ts)
      PROVE  phase[u] \in {"write", "flush"} /\ got'[u] = got[u] /\ Cur(u)' = Cur(u)
  BY <1>4 DEF Stop, Cur
<1>5. QED
  BY <1>1, <1>2, <1>3, <1>4 DEF Next, Raise, Crash

LEMMA ReadFreshStep ==
  ASSUME ChainInv, [Next]_vars
  PROVE  ReadFresh'
<1> SUFFICES ASSUME NEW u \in Threads, phase'[u] \in {"write", "flush"}
             PROVE  /\ got'[u].line = Len(log'[Cur(u)']) + 1
                    /\ got'[u].prev = LastHash(log'[Cur(u)'])
  BY DEF ReadFresh
<1>1. CASE ReadState(u)
  <2>1. Cur(u) \in Chains /\ Cur(u)' = Cur(u) /\ log' = log
    BY <1>1, CurIsChain DEF ChainInv, LockInv, ReadState, Cur, fileVars
  <2>2. got'[u].line = NextLine(Cur(u)) /\ got'[u].prev = LastHash(log[Cur(u)])
    BY <1>1 DEF ReadState, ChainInv, LockInv, TypeOK
  <2>3. QED
    BY <2>1, <2>2, NextLineIsNext DEF ChainInv, LockInv
<1>2. CASE phase[u] \in {"write", "flush"} /\ got'[u] = got[u] /\ Cur(u)' = Cur(u)
  <2>1. Cur(u) \in Chains
    BY CurIsChain DEF ChainInv, LockInv
  <2>2. log'[Cur(u)] = log[Cur(u)]
    <3>1. CASE log' = log
      BY <3>1
    <3>2. ASSUME NEW t \in Threads, NEW end \in {"whole", "bare"}, phase[t] = "flush",
                 RecordLands(t, end), phase'[t] \notin {"write", "flush"}
          PROVE  log'[Cur(u)] = log[Cur(u)]
      <4>1. t # u
        BY <3>2
      <4>2. Cur(t) # Cur(u)
        BY <1>2, <3>2, <4>1, OneWriter DEF InAppend, ChainInv
      <4>3. QED
        BY <2>1, <3>2, <4>2 DEF RecordLands, ChainInv, LockInv, TypeOK
    <3>3. QED
      BY <3>1, <3>2, LogStep DEF ChainInv
  <2>3. QED
    BY <1>2, <2>2 DEF ChainInv, ReadFresh
<1>3. QED
  BY <1>1, <1>2, WriterStep DEF ChainInv

LEMMA ChainInvStep ==
  ASSUME ChainInv, [Next]_vars
  PROVE  ChainInv'
<1>1. LockInv'
  BY NextKeepsLocks DEF ChainInv
<1>2. ReadFresh'
  BY ReadFreshStep
<1>3. Chained'
  <2>1. CASE log' = log
    BY <2>1 DEF ChainInv, Chained
  <2>2. CASE log' # log
    BY <2>2, LogStep, RecordLandsLinked DEF ChainInv
  <2>3. QED
    BY <2>1, <2>2
<1>4. QED
  BY <1>1, <1>2, <1>3 DEF ChainInv

LEMMA InitChainInv == Init => ChainInv
<1> SUFFICES ASSUME Init PROVE ChainInv
  OBVIOUS
<1>1. LockInv
  BY InitLockInv
<1>2. ReadFresh
  BY DEF Init, ReadFresh
<1>3. Chained
  BY DEF Init, Chained
<1>4. QED
  BY <1>1, <1>2, <1>3 DEF ChainInv

THEOREM ChainInvHolds == Spec => []ChainInv
<1>1. Init => ChainInv
  BY InitChainInv
<1>2. ChainInv /\ [Next]_vars => ChainInv'
  BY ChainInvStep
<1>3. QED
  BY <1>1, <1>2, PTL DEF Spec

\* Chains stay linked and gapless whatever writers race, crash or fail: the
\* property a verifier of the case directory recomputes from the files.
THEOREM ChainsLinked == Spec => []Chained
<1>1. ChainInv => Chained
  BY DEF ChainInv
<1>2. QED
  BY <1>1, ChainInvHolds, PTL

-----------------------------------------------------------------------------
(* Refinement: locks and torn writes implement one-step linked appends.    *)

LEMMA StepRefines ==
  ASSUME ChainInv, [Next]_vars
  PROVE  [Abstract!Next]_log
<1>1. CASE log' = log
  BY <1>1
<1>2. ASSUME NEW t \in Threads, NEW end, phase[t] = "flush", RecordLands(t, end)
      PROVE  Abstract!Next
  <2> DEFINE c == Cur(t)
             n == Len(log[c])
  <2>1. c \in Chains
    BY CurIsChain DEF ChainInv, LockInv
  <2>2. log[c] \in Seq(Entry) /\ n \in Nat
    BY <2>1 DEF ChainInv, LockInv, TypeOK
  <2>3. /\ log'[c] = Append(log[c], Record(t))
        /\ log' = [log EXCEPT ![c] = Append(@, Record(t))]
    BY <1>2, <2>1 DEF RecordLands, ChainInv, LockInv, TypeOK
  <2>4. Len(log'[c]) = n + 1 /\ log'[c][n + 1] = Record(t)
    BY <2>2, <2>3
  <2>5. Record(t).line = n + 1 /\ Record(t).prev = LastHash(log[c])
    BY <1>2 DEF ChainInv, ReadFresh, Record
  <2>6. LastHash(log[c]) = Abstract!LastHash(log[c])
    BY DEF LastHash, Abstract!LastHash, Genesis, Abstract!Genesis
  <2>7. Abstract!Linked(Record(t), c)
    BY <2>5, <2>6 DEF Abstract!Linked
  <2>8. Abstract!Extend(c)
    BY <2>3, <2>4, <2>7 DEF Abstract!Extend
  <2>9. QED
    BY <2>1, <2>8 DEF Abstract!Next
<1>3. QED
  BY <1>1, <1>2, LogStep DEF ChainInv

\* The chain writers implement the abstract chains of HashChains.
THEOREM Refinement == Spec => RefinesHashChains
<1>1. Init => Abstract!Init
  BY DEF Init, Abstract!Init
<1>2. ChainInv /\ [Next]_vars => [Abstract!Next]_log
  BY StepRefines
<1>3. QED
  BY <1>1, <1>2, ChainInvHolds, PTL DEF Spec, RefinesHashChains, Abstract!Spec

-----------------------------------------------------------------------------
(* A reserved audit line is used by the call that reserved it.             *)

\* Past its reservation, a reserving call is before or behind its audit record.
Reserved(t) == tool[t] \in Reserving /\ phase[t] \notin {"idle", "reserve", "peek"}
AuditDone(t) == phase[t] = "unreserve" \/ (phase[t] = "release" /\ IsLast(t))

OwnLine(line, c) ==
  line \in 1..Len(log["audit"]) /\ log["audit"][line].call = c

ReservationInv ==
  \A t \in Threads : Reserved(t) =>
    IF AuditDone(t) THEN OwnLine(resv[t], call[t])
    ELSE resv[t] = Len(log["audit"]) + 1

AnswerInv == ChainInv /\ ReservationInv /\ AnswersRecorded

\* A reserving call writes its audit record last.
LEMMA ReservingWritesAuditLast ==
  ASSUME LockInv, NEW t \in Threads, tool[t] \in Reserving
  PROVE  Cur(t) = "audit" <=> IsLast(t)
<1>1. tool[t] \in DOMAIN Appends /\ step[t] \in 1..Len(Appends[tool[t]])
  BY DEF LockInv, TypeOK, StepOK
<1>2. QED
  BY <1>1, AppendsShape DEF Cur, IsLast

\* The audit chain grows only at its end.
LEMMA AuditGrows ==
  ASSUME LockInv, [Next]_vars, NEW line, NEW c, OwnLine(line, c)
  PROVE  OwnLine(line, c)'
<1>1. log["audit"] \in Seq(Entry)
  BY DEF LockInv, TypeOK, Chains
<1>2. CASE log' = log
  BY <1>2 DEF OwnLine
<1>3. ASSUME NEW t \in Threads, NEW end, RecordLands(t, end)
      PROVE  OwnLine(line, c)'
  <2>1. log'["audit"] = log["audit"] \/ log'["audit"] = Append(log["audit"], Record(t))
    BY <1>3 DEF RecordLands, LockInv, TypeOK, Chains
  <2>2. QED
    BY <1>1, <2>1 DEF OwnLine
<1>4. QED
  BY <1>2, <1>3, LogStep

\* While a thread holds its reservation, only it writes to the audit chain.
LEMMA ReservationHoldsAudit ==
  ASSUME LockInv, [Next]_vars, NEW u \in Threads, Reserved(u),
         phase[u] # "flush" \/ ~IsLast(u)
  PROVE  log'["audit"] = log["audit"]
<1>1. CASE log' = log
  BY <1>1
<1>2. ASSUME NEW t \in Threads, NEW end, phase[t] = "flush", RecordLands(t, end),
             Cur(t) = "audit"
      PROVE  FALSE
  <2>1. t = u
    BY <1>2, OneWriter DEF InAppend, InReservation, Reserved
  <2>2. QED
    BY <1>2, <2>1, ReservingWritesAuditLast DEF Reserved
<1>3. ASSUME NEW t \in Threads, NEW end, RecordLands(t, end), Cur(t) # "audit"
      PROVE  log'["audit"] = log["audit"]
  BY <1>3 DEF RecordLands, LockInv, TypeOK, Chains
<1>4. QED
  BY <1>1, <1>2, <1>3, LogStep

\* What a step does to a thread that is past its reservation afterwards.
LEMMA ReservedStep ==
  ASSUME LockInv, [Next]_vars, NEW u \in Threads, Reserved(u)'
  PROVE  \/ Peek(u)
         \/ Reserved(u) /\ WriteEnd(u)
         \/ /\ Reserved(u) /\ resv'[u] = resv[u] /\ call'[u] = call[u]
            /\ AuditDone(u)' <=> AuditDone(u)
            /\ (phase[u] = "flush" /\ IsLast(u)) => (phase'[u] = "flush" /\ IsLast(u)')
<1> DEFINE Same == /\ Reserved(u) /\ resv'[u] = resv[u] /\ call'[u] = call[u]
                   /\ AuditDone(u)' <=> AuditDone(u)
                   /\ (phase[u] = "flush" /\ IsLast(u)) => (phase'[u] = "flush" /\ IsLast(u)')
<1>1. ASSUME tool'[u] = tool[u], step'[u] = step[u], phase'[u] = phase[u],
             resv'[u] = resv[u], call'[u] = call[u]
      PROVE  Same
  BY <1>1 DEF Reserved, AuditDone, IsLast
<1>2. CASE UNCHANGED vars
  BY <1>1, <1>2 DEF vars, threadVars
<1>3. ASSUME NEW t \in Threads, Call(t) PROVE Same
  <2>1. CASE u = t
    BY <1>3, <2>1 DEF Call, Reserved, LockInv, TypeOK
  <2>2. CASE u # t
    BY <1>1, <1>3, <2>2 DEF Call, LockInv, TypeOK
  <2>3. QED
    BY <2>1, <2>2
<1>4. ASSUME NEW ts, Stop(ts) PROVE Same
  <2>1. CASE u \in ts
    BY <1>4, <2>1 DEF Stop, Reserved
  <2>2. CASE u \notin ts
    BY <1>1, <1>4, <2>2 DEF Stop
  <2>3. QED
    BY <2>1, <2>2
<1>5. ASSUME NEW t \in Threads, Work(t), t # u, ~Refuse(t) PROVE Same
  <2>1. /\ tool' = tool
        /\ step' = step \/ step' = [step EXCEPT ![t] = @ + 1]
        /\ \E ph \in Phases : phase' = [phase EXCEPT ![t] = ph]
        /\ resv' = resv \/ \E r \in Nat : resv' = [resv EXCEPT ![t] = r]
        /\ call' = call \/ call' = [call EXCEPT ![t] = 0]
    <3>1. NextLine("audit") \in Nat
      BY HeadTypes DEF LockInv, Chains
    <3>2. CASE Reserve(t) \/ Acquire(t) \/ ReadState(t) \/ WriteBegin(t) \/ WriteEnd(t)
      BY <3>2 DEF Reserve, Acquire, ReadState, WriteBegin, WriteEnd, Phases
    <3>3. CASE Peek(t)
      BY <3>1, <3>3 DEF Peek, Phases
    <3>4. CASE Release(t)
      BY <3>4 DEF Release, Phases
    <3>5. CASE Unreserve(t)
      BY <3>5 DEF Unreserve, Phases
    <3>6. QED
      BY <1>5, <3>2, <3>3, <3>4, <3>5 DEF Work
  <2>2. QED
    BY <1>1, <1>5, <2>1 DEF LockInv, TypeOK
<1>6. ASSUME Work(u), ~Refuse(u) PROVE Peek(u) \/ (Reserved(u) /\ WriteEnd(u)) \/ Same
  <2>1. CASE Reserve(u)    BY <2>1 DEF Reserve, Reserved, LockInv, TypeOK
  <2>2. CASE Acquire(u)
    BY <2>2 DEF Acquire, Reserved, AuditDone, LockInv, TypeOK
  <2>3. CASE ReadState(u)
    BY <2>3 DEF ReadState, Reserved, AuditDone, LockInv, TypeOK
  <2>4. CASE WriteBegin(u)
    BY <2>4 DEF WriteBegin, Reserved, AuditDone, IsLast, LockInv, TypeOK
  <2>5. CASE WriteEnd(u)
    BY <2>5 DEF WriteEnd, Reserved, LockInv, TypeOK
  <2>6. CASE Release(u)
    <3>1. CASE phase' = [phase EXCEPT ![u] = "acquire"] /\ ~IsLast(u) /\ call' = call
      BY <2>6, <3>1 DEF Release, Reserved, AuditDone, LockInv, TypeOK
    <3>2. CASE phase' = [phase EXCEPT ![u] = "unreserve"] /\ IsLast(u) /\ call' = call
      BY <2>6, <3>2 DEF Release, Reserved, AuditDone, LockInv, TypeOK
    <3>3. CASE phase' = [phase EXCEPT ![u] = "idle"]
      BY <3>3 DEF Reserved, LockInv, TypeOK
    <3>4. QED
      BY <2>6, <3>1, <3>2, <3>3 DEF Release
  <2>7. CASE Unreserve(u)  BY <2>7 DEF Unreserve, Reserved, LockInv, TypeOK
  <2>8. QED
    BY <1>6, <2>1, <2>2, <2>3, <2>4, <2>5, <2>6, <2>7 DEF Work
<1>7. QED
  BY <1>2, <1>3, <1>4, <1>5, <1>6 DEF Next, Raise, Crash, Refuse

LEMMA ReservationStep ==
  ASSUME AnswerInv, [Next]_vars
  PROVE  ReservationInv'
<1> SUFFICES ASSUME NEW u \in Threads, Reserved(u)'
             PROVE  IF AuditDone(u)' THEN OwnLine(resv[u], call[u])'
                    ELSE resv'[u] = Len(log'["audit"]) + 1
  BY DEF ReservationInv
<1>1. LockInv /\ "audit" \in Chains
  BY DEF AnswerInv, ChainInv, Chains
<1>2. CASE Peek(u)
  <2>1. resv'[u] = Len(log["audit"]) + 1 /\ log' = log
    BY <1>1, <1>2, NextLineIsNext DEF Peek, AnswerInv, ChainInv, LockInv, TypeOK, fileVars
  <2>2. ~AuditDone(u)'
    BY <1>1, <1>2 DEF Peek, AuditDone, LockInv, TypeOK
  <2>3. QED
    BY <2>1, <2>2
<1>3. CASE Reserved(u) /\ WriteEnd(u)
  <2>1. ~AuditDone(u) /\ resv[u] = Len(log["audit"]) + 1
    BY <1>3 DEF WriteEnd, AuditDone, AnswerInv, ReservationInv
  <2>2. /\ AuditDone(u)' <=> IsLast(u)
        /\ resv' = resv /\ call' = call
    BY <1>1, <1>3 DEF WriteEnd, AuditDone, IsLast, LockInv, TypeOK
  <2>3. Cur(u) = "audit" <=> IsLast(u)
    BY <1>1, <1>3, ReservingWritesAuditLast DEF Reserved
  <2>4. log["audit"] \in Seq(Entry)
    BY <1>1 DEF LockInv, TypeOK
  <2>5. log' = [log EXCEPT ![Cur(u)] = Append(@, Record(u))]
    BY <1>3 DEF WriteEnd, RecordLands
  <2>6. CASE IsLast(u)
    <3>1. log'["audit"] = Append(log["audit"], Record(u))
      BY <1>1, <2>3, <2>5, <2>6 DEF LockInv, TypeOK
    <3>2. Record(u).call = call[u]
      BY DEF Record
    <3>3. QED
      BY <2>1, <2>2, <2>4, <2>6, <3>1, <3>2 DEF OwnLine
  <2>7. CASE ~IsLast(u)
    BY <1>1, <2>1, <2>2, <2>3, <2>5, <2>7 DEF LockInv, TypeOK
  <2>8. QED
    BY <2>6, <2>7
<1>4. CASE /\ Reserved(u) /\ resv'[u] = resv[u] /\ call'[u] = call[u]
           /\ AuditDone(u)' <=> AuditDone(u)
           /\ (phase[u] = "flush" /\ IsLast(u)) => (phase'[u] = "flush" /\ IsLast(u)')
  <2>1. CASE AuditDone(u)
    <3>1. OwnLine(resv[u], call[u])
      BY <1>4, <2>1 DEF AnswerInv, ReservationInv
    <3>2. OwnLine(resv[u], call[u])'
      <4> DEFINE r == resv[u]
                 c == call[u]
      <4>1. log["audit"] \in Seq(Entry)
        BY <1>1 DEF LockInv, TypeOK
      <4>2. log'["audit"] = log["audit"]
        BY <1>1, <1>4, <2>1, ReservationHoldsAudit DEF AuditDone
      <4>3. QED
        BY <1>4, <3>1, <4>2 DEF OwnLine
    <3>3. QED
      BY <1>4, <2>1, <3>2
  <2>2. CASE ~AuditDone(u) /\ ~(phase[u] = "flush" /\ IsLast(u))
    <3>1. log'["audit"] = log["audit"]
      BY <1>1, <1>4, <2>2, ReservationHoldsAudit
    <3>2. QED
      BY <1>4, <2>2, <3>1 DEF AnswerInv, ReservationInv
  <2>3. CASE ~AuditDone(u) /\ phase[u] = "flush" /\ IsLast(u)
    <3>1. log'["audit"] = log["audit"]
      <4>1. phase'[u] = "flush"
        BY <1>4, <2>3
      <4>2. ASSUME NEW t \in Threads, NEW end, phase[t] = "flush", RecordLands(t, end),
                   phase'[t] \notin {"write", "flush"}
            PROVE  log'["audit"] = log["audit"]
        <5>1. t # u
          BY <4>1, <4>2
        <5>2. Cur(t) # "audit"
          BY <1>1, <1>4, <4>2, <5>1, OneWriter DEF InAppend, InReservation, Reserved
        <5>3. QED
          BY <1>1, <4>2, <5>2 DEF RecordLands, LockInv, TypeOK
      <4>3. QED
        BY <1>1, <4>2, LogStep
    <3>2. QED
      BY <1>4, <2>3, <3>1 DEF AnswerInv, ReservationInv
  <2>4. QED
    BY <2>1, <2>2, <2>3
<1>5. QED
  BY <1>1, <1>2, <1>3, <1>4, ReservedStep

LEMMA AnswerStep ==
  ASSUME AnswerInv, [Next]_vars
  PROVE  AnswersRecorded'
<1>1. LockInv
  BY DEF AnswerInv, ChainInv
<1>2. ASSUME NEW a \in answers, a.tool \in Reserving
      PROVE  OwnLine(a.line, a.call)'
  <2>1. OwnLine(a.line, a.call)
    BY <1>2 DEF AnswerInv, AnswersRecorded, OwnLine
  <2>2. QED
    BY <1>1, <2>1, AuditGrows
<1>3. CASE answers' = answers
  BY <1>2, <1>3 DEF AnswersRecorded, OwnLine
<1>4. ASSUME NEW t \in Threads, answers' = answers \cup {Answer(t)},
             Release(t) /\ tool[t] \notin Reserving
      PROVE  AnswersRecorded'
  BY <1>2, <1>4 DEF AnswersRecorded, OwnLine, Answer
<1>5. ASSUME NEW t \in Threads, Unreserve(t)
      PROVE  AnswersRecorded'
  <2>1. tool[t] \in Reserving
    BY <1>1, <1>5 DEF LockInv, PhaseOK, Unreserve
  <2>2. OwnLine(resv[t], call[t])
    BY <1>5, <2>1 DEF AnswerInv, ReservationInv, Reserved, AuditDone, Unreserve
  <2>3. log' = log /\ answers' = answers \cup {Answer(t)}
    BY <1>5 DEF Unreserve, fileVars
  <2>4. QED
    BY <1>2, <2>2, <2>3 DEF AnswersRecorded, OwnLine, Answer
<1>6. ASSUME answers' # answers
      PROVE  \/ \E t \in Threads : /\ answers' = answers \cup {Answer(t)}
                                  /\ Release(t) /\ tool[t] \notin Reserving
             \/ \E t \in Threads : Unreserve(t)
  BY <1>6 DEF Next, vars, Call, Work, Reserve, Peek, Acquire, ReadState, Refuse,
              WriteBegin, WriteEnd, Release, Raise, Crash
<1>7. QED
  BY <1>3, <1>4, <1>5, <1>6

\* The audit line a reserving call returns is, from then on, the line of its
\* own audit record: no sibling's record ever takes it.
THEOREM AnswersHold == Spec => []AnswersRecorded
<1>1. Init => AnswerInv
  BY InitChainInv DEF AnswerInv, ReservationInv, Reserved, AnswersRecorded, Init
<1>2. AnswerInv /\ [Next]_vars => AnswerInv'
  BY ChainInvStep, ReservationStep, AnswerStep DEF AnswerInv
<1>3. AnswerInv => AnswersRecorded
  BY DEF AnswerInv
<1>4. QED
  BY <1>1, <1>2, <1>3, PTL DEF Spec

-----------------------------------------------------------------------------
(* Damage is final: writers refuse a chain whose last line does not parse. *)

WriteBehindWhole == \A t \in Threads : phase[t] = "write" => Parses(Cur(t))

DamageInv == LockInv /\ WriteBehindWhole

\* A chain on which thread t alone works keeps its last line in a step of others.
LEMMA TailStep ==
  ASSUME LockInv, [Next]_vars, NEW c \in Chains, tail'[c] # tail[c]
  PROVE  \E t \in Threads : /\ Cur(t) = c
                            /\ \/ phase[t] = "flush" /\ phase'[t] \notin {"write", "flush"}
                               \/ WriteBegin(t)
<1>1. ASSUME NEW t \in Threads, NEW end, RecordLands(t, end), Cur(t) # c
      PROVE  FALSE
  BY <1>1 DEF RecordLands, LockInv, TypeOK
<1>2. ASSUME NEW t \in Threads, WriteBegin(t), Cur(t) # c
      PROVE  FALSE
  BY <1>2 DEF WriteBegin, LockInv, TypeOK
<1>3. CASE tail' = tail
  BY <1>3
<1>4. ASSUME NEW t \in Threads, WriteEnd(t)
      PROVE  phase[t] = "flush" /\ RecordLands(t, "whole") /\ phase'[t] \notin {"write", "flush"}
  BY <1>4 DEF WriteEnd, LockInv, TypeOK
<1>5. ASSUME NEW t \in Threads, Raise(t)
      PROVE  \/ tail' = tail
             \/ phase[t] = "flush" /\ RecordLands(t, "bare") /\ phase'[t] \notin {"write", "flush"}
  BY <1>5 DEF Raise, Torn, Stop, fileVars
<1>6. ASSUME NEW p \in Procs, Crash(p)
      PROVE  \/ tail' = tail
             \/ \E t \in Threads :
                  phase[t] = "flush" /\ RecordLands(t, "bare") /\ phase'[t] \notin {"write", "flush"}
  <2> DEFINE ts == {t \in Threads : ProcOf[t] = p}
  <2>1. \A t \in ts : phase'[t] = "idle"
    BY <1>6 DEF Crash, Stop
  <2>2. tail' = tail \/ \E t \in ts : phase[t] = "flush" /\ RecordLands(t, "bare")
    BY <1>6 DEF Crash, fileVars
  <2>3. QED
    BY <2>1, <2>2
<1>7. \/ tail' = tail
      \/ \E t \in Threads : WriteBegin(t) \/ WriteEnd(t) \/ Raise(t)
      \/ \E p \in Procs : Crash(p)
  BY DEF Next, vars, fileVars, Work, Call, Reserve, Peek, Acquire, ReadState, Refuse,
         Release, Unreserve
<1>8. QED
  BY <1>1, <1>2, <1>3, <1>4, <1>5, <1>6, <1>7

LEMMA DamageInvStep ==
  ASSUME DamageInv, [Next]_vars
  PROVE  DamageInv'
<1>1. LockInv /\ LockInv'
  BY NextKeepsLocks DEF DamageInv
<1>2. ASSUME NEW u \in Threads, phase'[u] = "write"
      PROVE  Parses(Cur(u))'
  <2>1. CASE ReadState(u)
    BY <2>1 DEF ReadState, Parses, Cur, fileVars
  <2>2. CASE ~ReadState(u)
    <3>1. phase[u] \in {"write", "flush"} /\ Cur(u)' = Cur(u) /\ Cur(u) \in Chains
      BY <1>1, <1>2, <2>2, WriterStep, CurIsChain DEF LockInv
    <3>2. phase[u] = "write" 
      <4>1. ASSUME phase[u] = "flush" PROVE phase'[u] # "write"
        <5>1. CASE UNCHANGED vars
          BY <4>1, <5>1 DEF vars, threadVars
        <5>2. ASSUME NEW t \in Threads, NEW ph, ph # "write",
                     phase' = [phase EXCEPT ![t] = ph]
              PROVE  phase'[u] # "write"
          BY <4>1, <5>2 DEF LockInv, TypeOK
        <5>3. ASSUME NEW ts, Stop(ts) PROVE phase'[u] # "write"
          BY <4>1, <5>3 DEF Stop
        <5>4. ASSUME NEW t \in Threads, ReadState(t) PROVE phase'[u] # "write"
          BY <1>1, <4>1, <5>4 DEF ReadState, LockInv, TypeOK
        <5>5. \/ UNCHANGED vars
              \/ \E t \in Threads : \E ph \in Phases \ {"write"} : phase' = [phase EXCEPT ![t] = ph]
              \/ \E ts \in SUBSET Threads : Stop(ts)
              \/ \E t \in Threads : ReadState(t)
          <6>1. ASSUME NEW t \in Threads, Call(t) \/ Work(t) \/ Raise(t)
                PROVE  \/ \E ph \in Phases \ {"write"} : phase' = [phase EXCEPT ![t] = ph]
                       \/ \E ts \in SUBSET Threads : Stop(ts)
                       \/ ReadState(t)
            BY <6>1 DEF Call, Work, Reserve, Peek, Acquire, Refuse, WriteBegin, WriteEnd,
                        Release, Unreserve, Raise, Phases
          <6>2. ASSUME NEW p \in Procs, Crash(p)
                PROVE  \E ts \in SUBSET Threads : Stop(ts)
            BY <6>2 DEF Crash
          <6>3. QED
            BY <6>1, <6>2 DEF Next
        <5>6. QED
          BY <5>1, <5>2, <5>3, <5>4, <5>5
      <4>2. QED
        BY <1>2, <3>1, <4>1
    <3>3. tail'[Cur(u)] = tail[Cur(u)]
      <4>1. ASSUME NEW t \in Threads, Cur(t) = Cur(u), phase[t] = "flush" PROVE FALSE
        BY <1>1, <3>2, <4>1, OneWriter DEF InAppend
      <4>2. ASSUME NEW t \in Threads, Cur(t) = Cur(u), WriteBegin(t) PROVE FALSE
        <5>1. t = u
          BY <1>1, <3>2, <4>2, OneWriter DEF InAppend, WriteBegin
        <5>2. QED
          BY <1>1, <1>2, <4>2, <5>1 DEF WriteBegin, LockInv, TypeOK
      <4>3. QED
        BY <1>1, <3>1, <4>1, <4>2, TailStep
    <3>4. QED
      BY <3>1, <3>2, <3>3 DEF DamageInv, WriteBehindWhole, Parses
  <2>3. QED
    BY <2>1, <2>2
<1>3. WriteBehindWhole'
  BY <1>2 DEF WriteBehindWhole
<1>4. QED
  BY <1>1, <1>3 DEF DamageInv

LEMMA DamageStays ==
  ASSUME DamageInv, [Next]_vars, NEW c \in Chains, Damaged(c)
  PROVE  Damaged(c)' /\ log'[c] = log[c]
<1>1. LockInv
  BY DEF DamageInv
<1>2. ASSUME NEW t \in Threads, WriteBegin(t), Cur(t) = c PROVE FALSE
  BY <1>2 DEF WriteBegin, DamageInv, WriteBehindWhole, Parses, Damaged
<1>3. tail'[c] = "cut"
  BY <1>1, <1>2, TailStep DEF Damaged
<1>4. log'[c] = log[c]
  <2>1. ASSUME NEW t \in Threads, NEW end, phase[t] = "flush", RecordLands(t, end)
        PROVE  log'[c] = log[c]
    BY <1>1, <2>1 DEF RecordLands, Damaged, LockInv, TypeOK
  <2>2. QED
    BY <1>1, <2>1, LogStep
<1>5. ASSUME NEW u \in Threads, phase'[u] = "flush" PROVE Cur(u)' # c
  <2>1. ~ReadState(u)
    BY <1>1, <1>5 DEF ReadState, LockInv, TypeOK
  <2>2. phase[u] \in {"write", "flush"} /\ Cur(u)' = Cur(u)
    BY <1>1, <1>5, <2>1, WriterStep
  <2>3. CASE phase[u] = "flush"
    BY <2>2, <2>3 DEF Damaged
  <2>4. CASE phase[u] = "write"
    BY <2>2, <2>4 DEF DamageInv, WriteBehindWhole, Parses, Damaged
  <2>5. QED
    BY <2>2, <2>3, <2>4
<1>6. QED
  BY <1>3, <1>4, <1>5 DEF Damaged

\* Writers fail closed: a chain whose last line is damaged never changes again.
THEOREM DamageIsFinal == Spec => NothingBehindDamage
<1>1. Init => DamageInv
  BY InitLockInv DEF DamageInv, WriteBehindWhole, Init
<1>2. DamageInv /\ [Next]_vars => DamageInv'
  BY DamageInvStep
<1>3. DamageInv /\ [Next]_vars
        => [\A c \in Chains : Damaged(c) => Damaged(c)' /\ log'[c] = log[c]]_vars
  BY DamageStays
<1>4. QED
  BY <1>1, <1>2, <1>3, PTL DEF Spec, NothingBehindDamage

-----------------------------------------------------------------------------
(* While nothing has failed, siblings do not disturb each other.           *)

\* A chain's last line is incomplete only while its writer is at work.
WholeFiles ==
  faults = 0 => \A c \in Chains :
    /\ lost[c] = 0 /\ tail[c] # "bare"
    /\ tail[c] = "cut" => \E t \in Threads : phase[t] = "flush" /\ Cur(t) = c

ResvHeld == \A t \in Threads : resv[t] # 0 => Reserved(t)

\* A record that names an audit line: the line is written, or its call is
\* about to write it.
Pending(t) == Reserved(t) /\ ~AuditDone(t)
Backed(r) ==
  \/ r.audit = 0
  \/ OwnLine(r.audit, r.call)
  \/ \E t \in Threads : Pending(t) /\ resv[t] = r.audit /\ call[t] = r.call

BackedRecords ==
  faults = 0 => \A c \in Chains \ {"audit"} : \A k \in 1..Len(log[c]) : Backed(log[c][k])

HealthInv == AnswerInv /\ WholeFiles /\ ResvHeld /\ BackedRecords

LEMMA WholeReads ==
  ASSUME LockInv, WholeFiles, faults = 0
  PROVE  LockedReadIsWhole
<1>1. ASSUME NEW u \in Threads, phase[u] = "peek" PROVE Parses("audit")
  <2>1. InReservation(u)
    BY <1>1 DEF LockInv, PhaseOK, InReservation
  <2>2. ASSUME NEW t \in Threads, phase[t] = "flush", Cur(t) = "audit" PROVE FALSE
    BY <1>1, <2>1, <2>2, OneWriter DEF InAppend
  <2> QED BY <2>2 DEF WholeFiles, Parses, Chains
<1>2. ASSUME NEW u \in Threads, phase[u] = "read" PROVE Parses(Cur(u))
  <2>1. Cur(u) \in Chains
    BY CurIsChain DEF LockInv
  <2>2. ASSUME NEW t \in Threads, phase[t] = "flush", Cur(t) = Cur(u) PROVE FALSE
    BY <1>2, <2>2, OneWriter DEF InAppend
  <2> QED BY <2>1, <2>2 DEF WholeFiles, Parses
<1> QED BY <1>1, <1>2 DEF LockedReadIsWhole

\* The steps of a thread that neither fails nor is refused.
Progress(t) ==
  \/ Call(t) \/ Reserve(t) \/ Peek(t) \/ Acquire(t) \/ ReadState(t)
  \/ WriteBegin(t) \/ WriteEnd(t) \/ Release(t) \/ Unreserve(t)

LEMMA HealthyStep ==
  ASSUME HealthInv, [Next]_vars, faults' = 0
  PROVE  faults = 0 /\ (UNCHANGED vars \/ \E t \in Threads : Progress(t))
<1>1. LockInv /\ faults \in Nat
  BY DEF HealthInv, AnswerInv, ChainInv, LockInv, TypeOK
<1>2. ASSUME NEW t \in Threads PROVE ~ Raise(t)
  BY <1>1 DEF Raise
<1>3. ASSUME NEW p \in Procs PROVE ~ Crash(p)
  BY <1>1 DEF Crash
<1>4. faults = 0
  <2>1. CASE UNCHANGED vars
    BY <2>1 DEF vars
  <2>2. CASE \E t \in Threads : Call(t)
    BY <2>2 DEF Call
  <2>3. CASE \E t \in Threads : Work(t)
    BY <2>3 DEF Work, Reserve, Peek, Acquire, ReadState, Refuse, WriteBegin, WriteEnd,
                Release, Unreserve
  <2> QED BY <1>2, <1>3, <2>1, <2>2, <2>3 DEF Next
<1>5. ASSUME NEW t \in Threads PROVE ~ Refuse(t)
  BY <1>1, <1>4, WholeReads DEF Refuse, LockedReadIsWhole, HealthInv
<1> QED BY <1>2, <1>3, <1>4, <1>5 DEF Next, Work, Progress

\* Whatever a thread does, the others stay where they are.
LEMMA ProgressIsLocal ==
  ASSUME LockInv, NEW t \in Threads, Progress(t), NEW u \in Threads, u # t
  PROVE  /\ phase'[u] = phase[u] /\ tool'[u] = tool[u] /\ step'[u] = step[u]
         /\ resv'[u] = resv[u] /\ call'[u] = call[u]
         /\ Cur(u)' = Cur(u) /\ Reserved(u)' = Reserved(u) /\ AuditDone(u)' = AuditDone(u)
<1>1. /\ phase'[u] = phase[u] /\ tool'[u] = tool[u] /\ step'[u] = step[u]
      /\ resv'[u] = resv[u] /\ call'[u] = call[u]
  <2>1. CASE Call(t)
    BY <2>1 DEF Call, LockInv, TypeOK
  <2>2. CASE Reserve(t) \/ Peek(t) \/ Acquire(t) \/ ReadState(t) \/ WriteBegin(t) \/ WriteEnd(t)
    BY <2>2 DEF Reserve, Peek, Acquire, ReadState, WriteBegin, WriteEnd, LockInv, TypeOK
  <2>3. CASE Release(t)
    BY <2>3 DEF Release, LockInv, TypeOK
  <2>4. CASE Unreserve(t)
    BY <2>4 DEF Unreserve, LockInv, TypeOK
  <2> QED BY <2>1, <2>2, <2>3, <2>4 DEF Progress
<1> QED BY <1>1 DEF Cur, Reserved, AuditDone, IsLast

LEMMA WholeFilesStep ==
  ASSUME HealthInv, [Next]_vars
  PROVE  WholeFiles'
<1> SUFFICES ASSUME faults' = 0, NEW c \in Chains
             PROVE  /\ lost'[c] = 0 /\ tail'[c] # "bare"
                    /\ tail'[c] = "cut" =>
                         \E u \in Threads : phase'[u] = "flush" /\ Cur(u)' = c
  BY DEF WholeFiles
<1>1. LockInv
  BY DEF HealthInv, AnswerInv, ChainInv
<1>2. /\ lost[c] = 0 /\ tail[c] # "bare"
      /\ tail[c] = "cut" => \E u \in Threads : phase[u] = "flush" /\ Cur(u) = c
  BY HealthyStep DEF HealthInv, WholeFiles
<1>3. CASE UNCHANGED vars
  BY <1>2, <1>3 DEF vars, fileVars, threadVars, Cur
<1>4. ASSUME NEW t \in Threads, Progress(t), phase[t] # "flush" \/ Cur(t) # c,
             tail'[c] = tail[c], lost'[c] = lost[c]
      PROVE  /\ lost'[c] = 0 /\ tail'[c] # "bare"
             /\ tail'[c] = "cut" =>
                  \E u \in Threads : phase'[u] = "flush" /\ Cur(u)' = c
  BY <1>1, <1>2, <1>4, ProgressIsLocal
<1>5. ASSUME NEW t \in Threads, WriteBegin(t), Cur(t) = c
      PROVE  /\ lost'[c] = 0 /\ tail'[c] # "bare"
             /\ phase'[t] = "flush" /\ Cur(t)' = c
  BY <1>1, <1>2, <1>5 DEF WriteBegin, LockInv, TypeOK, Cur
<1>6. ASSUME NEW t \in Threads, WriteEnd(t), Cur(t) = c
      PROVE  lost'[c] = 0 /\ tail'[c] = "whole"
  BY <1>1, <1>2, <1>6 DEF WriteEnd, RecordLands, LockInv, TypeOK
<1>7. ASSUME NEW t \in Threads, Progress(t), ~ (WriteBegin(t) /\ Cur(t) = c),
             ~ (WriteEnd(t) /\ Cur(t) = c)
      PROVE  /\ tail'[c] = tail[c] /\ lost'[c] = lost[c]
             /\ phase[t] # "flush" \/ Cur(t) # c
  <2>1. CASE WriteBegin(t)
    BY <1>1, <1>7, <2>1 DEF WriteBegin, LockInv, TypeOK
  <2>2. CASE WriteEnd(t)
    BY <1>1, <1>7, <2>2 DEF WriteEnd, RecordLands, LockInv, TypeOK
  <2> QED BY <1>7, <2>1, <2>2 DEF Progress, Call, Reserve, Peek, Acquire, ReadState,
                                  Release, Unreserve, fileVars
<1> QED BY <1>3, <1>4, <1>5, <1>6, <1>7, HealthyStep

LEMMA ResvHeldStep ==
  ASSUME HealthInv, [Next]_vars
  PROVE  ResvHeld'
<1> SUFFICES ASSUME NEW u \in Threads, resv'[u] # 0 PROVE Reserved(u)'
  BY DEF ResvHeld
<1>1. LockInv /\ (resv[u] # 0 => Reserved(u))
  BY DEF HealthInv, AnswerInv, ChainInv, ResvHeld
<1>2. CASE UNCHANGED vars
  BY <1>1, <1>2 DEF vars, threadVars, Reserved
<1>3. ASSUME NEW ts, Stop(ts) PROVE Reserved(u)'
  BY <1>1, <1>3 DEF Stop, Reserved
<1>4. ASSUME NEW t \in Threads, Progress(t), t # u PROVE Reserved(u)'
  BY <1>1, <1>4, ProgressIsLocal
<1>5. CASE Progress(u)
  <2>1. CASE Call(u)
    BY <1>1, <2>1 DEF Call, Reserved
  <2>2. CASE Reserve(u)
    BY <1>1, <2>2 DEF Reserve, Reserved
  <2>3. CASE Peek(u)
    BY <1>1, <2>3 DEF Peek, Reserved, LockInv, PhaseOK, TypeOK
  <2>4. CASE Acquire(u) \/ ReadState(u) \/ WriteBegin(u) \/ WriteEnd(u)
    BY <1>1, <2>4 DEF Acquire, ReadState, WriteBegin, WriteEnd, Reserved, LockInv, TypeOK
  <2>5. CASE Release(u)
    BY <1>1, <2>5 DEF Release, Reserved, LockInv, TypeOK
  <2>6. CASE Unreserve(u)
    BY <1>1, <2>6 DEF Unreserve, LockInv, TypeOK
  <2> QED BY <1>5, <2>1, <2>2, <2>3, <2>4, <2>5, <2>6 DEF Progress
<1> QED BY <1>2, <1>3, <1>4, <1>5 DEF Next, Work, Refuse, Raise, Crash, Progress

\* A call that is about to write its audit line goes on to, or writes it now.
LEMMA PendingStep ==
  ASSUME HealthInv, [Next]_vars, faults' = 0, NEW u \in Threads, Pending(u)
  PROVE  /\ resv'[u] = resv[u] /\ call'[u] = call[u]
         /\ Pending(u)' \/ OwnLine(resv[u], call[u])'
<1>1. LockInv
  BY DEF HealthInv, AnswerInv, ChainInv
<1>2. Cur(u) = "audit" <=> IsLast(u)
  BY <1>1, ReservingWritesAuditLast DEF Pending, Reserved
<1>3. CASE UNCHANGED vars
  BY <1>3 DEF vars, threadVars, Pending, Reserved, AuditDone, IsLast
<1>4. ASSUME NEW t \in Threads, Progress(t), t # u
      PROVE  Pending(u)' /\ resv'[u] = resv[u] /\ call'[u] = call[u]
  BY <1>1, <1>4, ProgressIsLocal DEF Pending
<1>5. CASE Progress(u)
  <2>1. CASE WriteEnd(u) /\ IsLast(u)
    <3>1. resv[u] = Len(log["audit"]) + 1
      BY DEF Pending, HealthInv, AnswerInv, ReservationInv
    <3>2. log["audit"] \in Seq(Entry)
      BY <1>1 DEF LockInv, TypeOK, Chains
    <3>3. log'["audit"] = Append(log["audit"], Record(u))
      BY <1>1, <1>2, <2>1 DEF WriteEnd, RecordLands, LockInv, TypeOK, Chains
    <3>4. Record(u).call = call[u] /\ resv' = resv /\ call' = call
      BY <2>1 DEF WriteEnd, Record
    <3>5. Len(log'["audit"]) = resv[u] /\ log'["audit"][resv[u]] = Record(u)
      BY <3>1, <3>2, <3>3
    <3>6. resv[u] \in 1..Len(log'["audit"])
      BY <3>1, <3>2, <3>5
    <3> QED BY <3>4, <3>5, <3>6 DEF OwnLine
  <2>2. CASE WriteEnd(u) /\ ~ IsLast(u)
    BY <1>1, <2>2 DEF WriteEnd, Pending, Reserved, AuditDone, IsLast, LockInv, TypeOK
  <2>3. CASE Acquire(u) \/ ReadState(u) \/ WriteBegin(u)
    BY <1>1, <2>3 DEF Acquire, ReadState, WriteBegin, Pending, Reserved, AuditDone, LockInv, TypeOK
  <2>4. CASE Release(u)
    <3>1. ~ IsLast(u)
      BY <2>4 DEF Pending, AuditDone, Release
    <3> QED BY <1>1, <2>4, <3>1 DEF Release, Pending, Reserved, AuditDone, LockInv, TypeOK
  <2>5. CASE Call(u) \/ Reserve(u) \/ Peek(u) \/ Unreserve(u)
    BY <2>5 DEF Call, Reserve, Peek, Unreserve, Pending, Reserved, AuditDone
  <2> QED BY <1>5, <2>1, <2>2, <2>3, <2>4, <2>5 DEF Progress
<1> QED BY <1>3, <1>4, <1>5, HealthyStep

LEMMA BackedStep ==
  ASSUME HealthInv, [Next]_vars, faults' = 0, NEW r, Backed(r)
  PROVE  Backed(r)'
<1>1. LockInv
  BY DEF HealthInv, AnswerInv, ChainInv
<1>2. CASE r.audit = 0
  BY <1>2 DEF Backed
<1>3. CASE OwnLine(r.audit, r.call)
  <2>1. OwnLine(r.audit, r.call)'
    BY <1>1, <1>3, AuditGrows DEF OwnLine
  <2> QED BY <2>1 DEF Backed
<1>4. ASSUME NEW t \in Threads, Pending(t), resv[t] = r.audit, call[t] = r.call
      PROVE  Backed(r)'
  BY <1>4, PendingStep DEF Backed, OwnLine
<1> QED BY <1>2, <1>3, <1>4 DEF Backed

LEMMA BackedRecordsStep ==
  ASSUME HealthInv, [Next]_vars
  PROVE  BackedRecords'
<1> SUFFICES ASSUME faults' = 0, NEW c \in Chains \ {"audit"}, NEW k \in 1..Len(log'[c]),
                    NEW r, r = log'[c][k]
             PROVE  Backed(r)'
  BY DEF BackedRecords, Backed, OwnLine
<1>1. LockInv /\ LockInv' /\ log[c] \in Seq(Entry)
  BY NextKeepsLocks DEF HealthInv, AnswerInv, ChainInv, LockInv, TypeOK
<1>2. ASSUME k \in 1..Len(log[c]), log'[c][k] = log[c][k] PROVE Backed(r)'
  <2>1. Backed(log[c][k])
    BY <1>2, HealthyStep DEF HealthInv, BackedRecords
  <2>2. Backed(r)
    BY <1>2, <2>1
  <2> QED BY <2>2, BackedStep
<1>3. CASE log' = log
  BY <1>2, <1>3
<1>4. ASSUME NEW t \in Threads, WriteEnd(t), Cur(t) = c, k = Len(log[c]) + 1
      PROVE  Backed(r)'
  <2>1. log'[c] = Append(log[c], Record(t)) /\ resv' = resv /\ call' = call
    BY <1>1, <1>4 DEF WriteEnd, RecordLands, LockInv, TypeOK
  <2>2. log'[c][k] = Record(t) /\ Record(t).audit = resv[t] /\ Record(t).call = call[t]
    BY <1>1, <1>4, <2>1 DEF Record
  <2>3. CASE resv[t] # 0
    <3>1. Reserved(t)
      BY <2>3 DEF HealthInv, ResvHeld
    <3>2. ~ IsLast(t)
      BY <1>1, <1>4, <3>1, ReservingWritesAuditLast DEF Reserved
    <3>3. Pending(t)'
      BY <1>1, <1>4, <3>1, <3>2 DEF WriteEnd, Pending, Reserved, AuditDone, IsLast, LockInv, TypeOK
    <3> QED BY <2>1, <2>2, <3>3 DEF Backed
  <2>4. CASE resv[t] = 0
    BY <2>2, <2>4 DEF Backed
  <2> QED BY <2>3, <2>4
<1>5. ASSUME NEW t \in Threads, WriteEnd(t) PROVE Backed(r)'
  <2>1. CASE Cur(t) = c
    <3>1. log'[c] = Append(log[c], Record(t))
      BY <1>1, <1>5, <2>1 DEF WriteEnd, RecordLands, LockInv, TypeOK
    <3>2. CASE k \in 1..Len(log[c])
      BY <1>1, <1>2, <3>1, <3>2
    <3> QED BY <1>1, <1>4, <1>5, <2>1, <3>1, <3>2
  <2>2. CASE Cur(t) # c
    BY <1>1, <1>2, <1>5, <2>2 DEF WriteEnd, RecordLands, LockInv, TypeOK
  <2> QED BY <2>1, <2>2
<1>6. ASSUME NEW t \in Threads, Progress(t), ~ WriteEnd(t) PROVE log' = log
  BY <1>6 DEF Progress, Call, Reserve, Peek, Acquire, ReadState, WriteBegin, Release,
              Unreserve, fileVars
<1> QED BY <1>3, <1>5, <1>6, HealthyStep DEF vars, fileVars

LEMMA HealthInvIsHealthy ==
  ASSUME HealthInv
  PROVE  HealthyAppends
<1> SUFFICES ASSUME faults = 0 PROVE LockedReadIsWhole /\ AuditLineIsOwn
  BY DEF HealthyAppends
<1>1. LockedReadIsWhole
  BY WholeReads DEF HealthInv, AnswerInv, ChainInv
<1>2. ASSUME NEW c \in Chains \ {"audit"}, NEW k \in 1..Len(log[c]),
             log[c][k].audit \in 1..Len(log["audit"])
      PROVE  log["audit"][log[c][k].audit].call = log[c][k].call
  <2>1. Backed(log[c][k])
    BY <1>2 DEF HealthInv, BackedRecords
  <2>2. log["audit"] \in Seq(Entry)
    BY DEF HealthInv, AnswerInv, ChainInv, LockInv, TypeOK, Chains
  <2>3. ASSUME NEW t \in Threads, Pending(t), resv[t] = log[c][k].audit PROVE FALSE
    <3>1. resv[t] = Len(log["audit"]) + 1
      BY <2>3 DEF Pending, HealthInv, AnswerInv, ReservationInv
    <3> QED BY <1>2, <2>2, <2>3, <3>1
  <2> QED BY <1>2, <2>1, <2>2, <2>3 DEF Backed, OwnLine
<1> QED BY <1>1, <1>2 DEF AuditLineIsOwn

\* As long as no write fails and no process dies, no writer meets a half-written
\* line of a sibling, and the audit line a record names is its own call's
\* (chain_write_lock, reserve_audit_line).
THEOREM HealthHolds == Spec => []HealthyAppends
<1>1. Init => HealthInv
  BY InitChainInv DEF HealthInv, AnswerInv, ReservationInv, Reserved, AnswersRecorded,
                      WholeFiles, ResvHeld, BackedRecords, Init
<1>2. HealthInv /\ [Next]_vars => HealthInv'
  BY ChainInvStep, ReservationStep, AnswerStep, WholeFilesStep, ResvHeldStep,
     BackedRecordsStep DEF HealthInv, AnswerInv
<1> QED BY <1>1, <1>2, HealthInvIsHealthy, PTL DEF Spec

-----------------------------------------------------------------------------
(* An answered call has made each of its appends once.                     *)

EntriesIn(records, x) == {k \in 1..Len(records) : records[k].call = x}

\* The appends to chain c among the first n of a call of kind k.
Due(k, n, c) == {i \in 1..n : Appends[k][i] = c}

\* How many of its appends the call of thread t has made.
Made(t) == IF phase[t] \in {"release", "unreserve"} THEN step[t] ELSE step[t] - 1

CallsApart ==
  /\ \A t \in Threads : call[t] \in 0..ncalls /\ (call[t] = 0 <=> phase[t] = "idle")
  /\ \A t, u \in Threads : call[t] = call[u] => t = u \/ call[t] = 0
  /\ \A a \in answers : a.call \in 1..ncalls /\ \A t \in Threads : call[t] # a.call
  /\ \A c \in Chains : \A k \in 1..Len(log[c]) : log[c][k].call <= ncalls

EachMade ==
  \A t \in Threads : call[t] # 0 => \A c \in Chains :
    Cardinality(EntriesIn(log[c], call[t])) = Cardinality(Due(tool[t], Made(t), c))

OnceInv == LockInv /\ CallsApart /\ EachMade /\ AnsweredOnce

LEMMA EntriesAppend ==
  ASSUME NEW s \in Seq(Entry), NEW r \in Entry, NEW x
  PROVE  /\ r.call # x => EntriesIn(Append(s, r), x) = EntriesIn(s, x)
         /\ r.call = x => Cardinality(EntriesIn(Append(s, r), x))
                            = Cardinality(EntriesIn(s, x)) + 1
         /\ Cardinality(EntriesIn(s, x)) \in Nat
<1> DEFINE n == Len(s)
<1>1. /\ n \in Nat /\ Len(Append(s, r)) = n + 1 /\ Append(s, r)[n + 1] = r
      /\ \A k \in 1..n : Append(s, r)[k] = s[k]
  OBVIOUS
<1>2. IsFiniteSet(EntriesIn(s, x))
  <2>1. IsFiniteSet(1..n)
    BY <1>1, FS_Interval
  <2>2. EntriesIn(s, x) \subseteq 1..n
    BY DEF EntriesIn
  <2> QED BY <2>1, <2>2, FS_Subset
<1>3. n + 1 \notin EntriesIn(s, x)
  BY <1>1 DEF EntriesIn
<1>4. 1..(n + 1) = (1..n) \cup {n + 1}
  BY <1>1
<1>5. EntriesIn(Append(s, r), x) = EntriesIn(s, x) \cup IF r.call = x THEN {n + 1} ELSE {}
  <2>1. \A k \in 1..(n + 1) : k \in 1..n \/ k = n + 1
    BY <1>1
  <2> QED BY <1>1, <1>4, <2>1 DEF EntriesIn
<1>6. r.call # x => EntriesIn(Append(s, r), x) = EntriesIn(s, x)
  BY <1>5
<1>7. r.call = x => EntriesIn(Append(s, r), x) = EntriesIn(s, x) \cup {n + 1}
  BY <1>5
<1>8. Cardinality(EntriesIn(s, x) \cup {n + 1}) = Cardinality(EntriesIn(s, x)) + 1
  BY <1>2, <1>3, FS_AddElement
<1> QED BY <1>2, <1>6, <1>7, <1>8, FS_CardinalityType

LEMMA DueStep ==
  ASSUME NEW k, NEW n \in Nat, NEW c
  PROVE  /\ Appends[k][n + 1] # c => Due(k, n + 1, c) = Due(k, n, c)
         /\ Appends[k][n + 1] = c => Cardinality(Due(k, n + 1, c)) = Cardinality(Due(k, n, c)) + 1
<1>1. 1..(n + 1) = (1..n) \cup {n + 1} /\ n + 1 \notin 1..n
  OBVIOUS
<1>2. IsFiniteSet(Due(k, n, c))
  <2>1. IsFiniteSet(1..n)
    BY FS_Interval
  <2>2. Due(k, n, c) \subseteq 1..n
    BY DEF Due
  <2> QED BY <2>1, <2>2, FS_Subset
<1>3. n + 1 \notin Due(k, n, c)
  BY <1>1 DEF Due
<1>4. Appends[k][n + 1] # c => Due(k, n + 1, c) = Due(k, n, c)
  BY <1>1 DEF Due
<1>5. Appends[k][n + 1] = c => Due(k, n + 1, c) = Due(k, n, c) \cup {n + 1}
  BY <1>1 DEF Due
<1>6. Cardinality(Due(k, n, c) \cup {n + 1}) = Cardinality(Due(k, n, c)) + 1
  BY <1>2, <1>3, FS_AddElement
<1> QED BY <1>4, <1>5, <1>6

\* A record lands by the write of a call that goes on, or by one that ends here.
LEMMA LandStep ==
  ASSUME LockInv, [Next]_vars
  PROVE  \/ log' = log
         \/ \E t \in Threads, end \in {"whole", "bare"} :
              phase[t] = "flush" /\ RecordLands(t, end) /\ (call'[t] = 0 \/ WriteEnd(t))
<1>1. CASE UNCHANGED vars
  BY <1>1 DEF vars, fileVars
<1>2. ASSUME NEW t \in Threads, Call(t) \/ Work(t), ~ WriteEnd(t) PROVE log' = log
  BY <1>2 DEF Call, Work, Reserve, Peek, Acquire, ReadState, Refuse, WriteBegin,
              Release, Unreserve, fileVars
<1>3. ASSUME NEW t \in Threads, WriteEnd(t)
      PROVE  phase[t] = "flush" /\ RecordLands(t, "whole")
  BY <1>3 DEF WriteEnd
<1>4. ASSUME NEW t \in Threads, Raise(t)
      PROVE  log' = log \/ (phase[t] = "flush" /\ RecordLands(t, "bare") /\ call'[t] = 0)
  BY <1>4 DEF Raise, Torn, Stop, fileVars
<1>5. ASSUME NEW p \in Procs, Crash(p)
      PROVE  \/ log' = log
             \/ \E t \in Threads : phase[t] = "flush" /\ RecordLands(t, "bare") /\ call'[t] = 0
  <2> DEFINE ts == {t \in Threads : ProcOf[t] = p}
  <2>1. \A t \in ts : call'[t] = 0
    BY <1>5 DEF Crash, Stop
  <2>2. log' = log \/ \E t \in ts : phase[t] = "flush" /\ RecordLands(t, "bare")
    BY <1>5 DEF Crash, fileVars
  <2> QED BY <2>1, <2>2
<1> QED BY <1>1, <1>2, <1>3, <1>4, <1>5 DEF Next

\* Of each call: it begins, goes on, or ends, with its last append or without.
LEMMA CallStep ==
  ASSUME LockInv, [Next]_vars, NEW u \in Threads
  PROVE  \/ Call(u)
         \/ /\ call'[u] = call[u] /\ tool'[u] = tool[u]
            /\ phase'[u] = "idle" <=> phase[u] = "idle"
            /\ Made(u)' = IF WriteEnd(u) THEN Made(u) + 1 ELSE Made(u)
         \/ call'[u] = 0 /\ phase'[u] = "idle"
<1> DEFINE Same == /\ call'[u] = call[u] /\ tool'[u] = tool[u]
                   /\ phase'[u] = "idle" <=> phase[u] = "idle"
                   /\ Made(u)' = IF WriteEnd(u) THEN Made(u) + 1 ELSE Made(u)
           Over == call'[u] = 0 /\ phase'[u] = "idle"
<1>1. ASSUME call'[u] = call[u], tool'[u] = tool[u], phase'[u] = phase[u], step'[u] = step[u]
      PROVE  Same
  <2>1. ~ WriteEnd(u)
    BY <1>1 DEF WriteEnd, LockInv, TypeOK
  <2> QED BY <1>1, <2>1 DEF Made
<1>2. CASE UNCHANGED vars
  BY <1>1, <1>2 DEF vars, threadVars
<1>3. ASSUME NEW ts, Stop(ts) PROVE Same \/ Over
  BY <1>1, <1>3 DEF Stop
<1>4. ASSUME NEW t \in Threads, Progress(t), t # u PROVE Same
  BY <1>1, <1>4, ProgressIsLocal
<1>5. CASE Progress(u) /\ ~ Call(u)
  <2>1. step[u] \in 1..3
    BY DEF LockInv, TypeOK
  <2>2. CASE Reserve(u) \/ Peek(u) \/ Acquire(u) \/ ReadState(u) \/ WriteBegin(u)
    BY <2>2 DEF Reserve, Peek, Acquire, ReadState, WriteBegin, WriteEnd, Made, LockInv, TypeOK
  <2>3. CASE WriteEnd(u)
    BY <2>1, <2>3 DEF WriteEnd, Made, LockInv, TypeOK
  <2>4. CASE Release(u)
    <3>1. CASE ~ IsLast(u)
      BY <2>1, <2>4, <3>1 DEF Release, WriteEnd, Made, LockInv, TypeOK
    <3>2. CASE IsLast(u)
      BY <2>1, <2>4, <3>2 DEF Release, WriteEnd, Made, LockInv, TypeOK
    <3> QED BY <3>1, <3>2
  <2>5. CASE Unreserve(u)
    BY <2>5 DEF Unreserve, LockInv, TypeOK
  <2> QED BY <1>5, <2>2, <2>3, <2>4, <2>5 DEF Progress
<1> QED BY <1>2, <1>3, <1>4, <1>5 DEF Next, Work, Refuse, Raise, Crash, Progress

LEMMA CallsApartStep ==
  ASSUME OnceInv, [Next]_vars
  PROVE  CallsApart'
<1>1. LockInv /\ LockInv' /\ CallsApart /\ ncalls \in Nat
  BY NextKeepsLocks DEF OnceInv, LockInv, TypeOK
<1>2. CASE UNCHANGED vars
  BY <1>1, <1>2 DEF vars, fileVars, threadVars, CallsApart
<1>3. ASSUME NEW t \in Threads, Call(t)
      PROVE  CallsApart'
  <2>1. /\ ncalls' = ncalls + 1 /\ call' = [call EXCEPT ![t] = ncalls + 1]
        /\ log' = log /\ answers' = answers /\ phase'[t] # "idle"
        /\ \A u \in Threads \ {t} : phase'[u] = phase[u]
    BY <1>1, <1>3 DEF Call, fileVars, LockInv, TypeOK
  <2>2. call'[t] = ncalls + 1 /\ \A u \in Threads \ {t} : call'[u] = call[u]
    BY <1>1, <2>1 DEF LockInv, TypeOK
  <2>3. \A u \in Threads : call'[u] \in 0..ncalls' /\ (call'[u] = 0 <=> phase'[u] = "idle")
    BY <1>1, <2>1, <2>2 DEF CallsApart
  <2>4. \A u, v \in Threads : call'[u] = call'[v] => u = v \/ call'[u] = 0
    BY <1>1, <2>2 DEF CallsApart
  <2>5. \A a \in answers : a.call \in 1..ncalls' /\ \A u \in Threads : call'[u] # a.call
    BY <1>1, <2>1, <2>2 DEF CallsApart
  <2>6. \A c \in Chains : \A k \in 1..Len(log[c]) : log[c][k].call <= ncalls'
    <3> SUFFICES ASSUME NEW c \in Chains, NEW k \in 1..Len(log[c])
                 PROVE  log[c][k].call <= ncalls'
      OBVIOUS
    <3>1. log[c] \in Seq(Entry)
      BY <1>1 DEF LockInv, TypeOK
    <3>2. log[c][k] \in Entry
      BY <3>1
    <3>3. log[c][k].call \in Nat
      BY <3>2 DEF Entry
    <3> QED BY <1>1, <2>1, <3>3 DEF CallsApart
  <2> QED BY <2>1, <2>3, <2>4, <2>5, <2>6 DEF CallsApart
<1>4. ASSUME ncalls' = ncalls, ~ \E t \in Threads : Call(t),
             \/ answers' = answers
             \/ \E t \in Threads : /\ answers' = answers \cup {Answer(t)}
                                   /\ phase[t] # "idle" /\ call'[t] = 0
      PROVE  CallsApart'
  <2>1. \A u \in Threads : \/ call'[u] = call[u] /\ (phase'[u] = "idle" <=> phase[u] = "idle")
                           \/ call'[u] = 0 /\ phase'[u] = "idle"
    BY <1>1, <1>4, CallStep
  <2>2. \A u \in Threads : call'[u] \in 0..ncalls' /\ (call'[u] = 0 <=> phase'[u] = "idle")
    BY <1>1, <1>4, <2>1 DEF CallsApart
  <2>3. \A u, v \in Threads : call'[u] = call'[v] => u = v \/ call'[u] = 0
    BY <1>1, <2>1 DEF CallsApart
  <2>4. \A a \in answers : a.call \in 1..ncalls /\ \A u \in Threads : call'[u] # a.call
    BY <1>1, <2>1 DEF CallsApart
  <2>5. ASSUME NEW t \in Threads, phase[t] # "idle", call'[t] = 0
        PROVE  call[t] \in 1..ncalls /\ \A u \in Threads : call'[u] # call[t]
    BY <1>1, <2>1, <2>5 DEF CallsApart
  <2>6. \A a \in answers' : a.call \in 1..ncalls /\ \A u \in Threads : call'[u] # a.call
    BY <1>4, <2>4, <2>5 DEF Answer
  <2>7. ASSUME NEW c \in Chains, NEW k \in 1..Len(log'[c]) PROVE log'[c][k].call <= ncalls
    <3>1. CASE log' = log
      BY <1>1, <3>1 DEF CallsApart
    <3>2. ASSUME NEW t \in Threads, NEW end, RecordLands(t, end)
          PROVE  log'[c][k].call <= ncalls
      <4>1. log[c] \in Seq(Entry) /\ Record(t).call = call[t] /\ call[t] <= ncalls
        BY <1>1 DEF LockInv, TypeOK, Record, CallsApart
      <4>2. log'[c] = log[c] \/ log'[c] = Append(log[c], Record(t))
        BY <1>1, <3>2 DEF RecordLands, LockInv, TypeOK
      <4>3. (k \in 1..Len(log[c]) /\ log'[c][k] = log[c][k]) \/ log'[c][k] = Record(t)
        BY <2>7, <4>1, <4>2
      <4> QED BY <1>1, <4>1, <4>3 DEF CallsApart
    <3> QED BY <1>1, <3>1, <3>2, LandStep
  <2> QED BY <1>4, <2>2, <2>3, <2>6, <2>7 DEF CallsApart
<1>5. ASSUME NEW t \in Threads, Work(t) \/ Raise(t), ~ Release(t), ~ Unreserve(t)
      PROVE  ncalls' = ncalls /\ answers' = answers
  BY <1>5 DEF Work, Reserve, Peek, Acquire, ReadState, Refuse, WriteBegin, WriteEnd, Raise
<1>6. ASSUME NEW t \in Threads, Release(t) \/ Unreserve(t)
      PROVE  /\ ncalls' = ncalls /\ phase[t] # "idle"
             /\ \/ answers' = answers
                \/ answers' = answers \cup {Answer(t)} /\ call'[t] = 0
  BY <1>1, <1>6 DEF Release, Unreserve, LockInv, TypeOK
<1>7. ASSUME NEW p \in Procs, Crash(p) PROVE ncalls' = ncalls /\ answers' = answers
  BY <1>7 DEF Crash
<1> QED BY <1>2, <1>3, <1>4, <1>5, <1>6, <1>7 DEF Next, Work

\* What lands is of the call that writes it.
LEMMA CountStep ==
  ASSUME OnceInv, [Next]_vars, NEW c \in Chains, NEW x, x # 0
  PROVE  \/ EntriesIn(log'[c], x) = EntriesIn(log[c], x)
         \/ \E t \in Threads :
              /\ call[t] = x /\ Cur(t) = c /\ (call'[t] = 0 \/ WriteEnd(t))
              /\ Cardinality(EntriesIn(log'[c], x)) = Cardinality(EntriesIn(log[c], x)) + 1
<1>1. LockInv /\ log[c] \in Seq(Entry)
  BY DEF OnceInv, LockInv, TypeOK
<1>2. ASSUME NEW t \in Threads, NEW end, RecordLands(t, end)
      PROVE  \/ EntriesIn(log'[c], x) = EntriesIn(log[c], x)
             \/ /\ call[t] = x /\ Cur(t) = c
                /\ Cardinality(EntriesIn(log'[c], x)) = Cardinality(EntriesIn(log[c], x)) + 1
  <2>1. Cur(t) # c => log'[c] = log[c]
    BY <1>1, <1>2 DEF RecordLands, LockInv, TypeOK
  <2>2. Cur(t) = c => log'[c] = Append(log[c], Record(t))
    BY <1>1, <1>2 DEF RecordLands, LockInv, TypeOK
  <2>3. Record(t) \in Entry /\ Record(t).call = call[t]
    BY <1>1 DEF Record, Entry, LockInv, TypeOK
  <2> QED BY <1>1, <2>1, <2>2, <2>3, EntriesAppend
<1> QED BY <1>1, <1>2, LandStep

LEMMA EachMadeStep ==
  ASSUME OnceInv, [Next]_vars
  PROVE  EachMade'
<1> SUFFICES ASSUME NEW u \in Threads, call'[u] # 0, NEW c \in Chains
             PROVE  Cardinality(EntriesIn(log'[c], call'[u]))
                      = Cardinality(Due(tool'[u], Made(u)', c))
  BY DEF EachMade
<1>1. /\ LockInv /\ CallsApart /\ log[c] \in Seq(Entry)
      /\ call[u] \in Nat /\ tool[u] \in DOMAIN Appends /\ ncalls \in Nat
  BY DEF OnceInv, LockInv, TypeOK
<1>2. CASE Call(u)
  <2>1. /\ call'[u] = ncalls + 1 /\ log' = log /\ step'[u] = 1
        /\ phase'[u] \in {"reserve", "acquire"}
    BY <1>1, <1>2 DEF Call, fileVars, LockInv, TypeOK
  <2>2. Made(u)' = 0
    BY <2>1 DEF Made
  <2>3. Due(tool'[u], 0, c) = {}
    BY DEF Due
  <2>4. EntriesIn(log[c], ncalls + 1) = {}
    BY <1>1 DEF EntriesIn, CallsApart
  <2> QED BY <2>1, <2>2, <2>3, <2>4
<1>3. ASSUME call'[u] = call[u], tool'[u] = tool[u],
             Made(u)' = IF WriteEnd(u) THEN Made(u) + 1 ELSE Made(u)
      PROVE  Cardinality(EntriesIn(log'[c], call'[u]))
               = Cardinality(Due(tool'[u], Made(u)', c))
  <2>1. Cardinality(EntriesIn(log[c], call[u])) = Cardinality(Due(tool[u], Made(u), c))
    BY <1>3 DEF OnceInv, EachMade
  <2>2. CASE ~ WriteEnd(u)
    <3>1. EntriesIn(log'[c], call[u]) = EntriesIn(log[c], call[u])
      <4>1. \A t \in Threads : call[t] = call[u] => t = u
        BY <1>1, <1>3 DEF CallsApart
      <4>2. \/ EntriesIn(log'[c], call[u]) = EntriesIn(log[c], call[u])
            \/ \E t \in Threads : call[t] = call[u] /\ (call'[t] = 0 \/ WriteEnd(t))
        BY <1>3, CountStep
      <4> QED BY <1>3, <2>2, <4>1, <4>2
    <3> QED BY <1>3, <2>1, <2>2, <3>1
  <2>3. CASE WriteEnd(u)
    <3>1. step[u] \in 1..3
      BY <1>1 DEF LockInv, TypeOK
    <3>2. Made(u) \in Nat /\ Appends[tool[u]][Made(u) + 1] = Cur(u)
      <4>1. Made(u) = step[u] - 1
        BY <2>3 DEF WriteEnd, Made
      <4>2. Made(u) \in Nat /\ Made(u) + 1 = step[u]
        BY <3>1, <4>1
      <4> QED BY <4>2 DEF Cur
    <3>3. /\ Cur(u) # c => log'[c] = log[c]
          /\ Cur(u) = c => log'[c] = Append(log[c], Record(u))
      BY <1>1, <2>3 DEF WriteEnd, RecordLands, LockInv, TypeOK
    <3>4. Record(u) \in Entry /\ Record(u).call = call[u]
      BY <1>1 DEF Record, Entry, LockInv, TypeOK
    <3>5. CASE Cur(u) = c
      <4>1. Cardinality(EntriesIn(log'[c], call[u])) = Cardinality(EntriesIn(log[c], call[u])) + 1
        BY <1>1, <3>3, <3>4, <3>5, EntriesAppend
      <4>2. Cardinality(Due(tool[u], Made(u) + 1, c)) = Cardinality(Due(tool[u], Made(u), c)) + 1
        BY <3>2, <3>5, DueStep
      <4> QED BY <1>3, <2>1, <2>3, <4>1, <4>2
    <3>6. CASE Cur(u) # c
      <4>1. Due(tool[u], Made(u) + 1, c) = Due(tool[u], Made(u), c)
        BY <3>2, <3>6, DueStep
      <4> QED BY <1>3, <2>1, <2>3, <3>3, <3>6, <4>1
    <3> QED BY <3>5, <3>6
  <2> QED BY <2>2, <2>3
<1> QED BY <1>1, <1>2, <1>3, CallStep

LEMMA AppendsDomain ==
  ASSUME NEW k \in DOMAIN Appends
  PROVE  DOMAIN Appends[k] = 1..Len(Appends[k])
<1>1. Appends[k] \in Seq(Chains)
  <2>1. k \in {"audited_call", "record_finding", "corrected_finding", "update_finding",
               "record_correlation", "fresh_extraction", "query_records", "iteration_entry"}
    BY DEF Appends
  <2>2. CASE k \in {"audited_call", "query_records", "iteration_entry"}
    BY <2>2 DEF Appends, Chains
  <2>3. CASE k \in {"record_finding", "update_finding"}
    BY <2>3 DEF Appends, Chains
  <2>4. CASE k = "corrected_finding"
    BY <2>4 DEF Appends, Chains
  <2>5. CASE k = "record_correlation"
    BY <2>5 DEF Appends, Chains
  <2>6. CASE k = "fresh_extraction"
    BY <2>6 DEF Appends, Chains
  <2> QED BY <2>1, <2>2, <2>3, <2>4, <2>5, <2>6
<1> QED BY <1>1

LEMMA AnsweredOnceStep ==
  ASSUME OnceInv, [Next]_vars
  PROVE  AnsweredOnce'
<1>1. LockInv /\ CallsApart
  BY DEF OnceInv
<1> DEFINE Full(a, c) == Cardinality(EntriesIn(log[c], a.call))
                          = Cardinality({i \in DOMAIN Appends[a.tool] : Appends[a.tool][i] = c})
<1>2. ASSUME NEW a \in answers, NEW c \in Chains
      PROVE  Cardinality(EntriesIn(log'[c], a.call))
               = Cardinality({i \in DOMAIN Appends[a.tool] : Appends[a.tool][i] = c})
  <2>1. Full(a, c)
    BY <1>2 DEF OnceInv, AnsweredOnce, EntriesIn
  <2>2. a.call # 0 /\ \A t \in Threads : call[t] # a.call
    BY <1>1, <1>2 DEF CallsApart
  <2>3. EntriesIn(log'[c], a.call) = EntriesIn(log[c], a.call)
    BY <2>2, CountStep
  <2> QED BY <2>1, <2>3
<1>3. ASSUME NEW t \in Threads, phase[t] \in {"release", "unreserve"}, IsLast(t),
             NEW c \in Chains
      PROVE  Full(Answer(t), c)
  <2>1. tool[t] \in DOMAIN Appends /\ call[t] # 0
    BY <1>1, <1>3 DEF LockInv, TypeOK, CallsApart
  <2>2. Made(t) = Len(Appends[tool[t]])
    BY <1>3 DEF Made, IsLast
  <2>3. Due(tool[t], Made(t), c) = {i \in DOMAIN Appends[tool[t]] : Appends[tool[t]][i] = c}
    BY <2>1, <2>2, AppendsDomain DEF Due
  <2> QED BY <2>1, <2>3 DEF OnceInv, EachMade, Answer
<1>4. CASE answers' = answers
  BY <1>2, <1>4 DEF AnsweredOnce, EntriesIn
<1>5. CASE answers' # answers
  <2>1. PICK t \in Threads : Release(t) \/ Unreserve(t)
    BY <1>5 DEF Next, vars, Call, Work, Reserve, Peek, Acquire, ReadState, Refuse,
                WriteBegin, WriteEnd, Raise, Crash
  <2>2. /\ answers' = answers \cup {Answer(t)} /\ log' = log
        /\ phase[t] \in {"release", "unreserve"} /\ IsLast(t)
    BY <1>1, <1>5, <2>1 DEF Release, Unreserve, fileVars, LockInv, PhaseOK
  <2>3. \A c \in Chains : Full(Answer(t), c)
    BY <1>3, <2>2
  <2>4. \A a \in answers', c \in Chains :
          Cardinality(EntriesIn(log'[c], a.call))
            = Cardinality({i \in DOMAIN Appends[a.tool] : Appends[a.tool][i] = c})
    BY <1>2, <2>2, <2>3
  <2> QED BY <2>4 DEF AnsweredOnce, EntriesIn
<1> QED BY <1>4, <1>5

\* A call that returned success has appended to each chain exactly the records
\* its kind of call makes, whatever raced with it or failed meanwhile.
THEOREM OnceHolds == Spec => []AnsweredOnce
<1>1. Init => OnceInv
  BY InitLockInv DEF OnceInv, CallsApart, EachMade, AnsweredOnce, Init
<1>2. OnceInv /\ [Next]_vars => OnceInv'
  BY NextKeepsLocks, CallsApartStep, EachMadeStep, AnsweredOnceStep DEF OnceInv
<1>3. OnceInv => AnsweredOnce
  BY DEF OnceInv
<1> QED BY <1>1, <1>2, <1>3, PTL DEF Spec
-----------------------------------------------------------------------------
(* Nobody waits for ever: the safety facts behind EveryCallReturns.        *)

\* The lock that thread t takes next, and what keeps it from taking it: flock
\* waits for the holder unless t's own ledger already counts the lock.
Wanted(t) == IF phase[t] = "reserve" THEN "audit" ELSE Cur(t)
Blocked(t) ==
  /\ phase[t] \in {"reserve", "acquire"}
  /\ held[t][Wanted(t)] = 0
  /\ lock[Wanted(t)] # NoOne

\* A blocked thread waits for a thread that runs, or for one that holds a
\* reservation and waits for an append that runs.  No thread waits for itself.
WaitsAreShort ==
  \A t \in Threads : Blocked(t) =>
    \E u \in Threads \ {t} :
      /\ lock[Wanted(t)] = u /\ phase[u] # "idle"
      /\ Blocked(u) => \E v \in Threads \ {t, u} :
           lock[Wanted(u)] = v /\ phase[v] # "idle" /\ ~Blocked(v)

\* While a call is under way, some call is not waiting for a lock.
SomeoneRuns ==
  (\E t \in Threads : phase[t] # "idle") =>
    \E t \in Threads : phase[t] # "idle" /\ ~Blocked(t)

\* Only a thread inside an append, or one that reserved the audit line, holds
\* a lock; the former waits for nothing.
LEMMA HolderIsBusy ==
  ASSUME LockInv, NEW t \in Threads, Blocked(t)
  PROVE  /\ Wanted(t) \in Chains
         /\ lock[Wanted(t)] \in Threads \ {t}
         /\ \/ InAppend(lock[Wanted(t)])
            \/ Wanted(t) = "audit" /\ InReservation(lock[Wanted(t)])
<1>1. Wanted(t) \in Chains
  BY CurIsChain DEF Wanted, Chains, LockInv
<1>2. lock[Wanted(t)] \in Threads
  BY <1>1 DEF LockInv, TypeOK, Blocked
<1>3. held[lock[Wanted(t)]][Wanted(t)] > 0
  BY <1>1, <1>2 DEF LockInv, FlockMatchesLedger
<1>4. held[t][Wanted(t)] = 0
  BY DEF Blocked
<1>5. lock[Wanted(t)] # t
  BY <1>3, <1>4
<1>6. ASSUME NEW u \in Threads, held[u][Wanted(t)] > 0
      PROVE  InAppend(u) \/ (Wanted(t) = "audit" /\ InReservation(u))
  BY <1>1, <1>6 DEF LockInv, HeldExactly
<1>7. QED
  BY <1>1, <1>2, <1>3, <1>5, <1>6

LEMMA AppendRuns ==
  ASSUME NEW t \in Threads, InAppend(t)
  PROVE  phase[t] # "idle" /\ ~Blocked(t)
BY DEF InAppend, Blocked

\* A thread that reserved the audit line never waits for the audit lock again.
LEMMA ReservationNests ==
  ASSUME LockInv, NEW u \in Threads, InReservation(u), Blocked(u)
  PROVE  Wanted(u) # "audit"
<1>1. held[u]["audit"] > 0
  BY DEF LockInv, HeldExactly, Chains, InAppend, Blocked
<1>2. QED
  BY <1>1 DEF Blocked

LEMMA WaitsStep == LockInv => WaitsAreShort /\ SomeoneRuns
<1> SUFFICES ASSUME LockInv PROVE WaitsAreShort /\ SomeoneRuns
  OBVIOUS
<1>1. WaitsAreShort
  <2> SUFFICES ASSUME NEW t \in Threads, Blocked(t)
      PROVE \E u \in Threads \ {t} :
              /\ lock[Wanted(t)] = u /\ phase[u] # "idle"
              /\ Blocked(u) => \E v \in Threads \ {t, u} :
                   lock[Wanted(u)] = v /\ phase[v] # "idle" /\ ~Blocked(v)
    BY DEF WaitsAreShort
  <2> DEFINE u == lock[Wanted(t)]
  <2>1. /\ u \in Threads \ {t}
        /\ InAppend(u) \/ InReservation(u)
    BY HolderIsBusy
  <2>2. phase[u] # "idle"
    BY <2>1 DEF InAppend, InReservation
  <2>3. ASSUME Blocked(u)
        PROVE  \E v \in Threads \ {t, u} :
                 lock[Wanted(u)] = v /\ phase[v] # "idle" /\ ~Blocked(v)
    <3> DEFINE v == lock[Wanted(u)]
    <3>1. InReservation(u)
      BY <2>1, <2>3, AppendRuns
    <3>2. v \in Threads \ {u} /\ InAppend(v)
      BY <2>1, <2>3, <3>1, HolderIsBusy, ReservationNests
    <3>3. phase[v] # "idle" /\ ~Blocked(v)
      BY <3>2, AppendRuns
    <3>4. QED
      BY <3>2, <3>3
  <2>4. QED
    BY <2>1, <2>2, <2>3
<1>2. SomeoneRuns
  BY <1>1 DEF WaitsAreShort, SomeoneRuns
<1>3. QED
  BY <1>1, <1>2

\* The nested locks never close a circle: whatever calls nest in whatever order
\* on any number of threads, a thread waits at most behind a reservation that
\* waits behind one append, and some call always runs (_chain_lock.py:61).
THEOREM NoDeadlock == Spec => [](WaitsAreShort /\ SomeoneRuns)
BY LocksCorrect, WaitsStep, PTL

\* What is left of the call of thread t, in steps at most.
StepsToEnd ==
  [idle |-> 0, reserve |-> 8, peek |-> 7, acquire |-> 6, read |-> 5, write |-> 4,
   flush |-> 3, release |-> 2, unreserve |-> 1]
StepsLeft(t) ==
  IF phase[t] = "idle" THEN 0
  ELSE StepsToEnd[phase[t]] + 5 * (Len(Appends[tool[t]]) - step[t])

CallsBounded == \A t \in Threads : StepsLeft(t) \in 0..16

\* A thread's own step, where it runs, brings its call closer to its end; only a
\* new call lengthens it, and a sibling's steps leave it as it is.
CallsShorten ==
  /\ \A t \in Threads :
       /\ Work(t) => StepsLeft(t)' < StepsLeft(t)
       /\ StepsLeft(t)' > StepsLeft(t) => Call(t)
  /\ \A t, u \in Threads :
       u # t /\ (Work(t) \/ Call(t)) => StepsLeft(u)' = StepsLeft(u)

LEMMA ReservingIsShort ==
  ASSUME NEW k \in DOMAIN Appends, k \in Reserving
  PROVE  Len(Appends[k]) \in 1..2
<1>1. CASE k = "update_finding"      BY <1>1 DEF Appends
<1>2. CASE k = "record_correlation"  BY <1>2 DEF Appends
<1>3. CASE k = "fresh_extraction"    BY <1>3 DEF Appends
<1>4. CASE k = "query_records"       BY <1>4 DEF Appends
<1>5. QED
  BY <1>1, <1>2, <1>3, <1>4 DEF Reserving

LEMMA StepsBounded == LockInv => CallsBounded
<1> SUFFICES ASSUME LockInv, NEW t \in Threads PROVE StepsLeft(t) \in 0..16
  BY DEF CallsBounded
<1>1. phase[t] \in Phases /\ tool[t] \in DOMAIN Appends /\ step[t] \in 1..Len(Appends[tool[t]])
  BY DEF LockInv, TypeOK, StepOK
<1>2. Len(Appends[tool[t]]) \in 1..3
  BY <1>1, AppendsShape
<1>3. phase[t] \in {"reserve", "peek", "unreserve"} => Len(Appends[tool[t]]) \in 1..2
  BY <1>1, ReservingIsShort DEF LockInv, PhaseOK
<1>4. ASSUME NEW n \in 1..3, NEW s \in 1..n
      PROVE  n - s \in 0..2 /\ (n \in 1..2 => n - s \in 0..1)
  BY <1>4
<1> DEFINE rest == Len(Appends[tool[t]]) - step[t]
<1>5. /\ rest \in 0..2
      /\ phase[t] \in {"reserve", "peek", "unreserve"} => rest \in 0..1
  BY <1>1, <1>2, <1>3, <1>4
<1>6. StepsLeft(t) = IF phase[t] = "idle" THEN 0 ELSE StepsToEnd[phase[t]] + 5 * rest
  BY DEF StepsLeft
<1> HIDE DEF rest
<1>7. CASE phase[t] \in {"reserve", "peek", "unreserve"}
  <2>1. StepsToEnd[phase[t]] \in 1..8
    BY <1>7 DEF StepsToEnd
  <2>2. QED
    BY <1>5, <1>6, <1>7, <2>1
<1>8. CASE phase[t] \in {"acquire", "read", "write", "flush", "release"}
  <2>1. StepsToEnd[phase[t]] \in 1..6
    BY <1>8 DEF StepsToEnd
  <2>2. QED
    BY <1>5, <1>6, <1>8, <2>1
<1>9. QED
  BY <1>1, <1>6, <1>7, <1>8 DEF Phases

\* What a step of thread t does to where it is in its call.
LEMMA WorkMoves ==
  ASSUME LockInv, NEW t \in Threads, Work(t)
  PROVE  /\ \A u \in Threads \ {t} :
              phase'[u] = phase[u] /\ tool'[u] = tool[u] /\ step'[u] = step[u]
         /\ phase[t] # "idle"
         /\ tool'[t] = tool[t]
         /\ \/ phase'[t] = "idle"
            \/ step'[t] = step[t] /\ StepsToEnd[phase'[t]] < StepsToEnd[phase[t]]
            \/ phase[t] = "release" /\ phase'[t] = "acquire" /\ step'[t] = step[t] + 1
<1> DEFINE Others == \A u \in Threads \ {t} :
             phase'[u] = phase[u] /\ tool'[u] = tool[u] /\ step'[u] = step[u]
           Moves == \/ phase'[t] = "idle"
                    \/ step'[t] = step[t] /\ StepsToEnd[phase'[t]] < StepsToEnd[phase[t]]
                    \/ phase[t] = "release" /\ phase'[t] = "acquire"
                       /\ step'[t] = step[t] + 1
<1>a. /\ phase \in [Threads -> Phases] /\ tool \in [Threads -> DOMAIN Appends]
      /\ step \in [Threads -> 1..3]
  BY DEF LockInv, TypeOK
<1>1. CASE Reserve(t)
  BY <1>a, <1>1 DEF Reserve, StepsToEnd
<1>2. CASE Peek(t)
  BY <1>a, <1>2 DEF Peek, StepsToEnd
<1>3. CASE Acquire(t)
  BY <1>a, <1>3 DEF Acquire, StepsToEnd
<1>4. CASE ReadState(t)
  BY <1>a, <1>4 DEF ReadState, StepsToEnd
<1>5. CASE Refuse(t)
  BY <1>a, <1>5 DEF Refuse, Stop
<1>6. CASE WriteBegin(t)
  BY <1>a, <1>6 DEF WriteBegin, StepsToEnd
<1>7. CASE WriteEnd(t)
  BY <1>a, <1>7 DEF WriteEnd, StepsToEnd
<1>8. CASE Release(t)
  <2>1. phase[t] = "release" /\ tool' = tool
    BY <1>8 DEF Release
  <2>2. CASE /\ step' = [step EXCEPT ![t] = @ + 1]
             /\ phase' = [phase EXCEPT ![t] = "acquire"]
    BY <1>a, <2>1, <2>2
  <2>3. CASE phase' = [phase EXCEPT ![t] = "unreserve"] /\ step' = step
    BY <1>a, <2>1, <2>3 DEF StepsToEnd
  <2>4. CASE phase' = [phase EXCEPT ![t] = "idle"] /\ step' = step
    BY <1>a, <2>1, <2>4
  <2>5. QED
    BY <1>8, <2>2, <2>3, <2>4 DEF Release
<1>9. CASE Unreserve(t)
  BY <1>a, <1>9 DEF Unreserve
<1>10. QED
  BY <1>1, <1>2, <1>3, <1>4, <1>5, <1>6, <1>7, <1>8, <1>9 DEF Work

LEMMA WorkShortens ==
  ASSUME LockInv, LockInv', NEW t \in Threads, Work(t)
  PROVE  /\ StepsLeft(t)' < StepsLeft(t)
         /\ \A u \in Threads \ {t} : StepsLeft(u)' = StepsLeft(u)
<1> DEFINE n == Len(Appends[tool[t]])
<1>1. phase[t] \in Phases \ {"idle"} /\ n \in Nat /\ step[t] \in 1..n
  <2>1. tool[t] \in DOMAIN Appends /\ step[t] \in 1..n /\ phase[t] \in Phases
    BY DEF LockInv, TypeOK, StepOK
  <2>2. n \in 1..3
    BY <2>1, AppendsShape
  <2>3. phase[t] # "idle"
    BY WorkMoves
  <2>4. QED
    BY <2>1, <2>2, <2>3
<1>2. StepsToEnd[phase[t]] \in 1..8
  BY <1>1 DEF StepsToEnd, Phases
<1> DEFINE rest == n - step[t]
           here == StepsToEnd[phase[t]]
<1>3. /\ StepsLeft(t) = here + 5 * rest
      /\ rest \in Nat /\ here \in 1..8
  BY <1>1, <1>2 DEF StepsLeft
<1>4. \A u \in Threads \ {t} : StepsLeft(u)' = StepsLeft(u)
  BY WorkMoves DEF StepsLeft
<1>5. CASE phase'[t] = "idle"
  <2>1. StepsLeft(t)' = 0
    BY <1>5 DEF StepsLeft
  <2> HIDE DEF rest, here
  <2>2. QED
    BY <1>3, <1>4, <2>1
<1>6. CASE phase'[t] # "idle" /\ step'[t] = step[t]
           /\ StepsToEnd[phase'[t]] < StepsToEnd[phase[t]]
  <2> DEFINE there == StepsToEnd[phase'[t]]
  <2>1. phase'[t] \in Phases \ {"idle"}
    BY <1>6 DEF LockInv, TypeOK
  <2>2. there \in 1..8 /\ there < here
    BY <1>6, <2>1 DEF StepsToEnd, Phases
  <2>3. StepsLeft(t)' = there + 5 * rest
    BY <1>6, WorkMoves DEF StepsLeft
  <2> HIDE DEF rest, here, there
  <2>4. QED
    BY <1>3, <1>4, <2>2, <2>3
<1>7. CASE phase[t] = "release" /\ phase'[t] = "acquire" /\ step'[t] = step[t] + 1
  <2>1. here = 2
    BY <1>7 DEF StepsToEnd
  <2>2. n - (step[t] + 1) = rest - 1
    BY <1>1
  <2>3. StepsLeft(t)' = 6 + 5 * (n - (step[t] + 1))
    BY <1>7, WorkMoves DEF StepsLeft, StepsToEnd
  <2>4. StepsLeft(t)' = 6 + 5 * (rest - 1)
    BY <2>2, <2>3
  <2> HIDE DEF rest, here
  <2>5. QED
    BY <1>3, <1>4, <2>1, <2>4
<1>8. QED
  BY <1>5, <1>6, <1>7, WorkMoves

\* What is stopped has nothing left; what is not keeps its place in its call.
LEMMA StopShortens ==
  ASSUME LockInv, NEW ts, Stop(ts), NEW t \in Threads
  PROVE  StepsLeft(t)' <= StepsLeft(t)
<1>1. StepsLeft(t) \in 0..16
  BY StepsBounded DEF CallsBounded
<1>2. CASE t \in ts
  BY <1>1, <1>2 DEF Stop, StepsLeft
<1>3. CASE t \notin ts
  <2>1. StepsLeft(t)' = StepsLeft(t)
    BY <1>3 DEF Stop, StepsLeft
  <2>2. QED
    BY <1>1, <2>1
<1>4. QED
  BY <1>2, <1>3

LEMMA CallsShortenStep ==
  ASSUME LockInv, LockInv', Next
  PROVE  CallsShorten
<1>1. ASSUME NEW t \in Threads, Call(t)
      PROVE  \A u \in Threads \ {t} : StepsLeft(u)' = StepsLeft(u)
  <2>1. \A u \in Threads \ {t} :
          phase'[u] = phase[u] /\ tool'[u] = tool[u] /\ step'[u] = step[u]
    BY <1>1 DEF Call, LockInv, TypeOK
  <2>2. QED
    BY <2>1 DEF StepsLeft
<1>2. ASSUME NEW t \in Threads, StepsLeft(t)' > StepsLeft(t) PROVE Call(t)
  <2>1. StepsLeft(t) \in 0..16 /\ StepsLeft(t)' \in 0..16
    <3>1. CallsBounded /\ CallsBounded'
      BY StepsBounded, PTL
    <3>2. QED
      BY <3>1 DEF CallsBounded
  <2>2. ASSUME NEW u \in Threads, Call(u) PROVE Call(t)
    BY <1>1, <1>2, <2>1, <2>2
  <2>3. ASSUME NEW u \in Threads, Work(u) PROVE FALSE
    BY <1>2, <2>1, <2>3, WorkShortens
  <2>4. ASSUME NEW ts, Stop(ts) PROVE FALSE
    BY <1>2, <2>1, <2>4, StopShortens
  <2>5. ASSUME NEW u \in Threads, Raise(u) PROVE FALSE
    BY <2>4, <2>5 DEF Raise
  <2>6. ASSUME NEW p \in Procs, Crash(p) PROVE FALSE
    BY <2>4, <2>6 DEF Crash
  <2>7. QED
    BY <2>2, <2>3, <2>5, <2>6 DEF Next
<1>3. QED
  BY <1>1, <1>2, WorkShortens DEF CallsShorten

\* A call is at most sixteen steps of its thread long, and each step the thread
\* takes brings it closer to its return, whatever siblings append meanwhile. By
\* NoDeadlock some call can always take such a step, so only finitely many steps
\* pass before all calls have returned, unless new ones are made.
THEOREM CallsFinite ==
  Spec => []CallsBounded /\ [][CallsShorten]_vars
<1>1. LockInv /\ LockInv' /\ [Next]_vars => [CallsShorten]_vars
  BY CallsShortenStep
<1> QED BY <1>1, StepsBounded, LocksCorrect, PTL DEF Spec
=============================================================================
