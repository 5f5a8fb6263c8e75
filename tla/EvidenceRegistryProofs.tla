----------------------- MODULE EvidenceRegistryProofs -----------------------
(***************************************************************************)
(* For any number of analysts, files, runs, calls, changes and crashes:    *)
(* until somebody else changes a mode, CASE.yaml never names a writable    *)
(* file.  The chmod comes before the write, but that is not enough: what a *)
(* call writes was loaded long before, siblings may have emptied or cut    *)
(* CASE.yaml since, and the call carries its own copy.  The inductive      *)
(* invariant says of every copy what the property says of CASE.yaml, and   *)
(* of a call past its chmod that its own file is read-only.                *)
(*                                                                         *)
(* The second half follows what the run has registered through its         *)
(* rewrites to the re-hash.  The run works on a copy too, but as long as   *)
(* every file is listed no analyst gets past the comparison, so that       *)
(* nobody else writes: Book is CASE.yaml, or the copy the run is writing   *)
(* while the file is empty, and it only grows.                             *)
(*                                                                         *)
(* The last section proves the types, which stand on their own.            *)
(***************************************************************************)
EXTENDS EvidenceRegistry, SequenceTheorems, TLAPS

Entry == [file : Files \cup {NoFile}, id : Nat, digest : Nat]

\* The part of the types the argument needs.
Types ==
  /\ bytes \in [Files -> Nat] /\ readonly \in [Files -> BOOLEAN]
  /\ doc \in Seq(Entry) /\ seen \in [Workers -> Seq(Entry)]
  /\ phase \in [Workers -> {"idle", "load", "compare", "hash", "chmod", "open", "write"}]
  /\ file \in [Workers -> Files] /\ sha \in [Workers -> Nat]
  /\ ids \in Nat /\ changes \in Nat /\ unlocks \in Nat /\ todo \subseteq Files

\* Every entry that has a path has one whose mode is 0o444.
Sealed(entries, modes) ==
  \A k \in DOMAIN entries : entries[k].file # NoFile => modes[entries[k].file]

SealInv ==
  /\ Sealed(doc, readonly)
  /\ \A w \in Workers : Sealed(seen[w], readonly)
  /\ \A w \in Workers : phase[w] \in {"open", "write"} => readonly[file[w]]

ModeInv == Types /\ (unlocks = 0 => SealInv)

-----------------------------------------------------------------------------
(* About sealed sequences of entries. *)

LEMMA SealedAppend ==
  ASSUME NEW s \in Seq(Entry), NEW e \in Entry, NEW modes \in [Files -> BOOLEAN],
         Sealed(s, modes), e.file # NoFile => modes[e.file]
  PROVE  Append(s, e) \in Seq(Entry) /\ Sealed(Append(s, e), modes)
  BY DEF Sealed

LEMMA SealedPrefix ==
  ASSUME NEW s \in Seq(Entry), NEW modes \in [Files -> BOOLEAN], NEW k \in 0..(Len(s) - 1)
  PROVE  /\ SubSeq(s, 1, k) \in Seq(Entry) /\ Len(SubSeq(s, 1, k)) = k
         /\ Sealed(s, modes) => Sealed(SubSeq(s, 1, k), modes)
  BY DEF Sealed

\* A file that becomes read-only breaks no seal.
LEMMA SealedMore ==
  ASSUME NEW s \in Seq(Entry), NEW modes \in [Files -> BOOLEAN], Sealed(s, modes),
         NEW f \in Files
  PROVE  Sealed(s, [modes EXCEPT ![f] = TRUE])
  BY DEF Sealed, Entry

\* Whatever a write cut short leaves is sealed if the whole was to be.
LEMMA SealedCut ==
  ASSUME NEW s \in Seq(Entry), NEW modes \in [Files -> BOOLEAN], NEW t \in CutShort(s)
  PROVE  t \in Seq(Entry) /\ (Sealed(s, modes) => Sealed(t, modes))
<1>1. PICK p \in Starts(s) :
        t \in {p} \cup {Append(p, c) : c \in CutEntries(s[Len(p) + 1])}
  BY DEF CutShort
<1>2. PICK k \in 0..(Len(s) - 1) : p = SubSeq(s, 1, k)
  BY <1>1 DEF Starts
<1>3. p \in Seq(Entry) /\ Len(p) = k /\ (Sealed(s, modes) => Sealed(p, modes))
  BY <1>2, SealedPrefix
<1>4. CASE t = p
  BY <1>3, <1>4
<1>5. ASSUME NEW c \in CutEntries(s[Len(p) + 1]), t = Append(p, c)
      PROVE  t \in Seq(Entry) /\ (Sealed(s, modes) => Sealed(t, modes))
  <2>1. Len(p) + 1 \in DOMAIN s /\ s[Len(p) + 1] \in Entry
    BY <1>2, <1>3
  <2>2. c \in Entry
    BY <2>1 DEF CutEntries, Entry, Cut
  <2>3. Sealed(s, modes) => (c.file # NoFile => modes[c.file])
    BY <2>1 DEF CutEntries, Sealed
  <2>4. Append(p, c) \in Seq(Entry)
    BY <1>3, <2>2
  <2> QED BY <1>3, <1>5, <2>2, <2>3, <2>4, SealedAppend
<1> QED BY <1>1, <1>4, <1>5

\* What a call past its chmod is about to write is sealed.
LEMMA SealedRewrite ==
  ASSUME Types, SealInv, NEW w \in Workers, phase[w] = "write"
  PROVE  Sealed(Rewritten(w), readonly)
<1>1. NewEntry(w) \in Entry /\ readonly[NewEntry(w).file]
  BY DEF SealInv, Types, NewEntry, Entry
<1>2. seen[w] \in Seq(Entry) /\ Sealed(seen[w], readonly)
  BY DEF SealInv, Types
<1> QED BY <1>1, <1>2, SealedAppend DEF Rewritten, Types

LEMMA RewriteTyped ==
  ASSUME Types, NEW w \in Workers
  PROVE  Rewritten(w) \in Seq(Entry)
<1>1. NewEntry(w) \in Entry
  BY DEF Types, NewEntry, Entry
<1>2. seen[w] \in Seq(Entry)
  BY DEF Types
<1> QED BY <1>1, <1>2 DEF Rewritten

-----------------------------------------------------------------------------
LEMMA ModesAtStart == Init => ModeInv
<1> SUFFICES ASSUME Init PROVE ModeInv
  OBVIOUS
<1>1. \A s : s = <<>> => s \in Seq(Entry) /\ Sealed(s, readonly)
  BY DEF Sealed
<1>2. doc = <<>> /\ \A w \in Workers : seen[w] = <<>>
  BY DEF Init
<1>3. seen \in [Workers -> Seq(Entry)] /\ doc \in Seq(Entry)
  BY <1>1 DEF Init
<1>4. Types
  BY <1>3 DEF Init, Types
<1> QED BY <1>1, <1>2, <1>4 DEF ModeInv, SealInv, Init

\* A step that leaves the modes, CASE.yaml and the copies alone and sends no
\* call past its chmod.
LEMMA QuietStep ==
  ASSUME ModeInv, Types',
         readonly' = readonly, doc' = doc, seen' = seen, unlocks' = unlocks,
         \A w \in Workers : phase'[w] \in {"open", "write"} =>
           phase[w] \in {"open", "write"} /\ file'[w] = file[w]
  PROVE  ModeInv'
  BY DEF ModeInv, SealInv

LEMMA ModesStay ==
  ASSUME ModeInv, [Next]_vars
  PROVE  ModeInv'
<1> USE DEF disk, yaml, rehash, course, request, outside
<1>0. Types
  BY DEF ModeInv
<1>1. ASSUME NEW w \in Workers, Load(w) PROVE ModeInv'
  <2>1. seen' \in [Workers -> Seq(Entry)]
        /\ \A v \in Workers : seen'[v] = seen[v] \/ seen'[v] = doc
    BY <1>0, <1>1 DEF Load, Types
  <2>2. phase' \in [Workers -> {"idle", "load", "compare", "hash", "chmod", "open", "write"}]
        /\ \A v \in Workers : phase'[v] \in {"open", "write"} => phase'[v] = phase[v]
    BY <1>0, <1>1 DEF Load, Types, Raise, RaiseYaml, Goto
  <2>3. Types'
    BY <1>0, <1>1, <2>1, <2>2 DEF Load, Types
  <2> QED BY <1>1, <2>1, <2>2, <2>3 DEF Load, ModeInv, SealInv
<1>2. ASSUME NEW w \in Workers, Compare(w) PROVE ModeInv'
  <2>1. phase' \in [Workers -> {"idle", "load", "compare", "hash", "chmod", "open", "write"}]
        /\ \A v \in Workers : phase'[v] \in {"open", "write"} => phase'[v] = phase[v]
    BY <1>0, <1>2 DEF Compare, Types, Return, Reject, Raise, Goto
  <2>2. Types'
    BY <1>0, <1>2, <2>1 DEF Compare, Types
  <2> QED BY <1>2, <2>1, <2>2, QuietStep DEF Compare
<1>3. ASSUME NEW w \in Workers, Hash(w) PROVE ModeInv'
  <2>1. phase' \in [Workers -> {"idle", "load", "compare", "hash", "chmod", "open", "write"}]
        /\ \A v \in Workers : phase'[v] \in {"open", "write"} => phase'[v] = phase[v]
    BY <1>0, <1>3 DEF Hash, Types, Raise, Goto
  <2>2. sha' \in [Workers -> Nat]
    BY <1>0, <1>3 DEF Hash, Types
  <2>3. Types'
    BY <1>0, <1>3, <2>1, <2>2 DEF Hash, Types
  <2> QED BY <1>3, <2>1, <2>3, QuietStep DEF Hash
<1>4. ASSUME NEW w \in Workers, Chmod(w) PROVE ModeInv'
  <2>1. CASE bytes[file[w]] = Gone
    <3>1. phase' \in [Workers -> {"idle", "load", "compare", "hash", "chmod", "open", "write"}]
          /\ \A v \in Workers : phase'[v] \in {"open", "write"} => phase'[v] = phase[v]
      BY <1>0, <1>4, <2>1 DEF Chmod, Types, Raise, Goto
    <3>2. readonly' = readonly
      BY <1>4, <2>1 DEF Chmod
    <3>3. Types'
      BY <1>0, <1>4, <3>1, <3>2 DEF Chmod, Types
    <3> QED BY <1>4, <3>1, <3>2, <3>3, QuietStep DEF Chmod
  <2>2. CASE bytes[file[w]] # Gone
    <3>1. /\ readonly' = [readonly EXCEPT ![file[w]] = TRUE]
          /\ phase' = [phase EXCEPT ![w] = "open"]
          /\ file' = file /\ seen' = seen /\ doc' = doc
      BY <1>4, <2>2 DEF Chmod, Goto
    <3>2. file[w] \in Files
      BY <1>0 DEF Types
    <3>3. Types'
      BY <1>0, <1>4, <3>1, <3>2 DEF Chmod, Types
    <3>4. SealInv => Sealed(doc, readonly')
      BY <1>0, <3>1, <3>2, SealedMore DEF SealInv, Types
    <3>5. SealInv => \A v \in Workers : Sealed(seen[v], readonly')
      BY <1>0, <3>1, <3>2, SealedMore DEF SealInv, Types
    <3>6. SealInv => \A v \in Workers : phase'[v] \in {"open", "write"} => readonly'[file[v]]
      BY <1>0, <3>1, <3>2 DEF SealInv, Types
    <3>7. unlocks' = unlocks
      BY <1>4 DEF Chmod
    <3> QED BY <3>1, <3>3, <3>4, <3>5, <3>6, <3>7 DEF ModeInv, SealInv
  <2> QED BY <2>1, <2>2
<1>5. ASSUME NEW w \in Workers, Open(w) PROVE ModeInv'
  <2>1. /\ doc' = <<>> /\ phase' = [phase EXCEPT ![w] = "write"] /\ phase[w] = "open"
        /\ file' = file /\ seen' = seen /\ readonly' = readonly /\ unlocks' = unlocks
    BY <1>5 DEF Open, Goto
  <2>2. doc' \in Seq(Entry) /\ Sealed(doc', readonly)
    BY <2>1 DEF Sealed
  <2>3. Types'
    BY <1>0, <1>5, <2>1, <2>2 DEF Open, Types
  <2>4. \A v \in Workers : phase'[v] \in {"open", "write"} => phase[v] \in {"open", "write"}
    BY <1>0, <2>1 DEF Types
  <2> QED BY <2>1, <2>2, <2>3, <2>4 DEF ModeInv, SealInv
<1>6. ASSUME NEW w \in Workers, Write(w) PROVE ModeInv'
  <2>1. /\ doc' = Rewritten(w) /\ phase[w] = "write" /\ ids' = ids + 1
        /\ phase' = [phase EXCEPT ![w] = "idle"]
        /\ file' = file /\ seen' = seen /\ readonly' = readonly /\ unlocks' = unlocks
    BY <1>6 DEF Write, Return, Goto
  <2>2. doc' \in Seq(Entry) /\ (SealInv => Sealed(doc', readonly))
    BY <1>0, <2>1, SealedRewrite, RewriteTyped
  <2>3. Types'
    BY <1>0, <1>6, <2>1, <2>2 DEF Write, Types
  <2>4. \A v \in Workers : phase'[v] \in {"open", "write"} => phase[v] \in {"open", "write"}
    BY <1>0, <2>1 DEF Types
  <2> QED BY <2>1, <2>2, <2>3, <2>4 DEF ModeInv, SealInv
<1>7. ASSUME NEW w \in Workers, Die(w) PROVE ModeInv'
  <2>1. /\ phase' = [phase EXCEPT ![w] = "idle"]
        /\ file' = file /\ seen' = seen /\ readonly' = readonly /\ unlocks' = unlocks
    BY <1>7 DEF Die, Goto
  <2>2. doc' \in Seq(Entry) /\ (SealInv => Sealed(doc', readonly))
    <3>1. CASE doc' = doc
      BY <1>0, <3>1 DEF SealInv, Types
    <3>2. CASE phase[w] = "write" /\ doc' \in CutShort(Rewritten(w))
      <4>1. Rewritten(w) \in Seq(Entry) /\ (SealInv => Sealed(Rewritten(w), readonly))
        BY <1>0, <3>2, SealedRewrite, RewriteTyped
      <4> QED BY <1>0, <3>2, <4>1, SealedCut DEF Types
    <3> QED BY <1>7, <3>1, <3>2 DEF Die
  <2>3. Types'
    BY <1>0, <1>7, <2>1, <2>2 DEF Die, Types
  <2>4. \A v \in Workers : phase'[v] \in {"open", "write"} => phase[v] \in {"open", "write"}
    BY <1>0, <2>1 DEF Types
  <2> QED BY <2>1, <2>2, <2>3, <2>4 DEF ModeInv, SealInv
<1>8. ASSUME NEW w \in Workers, NEW f \in Files, Begin(w, f), UNCHANGED changes,
             todo' \subseteq Files
      PROVE ModeInv'
  <2>1. phase' = [phase EXCEPT ![w] = "load"] /\ file' = [file EXCEPT ![w] = f]
        /\ phase[w] = "idle"
    BY <1>8 DEF Begin, Goto
  <2>2. Types'
    BY <1>0, <1>8, <2>1 DEF Begin, Types
  <2>3. \A v \in Workers : phase'[v] \in {"open", "write"} =>
          phase[v] \in {"open", "write"} /\ file'[v] = file[v]
    BY <1>0, <2>1 DEF Types
  <2> QED BY <1>8, <2>2, <2>3, QuietStep DEF Begin
<1>9. CASE RegisterNext
  <2>1. PICK f \in todo : Begin(Cli, f) /\ todo' = todo \ {f}
    BY <1>9 DEF RegisterNext
  <2> QED BY <1>0, <1>8, <2>1 DEF Types, Begin, Workers
<1>10. ASSUME NEW a \in Analysts, AnalystCalls(a) PROVE ModeInv'
  <2>1. PICK f \in Files : Begin(a, f) /\ todo' = todo
    BY <1>10 DEF AnalystCalls
  <2> QED BY <1>0, <1>8, <2>1 DEF Types, Begin, Workers
<1>11. CASE StartRun \/ StartAnalysis \/ StartVerify \/ VerifyNext \/ EndRun
  <2>1. /\ readonly' = readonly /\ bytes' = bytes /\ doc' = doc /\ seen' = seen /\ sha' = sha
        /\ phase' = phase /\ file' = file /\ ids' = ids /\ changes' = changes
        /\ unlocks' = unlocks
    BY <1>11 DEF StartRun, StartAnalysis, StartVerify, VerifyNext, EndRun
  <2>2. todo' \subseteq Files
    BY <1>0, <1>11, ScanAssumption
       DEF StartRun, StartAnalysis, StartVerify, VerifyNext, EndRun, Types
  <2>3. Types'
    BY <1>0, <2>1, <2>2 DEF Types
  <2> QED BY <2>1, <2>3, QuietStep
<1>12. ASSUME NEW f \in Files, Change(f) \/ Remove(f) PROVE ModeInv'
  <2>1. /\ readonly' = readonly /\ doc' = doc /\ seen' = seen /\ sha' = sha
        /\ phase' = phase /\ file' = file /\ ids' = ids /\ todo' = todo /\ unlocks' = unlocks
    BY <1>12 DEF Change, Remove, course
  <2>2. bytes' \in [Files -> Nat] /\ changes' \in Nat
    <3>1. CASE Change(f)
      BY <1>0, <3>1 DEF Change, Types
    <3>2. CASE Remove(f)
      BY <1>0, <3>2 DEF Remove, Types, Gone
    <3> QED BY <1>12, <3>1, <3>2
  <2>3. Types'
    BY <1>0, <2>1, <2>2 DEF Types
  <2> QED BY <2>1, <2>3, QuietStep
<1>13. ASSUME NEW f \in Files, Unlock(f) PROVE ModeInv'
  <2>1. unlocks' = unlocks + 1 /\ readonly' = [readonly EXCEPT ![f] = FALSE]
    BY <1>13 DEF Unlock
  <2>2. Types'
    BY <1>0, <1>13, <2>1 DEF Unlock, Types
  <2> QED BY <1>0, <2>1, <2>2 DEF ModeInv, Types
<1>14. CASE UNCHANGED vars
  <2>1. /\ readonly' = readonly /\ bytes' = bytes /\ doc' = doc /\ seen' = seen /\ sha' = sha
        /\ phase' = phase /\ file' = file /\ ids' = ids /\ changes' = changes
        /\ unlocks' = unlocks /\ todo' = todo
    BY <1>14 DEF vars
  <2>2. Types'
    BY <1>0, <2>1 DEF Types
  <2> QED BY <2>1, <2>2, QuietStep
<1> HIDE DEF disk, yaml, rehash, course, request, outside
<1> QED
  BY <1>1, <1>2, <1>3, <1>4, <1>5, <1>6, <1>7, <1>9, <1>10, <1>11, <1>12, <1>13, <1>14
     DEF Next, Register

\* Until somebody else changes a mode, CASE.yaml names no writable file: whatever
\* register_evidence calls overlap, load stale copies, overwrite each other or
\* die half-way through a rewrite.
THEOREM ListedStaysReadonly == Spec => []ListedIsReadonly
<1>1. ModeInv => ListedIsReadonly
  BY DEF ModeInv, SealInv, Sealed, ListedIsReadonly
<1>2. ModeInv /\ [Next]_vars => ModeInv'
  BY ModesStay
<1> QED BY <1>1, <1>2, ModesAtStart, PTL DEF Spec

-----------------------------------------------------------------------------
(* What the run registers stays registered, and a change of it is told.    *)

\* CASE.yaml as the run sees it: while the run rewrites it, what it is about
\* to write again.
Book == IF phase[Cli] = "write" THEN seen[Cli] ELSE doc
Listed(f) == \E k \in DOMAIN Book : Book[k].file = f

\* Every file in the folder is one the scan recognises, and Steady.
Whole == Scanned = Files /\ Steady
Undisturbed == Alone \/ Whole

\* The run's course, and the types the argument needs beyond Types.
Course ==
  /\ stage # "register" => phase[Cli] = "idle"
  /\ stage \in {"analyze", "verify"} => todo = {}
  /\ calls = 0 => \A a \in Analysts : phase[a] = "idle"
  /\ queue \in Seq(Entry) /\ promised \subseteq Entry
  /\ calls \in Nat /\ crashes \in Nat /\ removals \in Nat

\* Nobody but the run gets as far as to rewrite CASE.yaml.
Bystanders == \A a \in Analysts : phase[a] \in {"idle", "load", "compare"}

Copied ==
  /\ phase[Cli] \in {"compare", "hash", "chmod", "open"} => seen[Cli] = doc
  /\ phase[Cli] = "write" => doc = <<>>

Booked == \A r \in promised : \E k \in DOMAIN Book : Book[k] = r

\* No digest on record is one a file is still to get.
Dated(s) == \A k \in DOMAIN s : s[k].digest <= changes + 1

Past ==
  /\ \A f \in Files : bytes[f] <= changes + 1
  /\ sha[Cli] <= changes + 1 /\ Dated(Book) /\ Dated(queue)

\* A suspect is told of, or is still in the queue of the re-hash.
Told ==
  /\ stage = "verify" =>
       suspects = {} \/ failed \/ \E k \in DOMAIN queue : Mismatch(queue[k])
  /\ verdict = "trusted" => suspects = {}

Quiet == Bystanders /\ Copied /\ Booked /\ Past /\ Told

Present == parses /\ \A f \in Files : bytes[f] # Gone

Once ==
  /\ \A j, k \in DOMAIN Book : Book[j].file = Book[k].file => j = k
  /\ \A k \in DOMAIN Book : Book[k].id # Cut /\ Book[k].file # NoFile

\* The run adds entries only of files that have none.
New == phase[Cli] \in {"hash", "chmod", "open", "write"} => ~Listed(file[Cli])

Tried ==
  stage # "off" =>
    \A f \in Files \ todo : Listed(f) \/ (f = file[Cli] /\ phase[Cli] # "idle")

Busy == (\E a \in Analysts : phase[a] # "idle") => \A f \in Files : Listed(f)

Held == \A m \in manifest : \E k \in DOMAIN Book : Book[k].file = m.file /\ Book[k].id = m.id

Kept == Present /\ Once /\ New /\ Tried /\ Busy /\ Held

CaseInv == ModeInv /\ Course /\ (Undisturbed => Quiet) /\ (Whole => Kept)

-----------------------------------------------------------------------------
\* The worlds only shrink: what disturbs them is counted.
LEMMA WorldsShrink ==
  ASSUME Course, unlocks \in Nat, [Next]_vars
  PROVE  (Undisturbed' => Undisturbed) /\ (Whole' => Whole)
<1> USE DEF disk, yaml, rehash, course, request, outside
<1>1. /\ crashes' = crashes \/ crashes' = crashes + 1
      /\ removals' = removals \/ removals' = removals + 1
      /\ unlocks' = unlocks \/ unlocks' = unlocks + 1
      /\ calls' = calls \/ calls' = calls + 1
  <2>1. ASSUME NEW w \in Workers, Register(w) \/ Die(w)
        PROVE  /\ crashes' = crashes \/ crashes' = crashes + 1
               /\ removals' = removals /\ unlocks' = unlocks /\ calls' = calls
    BY <2>1 DEF Register, Die, Load, Compare, Hash, Chmod, Open, Write
  <2>2. ASSUME StartRun \/ StartAnalysis \/ StartVerify \/ VerifyNext \/ EndRun \/ UNCHANGED vars
        PROVE  crashes' = crashes /\ removals' = removals /\ unlocks' = unlocks /\ calls' = calls
    BY <2>2 DEF StartRun, StartAnalysis, StartVerify, VerifyNext, EndRun, vars
  <2>3. ASSUME RegisterNext \/ \E a \in Analysts : AnalystCalls(a)
        PROVE  /\ crashes' = crashes /\ removals' = removals /\ unlocks' = unlocks
               /\ calls' = calls \/ calls' = calls + 1
    BY <2>3 DEF RegisterNext, AnalystCalls, Begin
  <2>4. ASSUME NEW f \in Files, Change(f) \/ Remove(f) \/ Unlock(f)
        PROVE  /\ crashes' = crashes /\ calls' = calls
               /\ removals' = removals \/ removals' = removals + 1
               /\ unlocks' = unlocks \/ unlocks' = unlocks + 1
    BY <2>4 DEF Change, Remove, Unlock
  <2> QED BY <2>1, <2>2, <2>3, <2>4 DEF Next
<1> HIDE DEF disk, yaml, rehash, course, request, outside
<1> QED BY <1>1 DEF Course, Undisturbed, Alone, Whole, Steady

\* In CASE.yaml with one valid entry for each file, that entry is found.
LEMMA OnceExisting ==
  ASSUME NEW entries \in Seq(Entry),
         \A i, j \in DOMAIN entries : entries[i].file = entries[j].file => i = j,
         \A j \in DOMAIN entries : entries[j].id # Cut,
         NEW k \in DOMAIN entries
  PROVE  entries[k] \in Existing(entries, entries[k].file)
<1>1. \A i \in 1 .. (k - 1) : i \in DOMAIN entries /\ i # k
  OBVIOUS
<1> QED BY <1>1 DEF Existing

\* A file CASE.yaml lists is trusted to be registered.
LEMMA ListedRecorded ==
  ASSUME CaseInv, Whole, phase[Cli] # "write", NEW w \in Workers, Listed(file[w])
  PROVE  Recorded(w) # {}
<1>1. Types /\ file[w] \in Files /\ unlocks = 0 /\ Book = doc
  BY DEF CaseInv, ModeInv, Types, Whole, Steady, Book
<1>2. PICK k \in DOMAIN doc : doc[k].file = file[w]
  BY <1>1 DEF Listed
<1>3. readonly[file[w]]
  BY <1>1, <1>2, NamesAssumption DEF CaseInv, ModeInv, SealInv, Sealed
<1>4. doc[k] \in Existing(doc, file[w])
  BY <1>1, <1>2, OnceExisting DEF CaseInv, Kept, Once, Types
<1> QED BY <1>3, <1>4 DEF Recorded

\* A call of an analyst that no crash, no removal and no change of a mode
\* disturbs finds its file registered: it ends in the comparison.
LEMMA AnalystsOnlyCompare ==
  ASSUME CaseInv, Undisturbed, NEW a \in Analysts, Register(a)
  PROVE  /\ Whole /\ phase[a] # "idle" /\ (Load(a) \/ Compare(a))
         /\ phase' = [phase EXCEPT ![a] = phase'[a]] /\ phase'[a] \in {"idle", "compare"}
         /\ UNCHANGED <<bytes, doc, parses, stage, todo, manifest, queue, failed, suspects,
                        verdict, file, sha, promised, changes, calls>>
         /\ seen'[Cli] = seen[Cli]
<1> USE DEF disk, yaml, rehash, course, request, outside
<1>1. phase[a] # "idle" /\ Whole
  BY DEF Register, Load, Compare, Hash, Chmod, Open, Write, CaseInv, Course, Undisturbed,
         Alone
<1>2. phase[a] \in {"load", "compare"} /\ \A f \in Files : Listed(f)
  BY <1>1 DEF CaseInv, Quiet, Bystanders, Kept, Busy
<1>3. Types /\ a \in Workers /\ a # Cli /\ Cli \in Workers /\ file[a] \in Files
  BY NamesAssumption DEF CaseInv, ModeInv, Types, Workers
<1>4. Load(a) \/ Compare(a)
  BY <1>2 DEF Register, Load, Compare, Hash, Chmod, Open, Write
<1>5. CASE Load(a)
  <2>1. bytes[file[a]] # Gone /\ parses
    BY <1>1, <1>3 DEF CaseInv, Kept, Present
  <2>2. Recorded(a) # {}
    BY <1>1, <1>2, <1>3, ListedRecorded DEF CaseInv, Kept, New, Types
  <2>3. phase' = [phase EXCEPT ![a] = "compare"] /\ seen' = [seen EXCEPT ![a] = doc]
        /\ UNCHANGED <<stage, manifest>>
    BY <1>5, <2>1, <2>2 DEF Load, Goto
  <2> QED BY <1>1, <1>3, <1>5, <2>3 DEF Load, Types
<1>6. CASE Compare(a)
  <2>1. phase' = [phase EXCEPT ![a] = "idle"] /\ UNCHANGED <<stage, manifest>>
    BY <1>3, <1>6 DEF Compare, Return, Raise, Reject, Goto
  <2> QED BY <1>1, <1>3, <1>6, <2>1 DEF Compare, Types
<1> QED BY <1>1, <1>4, <1>5, <1>6

\* A step that leaves alone the run, its registrations and the disk.
LEMMA Unmoved ==
  ASSUME CaseInv, ModeInv', Course', Undisturbed' => Undisturbed, Whole' => Whole,
         UNCHANGED <<bytes, doc, parses, stage, todo, manifest, queue, failed, suspects,
                     verdict, promised, changes>>,
         seen'[Cli] = seen[Cli], phase'[Cli] = phase[Cli], file'[Cli] = file[Cli],
         sha'[Cli] = sha[Cli], Undisturbed' => Bystanders', Whole' => Busy'
  PROVE  CaseInv'
<1>1. Book' = Book
  BY DEF Book
<1>2. ASSUME Undisturbed' PROVE Quiet'
  <2>1. Copied' /\ Booked'
    BY <1>1, <1>2 DEF CaseInv, Quiet, Copied, Booked
  <2>2. Past'
    BY <1>1, <1>2 DEF CaseInv, Quiet, Past, Dated
  <2>3. Told'
    BY <1>2 DEF CaseInv, Quiet, Told, Mismatch
  <2> QED BY <1>2, <2>1, <2>2, <2>3 DEF Quiet
<1>3. ASSUME Whole' PROVE Kept'
  <2>1. Present' /\ Once' /\ New' /\ Tried' /\ Held'
    BY <1>1, <1>3 DEF CaseInv, Kept, Present, Once, New, Tried, Held, Listed
  <2> QED BY <1>3, <2>1 DEF Kept
<1> QED BY <1>2, <1>3 DEF CaseInv

\* A step of the run that neither adds to CASE.yaml nor re-hashes.
LEMMA Carried ==
  ASSUME CaseInv, ModeInv', Course', Undisturbed' => Undisturbed, Whole' => Whole,
         UNCHANGED <<bytes, queue, failed, suspects, verdict, promised, changes>>,
         parses => parses', \A a \in Analysts : phase'[a] = phase[a],
         stage' = stage \/ stage' # "verify",
         Undisturbed => Book' = Book /\ Copied' /\ sha'[Cli] <= changes + 1,
         Whole => New' /\ Tried' /\ Held'
  PROVE  CaseInv'
<1>1. ASSUME Undisturbed' PROVE Quiet'
  <2>0. Undisturbed /\ Book' = Book
    BY <1>1
  <2>1. Bystanders' /\ Booked'
    BY <2>0 DEF CaseInv, Quiet, Bystanders, Booked
  <2>2. Past'
    BY <2>0 DEF CaseInv, Quiet, Past, Dated
  <2>3. Told'
    BY <2>0 DEF CaseInv, Quiet, Told, Mismatch
  <2> QED BY <2>0, <2>1, <2>2, <2>3 DEF Quiet
<1>2. ASSUME Whole' PROVE Kept'
  <2>0. Whole /\ Undisturbed /\ Book' = Book
    BY <1>2 DEF Undisturbed
  <2>1. Present' /\ Once'
    BY <2>0 DEF CaseInv, Kept, Present, Once
  <2>2. Busy'
    BY <2>0 DEF CaseInv, Kept, Busy, Listed
  <2> QED BY <2>0, <2>1, <2>2 DEF Kept
<1> QED BY <1>1, <1>2 DEF CaseInv

\* What every step of register_evidence has in common.
LEMMA RegisterMoves ==
  ASSUME Types, NEW w \in Workers, Register(w)
  PROVE  /\ phase[w] # "idle" /\ phase' = [phase EXCEPT ![w] = phase'[w]]
         /\ stage' = stage \/ (w = Cli /\ stage' = "off" /\ phase'[w] = "idle")
         /\ promised' = promised \/ promised' = promised \cup {NewEntry(w)}
         /\ UNCHANGED <<todo, queue, calls, crashes, removals>>
<1> USE DEF disk, yaml, rehash, course, request, outside
<1>1. CASE Load(w)
  <2>1. phase' = [phase EXCEPT ![w] = phase'[w]]
    BY <1>1 DEF Load, Raise, RaiseYaml, Goto, Types
  <2> QED BY <1>1, <2>1 DEF Load, Raise, RaiseYaml, Goto, Types
<1>2. CASE Compare(w)
  BY <1>2 DEF Compare, Return, Reject, Raise, Goto, Types
<1>3. CASE Hash(w)
  BY <1>3 DEF Hash, Raise, Goto, Types
<1>4. CASE Chmod(w)
  BY <1>4 DEF Chmod, Raise, Goto, Types
<1>5. CASE Open(w)
  BY <1>5 DEF Open, Goto, Types
<1>6. CASE Write(w)
  BY <1>6 DEF Write, Return, Goto, Types
<1> QED BY <1>1, <1>2, <1>3, <1>4, <1>5, <1>6 DEF Register

LEMMA CourseStays ==
  ASSUME Types, Course, [Next]_vars
  PROVE  Course'
<1> USE DEF disk, yaml, rehash, course, request, outside
<1>0. /\ Cli \in Workers /\ \A a \in Analysts : a \in Workers /\ a # Cli
      /\ phase \in [Workers -> {"idle", "load", "compare", "hash", "chmod", "open", "write"}]
  BY NamesAssumption DEF Workers, Types
<1>1. ASSUME NEW w \in Workers, Register(w) PROVE Course'
  <2>1. NewEntry(w) \in Entry
    BY DEF Types, NewEntry, Entry
  <2>2. /\ phase[w] # "idle" /\ phase' = [phase EXCEPT ![w] = phase'[w]]
        /\ stage' = stage \/ (w = Cli /\ stage' = "off" /\ phase'[w] = "idle")
        /\ promised' = promised \/ promised' = promised \cup {NewEntry(w)}
        /\ UNCHANGED <<todo, queue, calls, crashes, removals>>
    BY <1>1, RegisterMoves
  <2>3. promised' \subseteq Entry /\ queue' \in Seq(Entry)
    BY <2>1, <2>2 DEF Course
  <2>4. stage' # "register" => phase'[Cli] = "idle"
    BY <1>0, <2>2 DEF Course
  <2>5. calls' = 0 => \A a \in Analysts : phase'[a] = "idle"
    BY <1>0, <2>2 DEF Course
  <2>6. stage' \in {"analyze", "verify"} => todo' = {}
    BY <2>2 DEF Course
  <2> QED BY <2>2, <2>3, <2>4, <2>5, <2>6 DEF Course
<1>2. ASSUME NEW w \in Workers, Die(w) PROVE Course'
  BY <1>0, <1>2 DEF Die, Goto, Course
<1>3. CASE RegisterNext
  BY <1>0, <1>3 DEF RegisterNext, Begin, Goto, Course
<1>4. ASSUME NEW a \in Analysts, AnalystCalls(a) PROVE Course'
  BY <1>0, <1>4 DEF AnalystCalls, Begin, Goto, Course
<1>5. CASE StartRun \/ StartAnalysis
  BY <1>5 DEF StartRun, StartAnalysis, Course
<1>6. CASE StartVerify
  <2>1. queue' \in Seq(Entry)
    BY <1>6 DEF StartVerify, Course, Types
  <2>2. /\ stage = "analyze" /\ stage' \in {"verify", "off"}
        /\ UNCHANGED <<phase, todo, calls, crashes, removals, promised>>
    BY <1>6 DEF StartVerify
  <2> QED BY <2>1, <2>2 DEF Course
<1>7. CASE VerifyNext \/ EndRun
  <2>1. queue' \in Seq(Entry)
    BY <1>7 DEF VerifyNext, EndRun, Course
  <2>2. /\ stage = "verify" /\ stage' \in {"verify", "off"}
        /\ UNCHANGED <<phase, todo, calls, crashes, removals, promised>>
    BY <1>7 DEF VerifyNext, EndRun
  <2> QED BY <2>1, <2>2 DEF Course
<1>8. ASSUME NEW f \in Files, Change(f) \/ Remove(f) \/ Unlock(f) PROVE Course'
  BY <1>8 DEF Change, Remove, Unlock, Course
<1>9. CASE UNCHANGED vars
  BY <1>9 DEF vars, Course
<1> HIDE DEF disk, yaml, rehash, course, request, outside
<1> QED BY <1>1, <1>2, <1>3, <1>4, <1>5, <1>6, <1>7, <1>8, <1>9 DEF Next

LEMMA LoadKeeps ==
  ASSUME CaseInv, ModeInv', Course', Undisturbed' => Undisturbed, Whole' => Whole, Load(Cli)
  PROVE  CaseInv'
<1> USE DEF disk, yaml, rehash, course, request, outside
<1>1. /\ Cli \in Workers /\ \A a \in Analysts : a \in Workers /\ a # Cli
      /\ Types /\ phase[Cli] = "load" /\ file[Cli] \in Files /\ Book = doc
  BY NamesAssumption DEF Workers, CaseInv, ModeInv, Types, Load, Book
<1>2. /\ UNCHANGED <<bytes, doc, parses, queue, failed, suspects, verdict, promised, changes,
                     sha, file, todo, manifest>>
      /\ phase' = [phase EXCEPT ![Cli] = phase'[Cli]]
      /\ stage' = stage \/ stage' = "off"
      /\ \/ phase'[Cli] = "idle" /\ (bytes[file[Cli]] = Gone \/ ~parses)
         \/ /\ seen' = [seen EXCEPT ![Cli] = doc] /\ stage' = stage
            /\ phase'[Cli] = IF Recorded(Cli) # {} THEN "compare" ELSE "hash"
  <2>1. ASSUME bytes[file[Cli]] = Gone \/ ~parses
        PROVE  phase' = [phase EXCEPT ![Cli] = "idle"] /\ (stage' = stage \/ stage' = "off")
               /\ manifest' = manifest
    BY <1>1, <2>1 DEF Load, Raise, RaiseYaml, Goto
  <2>2. ASSUME bytes[file[Cli]] # Gone, parses
        PROVE  /\ phase' = [phase EXCEPT ![Cli] = IF Recorded(Cli) # {} THEN "compare" ELSE "hash"]
               /\ seen' = [seen EXCEPT ![Cli] = doc] /\ stage' = stage /\ manifest' = manifest
    BY <2>2 DEF Load, Goto
  <2>3. /\ UNCHANGED <<bytes, doc, parses, queue, failed, suspects, verdict, promised, changes,
                     sha, file, todo>>
    BY DEF Load
  <2> QED BY <1>1, <2>1, <2>2, <2>3 DEF Types
<1>3. \A a \in Analysts : phase'[a] = phase[a]
  BY <1>1, <1>2 DEF Types
<1>4. Book' = Book /\ Copied'
  BY <1>1, <1>2 DEF Book, Copied, Types
<1>5. Undisturbed => sha'[Cli] <= changes + 1
  BY <1>2 DEF CaseInv, Quiet, Past
<1>6. ASSUME Whole PROVE New' /\ Tried' /\ Held'
  <2>1. phase'[Cli] = IF Recorded(Cli) # {} THEN "compare" ELSE "hash"
    BY <1>1, <1>2, <1>6 DEF CaseInv, Kept, Present
  <2>2. New'
    BY <1>1, <1>2, <1>4, <1>6, <2>1, ListedRecorded DEF New, Listed
  <2>3. Tried'
    BY <1>1, <1>2, <1>4, <1>6, <2>1 DEF CaseInv, Kept, Tried, Listed
  <2>4. Held'
    BY <1>2, <1>4, <1>6 DEF CaseInv, Kept, Held
  <2> QED BY <2>2, <2>3, <2>4
<1> HIDE DEF disk, yaml, rehash, course, request, outside
<1> QED BY <1>2, <1>3, <1>4, <1>5, <1>6, Carried

LEMMA CompareKeeps ==
  ASSUME CaseInv, ModeInv', Course', Undisturbed' => Undisturbed, Whole' => Whole, Compare(Cli)
  PROVE  CaseInv'
<1> USE DEF disk, yaml, rehash, course, request, outside
<1>1. /\ Cli \in Workers /\ \A a \in Analysts : a \in Workers /\ a # Cli
      /\ Types /\ phase[Cli] = "compare" /\ file[Cli] \in Files /\ Book = doc
  BY NamesAssumption DEF Workers, CaseInv, ModeInv, Types, Compare, Book
<1>2. PICK e \in Existing(seen[Cli], file[Cli]) :
        /\ phase' = [phase EXCEPT ![Cli] = "idle"] /\ stage' = stage
        /\ \/ manifest' = manifest
           \/ manifest' = manifest \cup {[file |-> file[Cli], id |-> e.id]}
  BY DEF Compare, Return, Reject, Raise, Goto
<1>3. UNCHANGED <<bytes, doc, parses, queue, failed, suspects, verdict, promised, changes,
                  sha, file, seen, todo>>
  BY DEF Compare
<1>4. \A a \in Analysts : phase'[a] = phase[a]
  BY <1>1, <1>2 DEF Types
<1>5. phase'[Cli] = "idle"
  BY <1>1, <1>2 DEF Types
<1>6. Book' = Book /\ Copied'
  BY <1>1, <1>3, <1>5 DEF Book, Copied
<1>7. Undisturbed => sha'[Cli] <= changes + 1
  BY <1>3 DEF CaseInv, Quiet, Past
<1>8. ASSUME Whole PROVE New' /\ Tried' /\ Held'
  <2>1. PICK k \in DOMAIN doc : doc[k] = e /\ e.file = file[Cli]
    BY <1>1, <1>2, <1>8 DEF CaseInv, Undisturbed, Quiet, Copied, Existing
  <2>2. New'
    BY <1>5 DEF New
  <2>3. Tried'
    BY <1>1, <1>2, <1>3, <1>6, <1>8, <2>1 DEF CaseInv, Kept, Tried, Listed
  <2>4. Held'
    BY <1>1, <1>2, <1>3, <1>6, <1>8, <2>1 DEF CaseInv, Kept, Held
  <2> QED BY <2>2, <2>3, <2>4
<1> HIDE DEF disk, yaml, rehash, course, request, outside
<1> QED BY <1>2, <1>3, <1>4, <1>6, <1>7, <1>8, Carried

\* The steps from the hash to the rewrite of CASE.yaml.
LEMMA HashKeeps ==
  ASSUME CaseInv, ModeInv', Course', Undisturbed' => Undisturbed, Whole' => Whole,
         Hash(Cli) \/ Chmod(Cli) \/ Open(Cli)
  PROVE  CaseInv'
<1> USE DEF disk, yaml, rehash, course, request, outside
<1>1. /\ Cli \in Workers /\ \A a \in Analysts : a \in Workers /\ a # Cli
      /\ Types /\ phase[Cli] \in {"hash", "chmod", "open"} /\ file[Cli] \in Files /\ Book = doc
  BY NamesAssumption DEF Workers, CaseInv, ModeInv, Types, Hash, Chmod, Open, Book
<1>2. /\ UNCHANGED <<bytes, queue, failed, suspects, verdict, promised, changes,
                     file, seen, todo, manifest, stage>>
      /\ parses => parses'
      /\ phase' = [phase EXCEPT ![Cli] = phase'[Cli]]
      /\ \/ bytes[file[Cli]] = Gone /\ phase'[Cli] = "idle" /\ doc' = doc
         \/ phase'[Cli] \in {"chmod", "open"} /\ doc' = doc
         \/ phase'[Cli] = "write" /\ doc' = <<>>
      /\ sha'[Cli] \in {sha[Cli], bytes[file[Cli]]}
  <2>1. CASE Hash(Cli)
    BY <1>1, <2>1 DEF Hash, Raise, Goto, Types
  <2>2. CASE Chmod(Cli)
    BY <1>1, <2>2 DEF Chmod, Raise, Goto, Types
  <2>3. CASE Open(Cli)
    BY <1>1, <2>3 DEF Open, Goto, Types
  <2> QED BY <2>1, <2>2, <2>3
<1>4. \A a \in Analysts : phase'[a] = phase[a]
  BY <1>1, <1>2 DEF Types
<1>5. Undisturbed => Book' = Book /\ Copied'
  BY <1>1, <1>2 DEF CaseInv, Quiet, Copied, Book
<1>6. Undisturbed => sha'[Cli] <= changes + 1
  BY <1>1, <1>2 DEF CaseInv, Quiet, Past
<1>7. ASSUME Whole PROVE New' /\ Tried' /\ Held'
  <2>1. phase'[Cli] # "idle" /\ Book' = Book
    BY <1>1, <1>2, <1>5, <1>7 DEF CaseInv, Kept, Present, Undisturbed
  <2>2. New'
    BY <1>1, <1>2, <1>7, <2>1 DEF CaseInv, Kept, New, Listed
  <2>3. Tried'
    BY <1>1, <1>2, <1>7, <2>1 DEF CaseInv, Kept, Tried, Listed
  <2>4. Held'
    BY <1>2, <1>7, <2>1 DEF CaseInv, Kept, Held
  <2> QED BY <2>2, <2>3, <2>4
<1> HIDE DEF disk, yaml, rehash, course, request, outside
<1> QED BY <1>2, <1>4, <1>5, <1>6, <1>7, Carried

\* The rewrite adds one entry, of a file that had none, and keeps the others.
LEMMA WriteKeeps ==
  ASSUME CaseInv, ModeInv', Course', Undisturbed' => Undisturbed, Whole' => Whole, Write(Cli)
  PROVE  CaseInv'
<1> USE DEF disk, yaml, rehash, course, request, outside
<1>1. /\ Cli \in Workers /\ \A a \in Analysts : a \in Workers /\ a # Cli
      /\ Types /\ phase[Cli] = "write" /\ file[Cli] \in Files /\ Book = seen[Cli]
      /\ Book \in Seq(Entry) /\ ids \in Nat /\ stage = "register"
  BY NamesAssumption DEF Workers, CaseInv, ModeInv, Types, Write, Book, Course
<1> DEFINE e == NewEntry(Cli)
<1>2. /\ UNCHANGED <<bytes, queue, failed, suspects, verdict, changes, sha, file, seen, todo,
                     stage>>
      /\ phase' = [phase EXCEPT ![Cli] = "idle"] /\ doc' = Append(Book, e)
      /\ promised' = promised \cup {e}
      /\ manifest' = manifest \cup {[file |-> file[Cli], id |-> e.id]}
      /\ doc = <<>> => parses' = TRUE
  BY <1>1 DEF Write, Return, Goto, Rewritten, NewEntry
<1>3. phase'[Cli] = "idle" /\ \A a \in Analysts : phase'[a] = phase[a]
  BY <1>1, <1>2 DEF Types
<1>4. e.file = file[Cli] /\ e.id = ids + 1 /\ e.digest = sha[Cli]
  BY DEF NewEntry
<1>5. /\ Len(Book) \in Nat /\ DOMAIN Book = 1 .. Len(Book)
      /\ DOMAIN Book' = 1 .. (Len(Book) + 1) /\ Book'[Len(Book) + 1] = e
      /\ \A k \in DOMAIN Book : Book'[k] = Book[k]
  BY <1>1, <1>2, <1>3 DEF Book
<1>6. DOMAIN Book \subseteq DOMAIN Book' /\ Len(Book) + 1 \in DOMAIN Book'
      /\ \A k \in DOMAIN Book' : k \in DOMAIN Book \/ k = Len(Book) + 1
  BY <1>5
<1> HIDE DEF e
<1>7. ASSUME Undisturbed' PROVE Quiet'
  <2>1. Bystanders'
    BY <1>3, <1>7 DEF CaseInv, Quiet, Bystanders
  <2>2. Copied'
    BY <1>3 DEF Copied
  <2>3. Booked'
    BY <1>2, <1>5, <1>6, <1>7 DEF CaseInv, Quiet, Booked
  <2>4. Past'
    BY <1>2, <1>4, <1>5, <1>6, <1>7 DEF CaseInv, Quiet, Past, Dated
  <2>5. Told'
    BY <1>1, <1>2, <1>7 DEF CaseInv, Quiet, Told
  <2> QED BY <2>1, <2>2, <2>3, <2>4, <2>5 DEF Quiet
<1>8. ASSUME Whole' PROVE Kept'
  <2>0. Whole /\ Undisturbed /\ doc = <<>>
    BY <1>1, <1>8 DEF Undisturbed, CaseInv, Quiet, Copied
  <2>1. Present'
    BY <1>2, <2>0 DEF CaseInv, Kept, Present
  <2>2. \A k \in DOMAIN Book : Book[k].file # e.file
    BY <1>1, <1>4, <2>0 DEF CaseInv, Kept, New, Listed
  <2>3. \A j, k \in DOMAIN Book : Book[j].file = Book[k].file => j = k
    BY <2>0 DEF CaseInv, Kept, Once
  <2>4. Once'
    <3>1. ASSUME NEW j \in DOMAIN Book', NEW k \in DOMAIN Book', Book'[j].file = Book'[k].file
          PROVE  j = k
      BY <1>5, <1>6, <2>2, <2>3, <3>1
    <3>2. ASSUME NEW k \in DOMAIN Book' PROVE Book'[k].id # Cut /\ Book'[k].file # NoFile
      BY <1>1, <1>4, <1>5, <1>6, <2>0, NamesAssumption DEF CaseInv, Kept, Once, Cut
    <3> QED BY <3>1, <3>2 DEF Once
  <2>5. \A f \in Files : Listed(f) \/ f = file[Cli] => Listed(f)'
    BY <1>4, <1>5, <1>6 DEF Listed
  <2>6. New'
    BY <1>3 DEF New
  <2>7. Tried'
    BY <1>2, <2>0, <2>5 DEF CaseInv, Kept, Tried
  <2>8. Busy'
    BY <1>3, <2>0, <2>5 DEF CaseInv, Kept, Busy
  <2>9. Held'
    BY <1>2, <1>4, <1>5, <1>6, <2>0 DEF CaseInv, Kept, Held
  <2> QED BY <2>1, <2>4, <2>6, <2>7, <2>8, <2>9 DEF Kept
<1> HIDE DEF disk, yaml, rehash, course, request, outside
<1> QED BY <1>7, <1>8 DEF CaseInv

\* The steps of the run around its registrations.
LEMMA RunKeeps ==
  ASSUME CaseInv, ModeInv', Course', Undisturbed' => Undisturbed, Whole' => Whole,
         StartRun \/ RegisterNext \/ StartAnalysis
  PROVE  CaseInv'
<1> USE DEF disk, yaml, rehash, course, request, outside
<1>1. /\ Cli \in Workers /\ \A a \in Analysts : a \in Workers /\ a # Cli
      /\ Types /\ phase[Cli] = "idle" /\ Book = doc
  BY NamesAssumption
     DEF Workers, CaseInv, ModeInv, Types, Book, StartRun, RegisterNext, StartAnalysis, Begin
<1>2. /\ UNCHANGED <<bytes, doc, parses, queue, failed, suspects, verdict, promised, changes,
                     seen, sha>>
      /\ phase' = [phase EXCEPT ![Cli] = phase'[Cli]] /\ phase'[Cli] \in {"idle", "load"}
      /\ stage' # "verify" \/ stage' = stage
  BY <1>1 DEF StartRun, RegisterNext, StartAnalysis, Begin, Goto, Types
<1>3. \A a \in Analysts : phase'[a] = phase[a]
  BY <1>1, <1>2 DEF Types
<1>4. Book' = Book /\ Copied' /\ New'
  BY <1>1, <1>2 DEF Book, Copied, New
<1>5. Undisturbed => sha'[Cli] <= changes + 1
  BY <1>2 DEF CaseInv, Quiet, Past
<1>6. ASSUME Whole PROVE Tried' /\ Held'
  <2>1. CASE StartRun
    <3>1. todo' = Files /\ manifest' = {}
      BY <1>6, <2>1 DEF StartRun, Whole
    <3> QED BY <3>1 DEF Tried, Held
  <2>2. CASE RegisterNext
    <3>1. PICK f \in todo : /\ todo' = todo \ {f} /\ file' = [file EXCEPT ![Cli] = f]
                            /\ phase' = [phase EXCEPT ![Cli] = "load"]
                            /\ UNCHANGED <<stage, manifest>>
      BY <2>2 DEF RegisterNext, Begin, Goto
    <3>2. file'[Cli] = f /\ phase'[Cli] = "load"
      BY <1>1, <3>1 DEF Types
    <3>3. Tried'
      BY <1>1, <1>4, <1>6, <2>2, <3>1, <3>2 DEF CaseInv, Kept, Tried, Listed, RegisterNext
    <3> QED BY <1>4, <1>6, <3>1, <3>3 DEF CaseInv, Kept, Held
  <2>3. CASE StartAnalysis
    <3>1. UNCHANGED <<todo, manifest, phase, file>> /\ stage # "off"
      BY <2>3 DEF StartAnalysis
    <3> QED BY <1>4, <1>6, <3>1 DEF CaseInv, Kept, Tried, Held, Listed
  <2> QED BY <2>1, <2>2, <2>3
<1> HIDE DEF disk, yaml, rehash, course, request, outside
<1> QED BY <1>2, <1>3, <1>4, <1>5, <1>6, Carried

\* An analyst only starts when every file is registered.
LEMMA CallKeeps ==
  ASSUME CaseInv, ModeInv', Course', Undisturbed' => Undisturbed, Whole' => Whole,
         NEW a \in Analysts, AnalystCalls(a)
  PROVE  CaseInv'
<1> USE DEF disk, yaml, rehash, course, request, outside
<1>1. /\ a \in Workers /\ Cli \in Workers /\ a # Cli /\ Types
      /\ \A b \in Analysts : b \in Workers
  BY NamesAssumption DEF Workers, CaseInv, ModeInv
<1>2. PICK f \in Files : Begin(a, f) /\ todo' = todo
  BY DEF AnalystCalls
<1>3. /\ UNCHANGED <<bytes, doc, parses, stage, todo, manifest, queue, failed, suspects,
                     verdict, promised, changes, seen, sha>>
      /\ phase' = [phase EXCEPT ![a] = "load"] /\ file' = [file EXCEPT ![a] = f]
      /\ stage = "analyze"
  BY <1>2 DEF Begin, Goto, AnalystCalls
<1>4. phase'[Cli] = phase[Cli] /\ file'[Cli] = file[Cli] /\ seen'[Cli] = seen[Cli]
      /\ sha'[Cli] = sha[Cli] /\ \A b \in Analysts : phase'[b] \in {phase[b], "load"}
  BY <1>1, <1>3 DEF Types
<1>5. Undisturbed' => Bystanders'
  BY <1>4 DEF CaseInv, Quiet, Bystanders
<1>6. ASSUME Whole' PROVE Busy'
  <2>1. phase[Cli] = "idle" /\ todo = {} /\ Book' = Book
    BY <1>3, <1>4 DEF CaseInv, Course, Book
  <2>2. \A g \in Files : Listed(g)
    BY <1>3, <1>6, <2>1 DEF CaseInv, Kept, Tried
  <2> QED BY <2>1, <2>2 DEF Busy, Listed
<1> HIDE DEF disk, yaml, rehash, course, request, outside
<1> QED BY <1>3, <1>4, <1>5, <1>6, Unmoved

LEMMA AnalystKeeps ==
  ASSUME CaseInv, ModeInv', Course', Undisturbed, Undisturbed' => Undisturbed, Whole' => Whole,
         NEW a \in Analysts, Register(a)
  PROVE  CaseInv'
<1>1. /\ a \in Workers /\ Cli \in Workers /\ a # Cli /\ Types
      /\ \A b \in Analysts : b \in Workers
  BY NamesAssumption DEF Workers, CaseInv, ModeInv
<1>2. /\ Whole /\ phase[a] # "idle"
      /\ phase' = [phase EXCEPT ![a] = phase'[a]] /\ phase'[a] \in {"idle", "compare"}
      /\ UNCHANGED <<bytes, doc, parses, stage, todo, manifest, queue, failed, suspects,
                     verdict, file, sha, promised, changes, calls>>
      /\ seen'[Cli] = seen[Cli]
  BY AnalystsOnlyCompare
<1>3. phase'[Cli] = phase[Cli] /\ Book' = Book
  BY <1>1, <1>2 DEF Types, Book
<1>4. Bystanders'
  BY <1>1, <1>2 DEF CaseInv, Quiet, Bystanders, Types
<1>5. Busy'
  BY <1>2, <1>3 DEF CaseInv, Kept, Busy, Listed
<1> QED BY <1>2, <1>3, <1>4, <1>5, Unmoved

\* The re-hash.
LEMMA RehashKeeps ==
  ASSUME CaseInv, ModeInv', Course', Undisturbed' => Undisturbed, Whole' => Whole,
         StartVerify \/ VerifyNext \/ EndRun
  PROVE  CaseInv'
<1> USE DEF disk, yaml, rehash, course, request, outside
<1>1. /\ phase[Cli] = "idle" /\ Book = doc /\ queue \in Seq(Entry) /\ Types
      /\ stage \in {"analyze", "verify"}
  BY DEF CaseInv, ModeInv, Course, Book, StartVerify, VerifyNext, EndRun
<1>2. /\ UNCHANGED <<bytes, doc, parses, promised, changes, seen, sha, file, phase, todo,
                     manifest>>
  BY DEF StartVerify, VerifyNext, EndRun
<1>3. Book' = Book
  BY <1>2 DEF Book
<1>4. ASSUME Undisturbed' PROVE Quiet'
  <2>1. Bystanders' /\ Copied' /\ Booked'
    BY <1>2, <1>3, <1>4 DEF CaseInv, Quiet, Bystanders, Copied, Booked
  <2>2. Dated(queue')
    <3>1. CASE StartVerify
      BY <1>1, <1>4, <3>1 DEF StartVerify, CaseInv, Quiet, Past, Dated
    <3>2. CASE VerifyNext
      <4>1. queue # <<>> /\ queue' = Tail(queue)
        BY <3>2 DEF VerifyNext
      <4>2. \A k \in DOMAIN queue' : k + 1 \in DOMAIN queue /\ queue'[k] = queue[k + 1]
        BY <1>1, <4>1
      <4> QED BY <1>4, <4>2 DEF CaseInv, Quiet, Past, Dated
    <3>3. CASE EndRun
      BY <1>4, <3>3 DEF EndRun, CaseInv, Quiet, Past, Dated
    <3> QED BY <3>1, <3>2, <3>3
  <2>3. Past'
    BY <1>2, <1>3, <1>4, <2>2 DEF CaseInv, Quiet, Past, Dated
  <2>4. CASE StartVerify
    <3>1. verdict' = "none" /\ suspects' = Changed /\ (stage' = "verify" => queue' = doc)
      BY <2>4 DEF StartVerify
    <3>2. ASSUME stage' = "verify", suspects' # {}
          PROVE  \E k \in DOMAIN queue' : Mismatch(queue[k])'
      <4>1. PICK r \in promised : bytes[r.file] # r.digest
        BY <3>1, <3>2 DEF Changed
      <4>2. PICK k \in DOMAIN doc : doc[k] = r
        BY <1>1, <1>4, <4>1 DEF CaseInv, Quiet, Booked
      <4> QED BY <1>2, <3>1, <3>2, <4>1, <4>2 DEF Mismatch
    <3>3. Told'
      BY <3>1, <3>2 DEF Told
    <3> QED BY <2>1, <2>3, <3>3 DEF Quiet
  <2>5. CASE VerifyNext
    <3>1. /\ queue # <<>> /\ queue' = Tail(queue) /\ stage = "verify"
          /\ failed' = (failed \/ Mismatch(Head(queue))) /\ UNCHANGED <<suspects, verdict>>
      BY <2>5 DEF VerifyNext
    <3>2. ASSUME NEW k \in DOMAIN queue, Mismatch(queue[k])
          PROVE  failed' \/ \E j \in DOMAIN queue' : Mismatch(queue[j])'
      <4>1. CASE k = 1
        <5>1. Mismatch(Head(queue))
          BY <1>1, <3>1, <3>2, <4>1
        <5> QED BY <3>1, <5>1
      <4>2. CASE k # 1
        <5>1. k - 1 \in DOMAIN queue' /\ queue'[k - 1] = queue[k]
          BY <1>1, <3>1, <4>2
        <5> QED BY <1>2, <3>2, <5>1 DEF Mismatch
      <4> QED BY <4>1, <4>2
    <3>3. Told'
      BY <1>4, <3>1, <3>2 DEF CaseInv, Quiet, Told
    <3> QED BY <2>1, <2>3, <3>3 DEF Quiet
  <2>6. CASE EndRun
    <3>1. /\ queue = <<>> /\ stage = "verify" /\ stage' = "off" /\ suspects' = suspects
          /\ verdict' = IF failed THEN "fatal" ELSE "trusted"
      BY <2>6 DEF EndRun
    <3>2. DOMAIN queue = {}
      BY <3>1
    <3>3. Told'
      BY <1>4, <3>1, <3>2 DEF CaseInv, Quiet, Told
    <3> QED BY <2>1, <2>3, <3>3 DEF Quiet
  <2> QED BY <2>4, <2>5, <2>6
<1>5. ASSUME Whole' PROVE Kept'
  <2>1. Present' /\ Once' /\ New' /\ Busy' /\ Held'
    BY <1>2, <1>3, <1>5 DEF CaseInv, Kept, Present, Once, New, Busy, Held, Listed
  <2>2. Tried'
    BY <1>1, <1>2, <1>3, <1>5 DEF CaseInv, Kept, Tried, Listed
  <2> QED BY <2>1, <2>2 DEF Kept
<1> HIDE DEF disk, yaml, rehash, course, request, outside
<1> QED BY <1>4, <1>5 DEF CaseInv

\* A later bound holds as well.
LEMMA Later ==
  ASSUME NEW digest \in Nat, NEW c \in Nat, NEW d \in Nat, digest <= c + 1, c <= d
  PROVE  digest <= d + 1
  OBVIOUS

\* A change gives a file a digest that is on record nowhere: what differed
\* from its record differs still.
LEMMA ChangeKeeps ==
  ASSUME CaseInv, ModeInv', Course', Undisturbed' => Undisturbed, Whole' => Whole,
         NEW f \in Files, Change(f) \/ Remove(f) \/ Unlock(f)
  PROVE  CaseInv'
<1> USE DEF disk, yaml, rehash, course, request, outside
<1>1. /\ UNCHANGED <<doc, parses, promised, seen, sha, file, phase, todo, manifest, stage,
                     queue, failed, suspects, verdict>>
      /\ queue \in Seq(Entry) /\ Types
  BY DEF CaseInv, ModeInv, Course, Change, Remove, Unlock
<1>2. /\ bytes \in [Files -> Nat] /\ changes \in Nat /\ removals \in Nat /\ unlocks \in Nat
  BY <1>1 DEF Types, CaseInv, Course
<1>3. \/ bytes' = [bytes EXCEPT ![f] = changes + 2] /\ changes' = changes + 1
      \/ bytes' = [bytes EXCEPT ![f] = Gone] /\ changes' = changes /\ ~Whole'
      \/ bytes' = bytes /\ changes' = changes /\ ~Whole'
  <2>1. CASE Change(f)
    BY <2>1 DEF Change
  <2>2. CASE Remove(f)
    BY <1>2, <2>2 DEF Remove, Whole, Steady
  <2>3. CASE Unlock(f)
    BY <1>2, <2>3 DEF Unlock, Whole, Steady
  <2> QED BY <2>1, <2>2, <2>3
<1>4. Book' = Book
  BY <1>1 DEF Book
<1>5. ASSUME Undisturbed' PROVE Quiet'
  <2>0. Quiet
    BY <1>5 DEF CaseInv
  <2>1. Bystanders' /\ Copied' /\ Booked'
    BY <1>1, <1>4, <2>0 DEF Quiet, Bystanders, Copied, Booked
  <2>2. \A g \in Files : bytes'[g] <= changes' + 1
    BY <1>2, <1>3, <2>0 DEF Quiet, Past, Gone
  <2>3. changes' \in Nat /\ changes <= changes'
    BY <1>2, <1>3
  <2>4. Book \in Seq(Entry) /\ sha[Cli] \in Nat
    BY <1>1 DEF Types, Book, Workers
  <2>5. Past'
    <3>1. Dated(Book)' /\ Dated(queue)'
      <4>1. \A k \in DOMAIN Book : Book[k].digest <= changes' + 1
        <5>1. ASSUME NEW k \in DOMAIN Book PROVE Book[k].digest <= changes' + 1
          <6>0. Book[k] \in Entry
            BY <2>4
          <6>1. Book[k].digest \in Nat
            BY <6>0 DEF Entry
          <6>2. Book[k].digest <= changes + 1
            BY <2>0 DEF Quiet, Past, Dated
          <6> QED BY <1>2, <2>3, <6>1, <6>2, Later
        <5> QED BY <5>1
      <4>2. \A k \in DOMAIN queue : queue[k].digest <= changes' + 1
        <5>1. ASSUME NEW k \in DOMAIN queue PROVE queue[k].digest <= changes' + 1
          <6>0. queue[k] \in Entry
            BY <1>1
          <6>1. queue[k].digest \in Nat
            BY <6>0 DEF Entry
          <6>2. queue[k].digest <= changes + 1
            BY <2>0 DEF Quiet, Past, Dated
          <6> QED BY <1>2, <2>3, <6>1, <6>2, Later
        <5> QED BY <5>1
      <4> QED BY <1>1, <1>4, <4>1, <4>2 DEF Dated
    <3>2. sha'[Cli] <= changes' + 1
      BY <1>1, <1>2, <1>3, <2>0, <2>4 DEF Quiet, Past
    <3> QED BY <2>2, <3>1, <3>2 DEF Past
  <2>6. ASSUME NEW k \in DOMAIN queue, Mismatch(queue[k]) PROVE Mismatch(queue[k])'
    <3>1. queue[k] \in Entry /\ queue[k].digest <= changes + 1
      BY <1>1, <2>0 DEF Quiet, Past, Dated
    <3> QED BY <1>1, <1>2, <1>3, <2>6, <3>1 DEF Mismatch, Entry, Gone
  <2>7. Told'
    BY <1>1, <2>0, <2>6 DEF Quiet, Told
  <2> QED BY <2>1, <2>5, <2>7 DEF Quiet
<1>6. ASSUME Whole' PROVE Kept'
  <2>1. Once' /\ New' /\ Tried' /\ Busy' /\ Held'
    BY <1>1, <1>4, <1>6 DEF CaseInv, Kept, Once, New, Tried, Busy, Held, Listed
  <2>2. Present'
    BY <1>1, <1>2, <1>3, <1>6 DEF CaseInv, Kept, Present, Gone
  <2> QED BY <2>1, <2>2 DEF Kept
<1> HIDE DEF disk, yaml, rehash, course, request, outside
<1> QED BY <1>5, <1>6 DEF CaseInv

\* The second inductive invariant: nothing follows in a world that is disturbed.
LEMMA CaseStays ==
  ASSUME CaseInv, [Next]_vars
  PROVE  CaseInv'
<1>1. ModeInv' /\ Types /\ Course
  BY ModesStay DEF CaseInv, ModeInv
<1>2. Course'
  BY <1>1, CourseStays
<1>3. (Undisturbed' => Undisturbed) /\ (Whole' => Whole)
  BY <1>1, WorldsShrink DEF Types
<1> SUFFICES ASSUME Undisturbed' PROVE CaseInv'
  BY <1>1, <1>2 DEF CaseInv, Undisturbed
<1>4. ASSUME NEW w \in Workers, Register(w) PROVE CaseInv'
  <2>1. CASE w = Cli
    BY <1>1, <1>2, <1>3, <1>4, <2>1, LoadKeeps, CompareKeeps, HashKeeps, WriteKeeps DEF Register
  <2>2. CASE w \in Analysts
    BY <1>1, <1>2, <1>3, <1>4, <2>2, AnalystKeeps
  <2> QED BY <2>1, <2>2 DEF Workers
<1>5. ASSUME NEW w \in Workers, Die(w) PROVE FALSE
  BY <1>1, <1>5 DEF Die, Undisturbed, Alone, Whole, Steady, Course
<1>6. CASE UNCHANGED vars
  <2>1. UNCHANGED <<bytes, doc, parses, stage, todo, manifest, queue, failed, suspects,
                    verdict, promised, changes, seen, phase, file, sha>>
    BY <1>6 DEF vars, disk, yaml, rehash, course, request, outside
  <2>2. Bystanders' /\ (Whole' => Busy')
    BY <1>3, <2>1 DEF CaseInv, Quiet, Bystanders, Kept, Busy, Listed, Book
  <2> QED BY <1>1, <1>2, <1>3, <2>1, <2>2, Unmoved
<1> QED
  BY <1>1, <1>2, <1>3, <1>4, <1>5, <1>6, RunKeeps, CallKeeps, RehashKeeps, ChangeKeeps DEF Next

LEMMA CaseAtStart == Init => CaseInv
<1> SUFFICES ASSUME Init PROVE CaseInv
  OBVIOUS
<1>1. Cli \in Workers /\ \A a \in Analysts : a \in Workers
  BY DEF Workers
<1>2. phase[Cli] = "idle" /\ Book = <<>> /\ \A a \in Analysts : phase[a] = "idle"
  BY <1>1 DEF Init, Book
<1>3. Course
  BY <1>2 DEF Init, Course
<1>4. Quiet
  BY <1>1, <1>2 DEF Init, Quiet, Bystanders, Copied, Booked, Past, Dated, Told
<1>5. Kept
  BY <1>2 DEF Init, Kept, Present, Once, New, Tried, Busy, Held, Gone
<1> QED BY <1>3, <1>4, <1>5, ModesAtStart DEF CaseInv

\* While nothing but contents changes from outside, and every file in the folder
\* is one the scan recognises, any number of analysts may register any of them at
\* once: none gets a second entry, and what the run lists keeps its id.
THEOREM ManifestStays ==
  ASSUME Scanned = Files
  PROVE  Spec => []ManifestHolds
<1>1. CaseInv => ManifestHolds
  <2> SUFFICES ASSUME CaseInv, Steady PROVE ManifestHolds
    BY DEF ManifestHolds
  <2>1. Whole /\ Undisturbed
    BY DEF Whole, Undisturbed
  <2>2. \A j, k \in DOMAIN doc : doc[j].file = doc[k].file => j = k
    BY <2>1 DEF CaseInv, Quiet, Copied, Kept, Once, Book
  <2>3. stage \in {"analyze", "verify"} => Book = doc
    BY DEF CaseInv, Course, Book
  <2> QED BY <2>1, <2>2, <2>3 DEF CaseInv, Kept, Held, ManifestHolds
<1>2. CaseInv /\ [Next]_vars => CaseInv'
  BY CaseStays
<1> QED BY <1>1, <1>2, CaseAtStart, PTL DEF Spec

\* With no analyst registering and no process dying, whatever else is done to
\* the files: a run ends trusted only if no registered file had changed.
THEOREM LoneRunTells == Spec => [](Alone /\ verdict = "trusted" => suspects = {})
<1>1. CaseInv => (Alone /\ verdict = "trusted" => suspects = {})
  BY DEF CaseInv, Undisturbed, Quiet, Told
<1>2. CaseInv /\ [Next]_vars => CaseInv'
  BY CaseStays
<1> QED BY <1>1, <1>2, CaseAtStart, PTL DEF Spec

\* The same with analysts who register at once, as long as every file in the
\* folder is one the scan recognises and no mode is changed, no file removed.
THEOREM ChangeTells ==
  ASSUME Scanned = Files
  PROVE  Spec => []ChangeIsFatal
<1>1. CaseInv => ChangeIsFatal
  BY DEF CaseInv, Whole, Undisturbed, Quiet, Told, ChangeIsFatal
<1>2. CaseInv /\ [Next]_vars => CaseInv'
  BY CaseStays
<1> QED BY <1>1, <1>2, CaseAtStart, PTL DEF Spec

-----------------------------------------------------------------------------
(* The types. *)

\* No file, entry or digest is newer than the last change; no id is one nobody
\* minted; and the run registers nothing but what its scan found.
RangesInv ==
  /\ TypeOK /\ ids \in Nat /\ changes \in Nat
  /\ phase[Cli] # "idle" => file[Cli] \in Scanned

LEMMA RangeGrows ==
  ASSUME NEW a \in Nat, NEW b \in Nat, a <= b, NEW n \in 0..(a + 1)
  PROVE  n \in 0..(b + 1)
  OBVIOUS

\* Entries stay entries while ids and changes are counted.
LEMMA EntriesStay ==
  ASSUME ids \in Nat, changes \in Nat, ids' \in Nat, changes' \in Nat,
         ids <= ids', changes <= changes'
  PROVE  /\ \A s \in Seq(Entries) : s \in Seq(Entries')
         /\ \A n \in 0..(changes + 1) : n \in 0..(changes' + 1)
<1>1. \A e \in Entries : e \in Entries'
  BY DEF Entries
<1>2. ASSUME NEW s \in Seq(Entries) PROVE s \in Seq(Entries')
  <2>1. \A k \in 1..Len(s) : s[k] \in Entries
    OBVIOUS
  <2> QED BY <1>1, <2>1
<1>3. ASSUME NEW n \in 0..(changes + 1) PROVE n \in 0..(changes' + 1)
  BY RangeGrows
<1> QED BY <1>2, <1>3

LEMMA RangesAtStart == Init => RangesInv
<1> SUFFICES ASSUME Init PROVE RangesInv
  OBVIOUS
<1>1. Cli \in Workers
  BY DEF Workers
<1>2. <<>> \in Seq(Entries)
  OBVIOUS
<1> QED BY <1>1, <1>2 DEF Init, RangesInv, TypeOK

\* A call moves on with the argument it has, and only one that has begun moves.
LEMMA ExitKeeps ==
  ASSUME RangesInv, NEW w \in Workers, NEW p \in {"idle", "load", "compare", "hash", "chmod", "open", "write"},
         Goto(w, p), p # "idle" => phase[w] # "idle", file' = file
  PROVE  /\ phase' \in [Workers -> {"idle", "load", "compare", "hash", "chmod", "open", "write"}]
         /\ phase'[Cli] # "idle" => file'[Cli] \in Scanned
<1>1. Cli \in Workers
  BY DEF Workers
<1> QED BY <1>1 DEF RangesInv, TypeOK, Goto

\* A call that ends lists at most a record of its own file.
LEMMA ReturnKeeps ==
  ASSUME RangesInv, NEW w \in Workers, NEW id \in 1..ids', Return(w, id), phase[w] # "idle",
         ids' \in Nat, ids <= ids'
  PROVE  manifest' \subseteq [file : Scanned, id : 1..ids'] /\ stage' = stage
<1>1. \A m \in manifest : m \in [file : Scanned, id : 1..ids']
  BY DEF RangesInv, TypeOK
<1>2. w = Cli => [file |-> file[w], id |-> id] \in [file : Scanned, id : 1..ids']
  BY DEF RangesInv
<1> QED BY <1>1, <1>2 DEF Return

LEMMA RegisterRanges ==
  ASSUME RangesInv, NEW w \in Workers, Register(w)
  PROVE  RangesInv'
<1> USE DEF RangesInv, TypeOK
<1>1. Cli \in Workers /\ file[w] \in Files
  BY DEF Workers
<1>2. CASE Load(w)
  <2>1. Entries' = Entries /\ ids' = ids /\ changes' = changes
    BY <1>2 DEF Load, Entries, outside
  <2>2. seen' \in [Workers -> Seq(Entries)]
    BY <1>2 DEF Load
  <2>3. stage' \in {stage, "off"} /\ manifest' = manifest /\ phase[w] # "idle"
    BY <1>2 DEF Load, Raise, RaiseYaml
  <2>4. \E p \in {"idle", "compare", "hash"} : Goto(w, p)
    BY <1>2 DEF Load, Raise, RaiseYaml
  <2>5. /\ phase' \in [Workers -> {"idle", "load", "compare", "hash", "chmod", "open", "write"}]
        /\ phase'[Cli] # "idle" => file'[Cli] \in Scanned
    BY <1>2, <2>3, <2>4, ExitKeeps DEF Load
  <2> QED BY <1>2, <2>1, <2>2, <2>3, <2>5 DEF Load, disk, yaml, rehash, outside
<1>3. CASE Compare(w)
  <2>1. Entries' = Entries /\ ids' = ids /\ changes' = changes /\ phase[w] # "idle"
    BY <1>3 DEF Compare, Entries, outside
  <2>2. PICK e \in Existing(seen[w], file[w]) : Return(w, e.id) \/ Reject(w) \/ Raise(w)
    BY <1>3 DEF Compare
  <2>3. e.id \in 1..ids
    <3>1. PICK k \in DOMAIN seen[w] : e = seen[w][k] /\ e.id # Cut
      BY <2>2 DEF Existing
    <3>2. seen[w][k] \in Entries
      BY <3>1
    <3> QED BY <3>1, <3>2 DEF Entries, Cut
  <2>4. manifest' \subseteq [file : Scanned, id : 1..ids'] /\ stage' = stage
    BY <2>1, <2>2, <2>3, ReturnKeeps DEF Reject, Raise
  <2>5. /\ phase' \in [Workers -> {"idle", "load", "compare", "hash", "chmod", "open", "write"}]
        /\ phase'[Cli] # "idle" => file'[Cli] \in Scanned
    BY <1>3, <2>2, ExitKeeps DEF Compare, Return, Reject, Raise, request
  <2> QED BY <1>3, <2>1, <2>4, <2>5 DEF Compare, disk, yaml, rehash, request, outside
<1>4. CASE Hash(w) \/ Chmod(w) \/ Open(w)
  <2>1. Entries' = Entries /\ ids' = ids /\ changes' = changes /\ phase[w] # "idle" /\ file' = file
    BY <1>4 DEF Hash, Chmod, Open, Entries, outside, request
  <2>2. stage' = stage /\ manifest' = manifest /\ todo' = todo
    BY <1>4 DEF Hash, Chmod, Open, Raise, course
  <2>3. sha' \in [Workers -> 0..(changes + 1)] /\ seen' = seen
    BY <1>1, <1>4 DEF Hash, Chmod, Open, request
  <2>4. readonly' \in [Files -> BOOLEAN] /\ bytes' = bytes
    BY <1>1, <1>4 DEF Hash, Chmod, Open, disk
  <2>5. doc' \in {doc, <<>>} /\ parses' \in {parses, TRUE} /\ queue' = queue /\ verdict' = verdict
    BY <1>4 DEF Hash, Chmod, Open, yaml, course, rehash
  <2>6. doc' \in Seq(Entries)
    <3>1. <<>> \in Seq(Entries)
      OBVIOUS
    <3> QED BY <2>5, <3>1
  <2>7. \E p \in {"idle", "chmod", "open", "write"} : Goto(w, p)
    BY <1>4 DEF Hash, Chmod, Open, Raise
  <2>8. /\ phase' \in [Workers -> {"idle", "load", "compare", "hash", "chmod", "open", "write"}]
        /\ phase'[Cli] # "idle" => file'[Cli] \in Scanned
    BY <2>1, <2>7, ExitKeeps
  <2> QED BY <2>1, <2>2, <2>3, <2>4, <2>5, <2>6, <2>8
<1>5. CASE Write(w)
  <2>1. ids' = ids + 1 /\ changes' = changes /\ phase[w] # "idle" /\ file' = file
    BY <1>5 DEF Write, outside, request
  <2>2. \A s \in Seq(Entries) : s \in Seq(Entries')
    BY <2>1, EntriesStay
  <2>3. NewEntry(w) \in Entries'
    BY <1>1, <2>1 DEF NewEntry, Entries
  <2>4. seen[w] \in Seq(Entries')
    BY <2>2
  <2>5. doc' \in Seq(Entries')
    BY <1>5, <2>3, <2>4 DEF Write, Rewritten
  <2>6. queue' \in Seq(Entries') /\ verdict' = verdict
    BY <1>5, <2>2 DEF Write, rehash
  <2>7. seen' \in [Workers -> Seq(Entries')] /\ sha' = sha
    <3>1. \A v \in Workers : seen[v] \in Seq(Entries')
      BY <2>2
    <3> QED BY <1>5, <3>1 DEF Write, request
  <2>8. manifest' \subseteq [file : Scanned, id : 1..ids'] /\ stage' = stage
    BY <1>5, <2>1, ReturnKeeps DEF Write
  <2>9. /\ phase' \in [Workers -> {"idle", "load", "compare", "hash", "chmod", "open", "write"}]
        /\ phase'[Cli] # "idle" => file'[Cli] \in Scanned
    BY <1>5, <2>1, ExitKeeps DEF Write, Return
  <2>10. disk' = disk /\ parses' \in BOOLEAN /\ todo' = todo
    BY <1>5 DEF Write
  <2> QED BY <2>1, <2>5, <2>6, <2>7, <2>8, <2>9, <2>10 DEF disk
<1> QED BY <1>2, <1>3, <1>4, <1>5 DEF Register

\* What a death in the middle of a write leaves are entries too: those before the
\* one that was cut, and what had arrived of it, without its id.
LEMMA CutsAreEntries ==
  ASSUME NEW s \in Seq(Entries), NEW f \in Files, NEW i, NEW d \in 0..(changes + 1),
         ids \in Nat, changes \in Nat
  PROVE  CutShort(Append(s, [file |-> f, id |-> i, digest |-> d])) \subseteq Seq(Entries)
<1> DEFINE e == [file |-> f, id |-> i, digest |-> d]
           t == Append(s, e)
<1>1. ASSUME NEW k \in 0..(Len(t) - 1)
      PROVE  /\ SubSeq(t, 1, k) \in Seq(Entries) /\ Len(SubSeq(t, 1, k)) = k
             /\ t[k + 1].file \in Files \cup {NoFile} /\ t[k + 1].digest \in 0..(changes + 1)
  <2>1. t = Append(s, e) /\ Len(t) = Len(s) + 1 /\ k \in 0..Len(s)
    BY AppendProperties
  <2>2. SubSeq(s, 1, k) \in Seq(Entries) /\ Len(SubSeq(s, 1, k)) = k
    BY <2>1
  <2>3. SubSeq(t, 1, k) = SubSeq(s, 1, k)
    BY <2>1
  <2>4. \A j \in 1..Len(s) : t[j] = s[j] /\ s[j] \in Entries
    BY <2>1
  <2>5. k + 1 \in 1..Len(s) \/ t[k + 1] = e
    BY <2>1
  <2> QED BY <2>2, <2>3, <2>4, <2>5 DEF Entries
<1> HIDE DEF t
<1>2. ASSUME NEW k \in 0..(Len(t) - 1)
      PROVE  \A c \in CutEntries(t[k + 1]) : Append(SubSeq(t, 1, k), c) \in Seq(Entries)
  <2>1. \A c \in CutEntries(t[k + 1]) : c \in Entries
    BY <1>1 DEF CutEntries, Entries, Cut
  <2> QED BY <1>1, <2>1
<1>3. \A p \in Starts(t) : \E k \in 0..(Len(t) - 1) : p = SubSeq(t, 1, k)
  BY DEF Starts
<1>4. ASSUME NEW p \in Starts(t), NEW q \in {p} \cup {Append(p, c) : c \in CutEntries(t[Len(p) + 1])}
      PROVE  q \in Seq(Entries)
  <2>1. PICK k \in 0..(Len(t) - 1) : p = SubSeq(t, 1, k)
    BY <1>3
  <2>2. Len(p) = k /\ p \in Seq(Entries)
    BY <1>1, <2>1
  <2> QED BY <1>2, <2>1, <2>2
<1>5. CutShort(t) \subseteq Seq(Entries)
  BY <1>4 DEF CutShort
<1> QED BY <1>5 DEF t

LEMMA DieRanges ==
  ASSUME RangesInv, NEW w \in Workers, Die(w)
  PROVE  RangesInv'
<1> USE DEF RangesInv, TypeOK
<1>1. Cli \in Workers
  BY DEF Workers
<1>2. Entries' = Entries /\ ids' = ids /\ changes' = changes
  BY DEF Die, Entries
<1>3. parses' \in BOOLEAN /\ stage' \in {stage, "off"}
  BY DEF Die, yaml
<1>4. doc' \in Seq(Entries)
  <2>1. CASE UNCHANGED yaml
    BY <2>1 DEF yaml
  <2>2. CASE phase[w] = "write" /\ doc' \in CutShort(Rewritten(w))
    <3>1. seen[w] \in Seq(Entries) /\ file[w] \in Files /\ sha[w] \in 0..(changes + 1)
      OBVIOUS
    <3>2. CutShort(Rewritten(w)) \subseteq Seq(Entries)
      BY <3>1, CutsAreEntries DEF Rewritten, NewEntry
    <3> QED BY <2>2, <3>2
  <2> QED BY <2>1, <2>2 DEF Die
<1>5. phase' = [phase EXCEPT ![w] = "idle"]
  BY DEF Die, Goto
<1> QED BY <1>1, <1>2, <1>3, <1>4, <1>5 DEF Die, disk, rehash, request

\* The run and the analysts who call, and what happens to the files.
LEMMA RunRanges ==
  ASSUME RangesInv,
         \/ StartRun \/ RegisterNext \/ StartAnalysis \/ StartVerify \/ VerifyNext \/ EndRun
         \/ \E a \in Analysts : AnalystCalls(a)
  PROVE  RangesInv'
<1> USE DEF RangesInv, TypeOK
<1>1. Cli \in Workers /\ \A a \in Analysts : a \in Workers /\ a # Cli
  BY NamesAssumption DEF Workers
<1>2. Entries' = Entries /\ ids' = ids /\ changes' = changes
  BY DEF StartRun, RegisterNext, StartAnalysis, StartVerify, VerifyNext, EndRun, AnalystCalls,
         Begin, outside, Entries
<1>3. CASE StartRun
  BY <1>2, <1>3 DEF StartRun, disk, yaml, rehash, request
<1>4. CASE RegisterNext
  <2>1. PICK f \in todo : Begin(Cli, f) /\ todo' = todo \ {f}
    BY <1>4 DEF RegisterNext
  <2>2. f \in Scanned /\ f \in Files
    BY ScanAssumption
  <2> QED BY <1>1, <1>2, <1>4, <2>1, <2>2 DEF RegisterNext, Begin, Goto, disk, yaml, rehash
<1>5. CASE StartAnalysis
  BY <1>2, <1>5 DEF StartAnalysis, disk, yaml, rehash, request
<1>6. CASE StartVerify
  <2>1. queue' \in Seq(Entries)
    BY <1>6 DEF StartVerify
  <2> QED BY <1>2, <1>6, <2>1 DEF StartVerify, disk, yaml, request
<1>7. CASE VerifyNext
  <2>1. queue' \in Seq(Entries)
    BY <1>7 DEF VerifyNext
  <2> QED BY <1>2, <1>7, <2>1 DEF VerifyNext, disk, yaml, request
<1>8. CASE EndRun
  BY <1>2, <1>8 DEF EndRun, disk, yaml, request
<1>9. ASSUME NEW a \in Analysts, AnalystCalls(a) PROVE RangesInv'
  <2>1. PICK f \in Files : Begin(a, f)
    BY <1>9 DEF AnalystCalls
  <2> QED BY <1>1, <1>2, <1>9, <2>1 DEF AnalystCalls, Begin, Goto, disk, yaml, rehash
<1> QED BY <1>3, <1>4, <1>5, <1>6, <1>7, <1>8, <1>9

LEMMA OutsideRanges ==
  ASSUME RangesInv, NEW f \in Files, Change(f) \/ Remove(f) \/ Unlock(f)
  PROVE  RangesInv'
<1> USE DEF RangesInv, TypeOK
<1>1. CASE Change(f)
  <2>1. ids' = ids /\ changes' = changes + 1
    BY <1>1 DEF Change
  <2>2. /\ \A s \in Seq(Entries) : s \in Seq(Entries')
        /\ \A n \in 0..(changes + 1) : n \in 0..(changes' + 1)
    BY <2>1, EntriesStay
  <2>3. doc' \in Seq(Entries') /\ queue' \in Seq(Entries')
    BY <1>1, <2>2 DEF Change, yaml, course, rehash
  <2>4. seen' \in [Workers -> Seq(Entries')] /\ sha' \in [Workers -> 0..(changes' + 1)]
    <3>1. \A w \in Workers : seen[w] \in Seq(Entries') /\ sha[w] \in 0..(changes' + 1)
      BY <2>2
    <3> QED BY <1>1, <3>1 DEF Change, request
  <2>5. bytes' \in [Files -> 0..(changes' + 1)]
    BY <1>1, <2>1 DEF Change
  <2> QED BY <1>1, <2>1, <2>3, <2>4, <2>5 DEF Change, yaml, course, rehash, request
<1>2. CASE Remove(f) \/ Unlock(f)
  <2>1. Entries' = Entries /\ ids' = ids /\ changes' = changes
    BY <1>2 DEF Remove, Unlock, Entries
  <2>2. bytes' \in [Files -> 0..(changes + 1)] /\ readonly' \in [Files -> BOOLEAN]
    <3>1. 0 \in 0..(changes + 1)
      OBVIOUS
    <3>2. bytes' \in {bytes, [bytes EXCEPT ![f] = 0]}
      BY <1>2 DEF Remove, Unlock, Gone
    <3>3. readonly' \in {readonly, [readonly EXCEPT ![f] = FALSE]}
      BY <1>2 DEF Remove, Unlock
    <3>4. bytes \in [Files -> 0..(changes + 1)] /\ readonly \in [Files -> BOOLEAN]
      OBVIOUS
    <3> HIDE DEF RangesInv, TypeOK
    <3>5. [bytes EXCEPT ![f] = 0] \in [Files -> 0..(changes + 1)]
      BY <3>1, <3>4
    <3>6. [readonly EXCEPT ![f] = FALSE] \in [Files -> BOOLEAN]
      BY <3>4
    <3> QED BY <3>2, <3>3, <3>4, <3>5, <3>6
  <2> QED BY <1>2, <2>1, <2>2 DEF Remove, Unlock, yaml, course, rehash, request
<1> QED BY <1>1, <1>2

\* Every variable keeps its type: no entry names a digest from the future or an id
\* nobody minted, what a crash cut short included, the manifest holds nothing but
\* scanned files, and no analysis starts while one of them has not been tried.
THEOREM TypeCorrect == Spec => []TypeOK
<1>1. RangesInv /\ [Next]_vars => RangesInv'
  <2> SUFFICES ASSUME RangesInv, [Next]_vars PROVE RangesInv'
    OBVIOUS
  <2>1. CASE UNCHANGED vars
    BY <2>1 DEF RangesInv, TypeOK, Entries, vars, disk, yaml, course, rehash, request, outside
  <2>2. CASE Next
    BY <2>2, RegisterRanges, DieRanges, RunRanges, OutsideRanges DEF Next
  <2> QED BY <2>1, <2>2
<1>2. RangesInv => TypeOK
  BY DEF RangesInv
<1> QED BY <1>1, <1>2, RangesAtStart, PTL DEF Spec
=============================================================================
