------------------------ MODULE RecordQueriesProofs ------------------------
(* Proofs about the analytical tools, for any extractions and any calls of  *)
(* the kinds that CasesAssumption and CallsAssumption name: text of the     *)
(* evidence is marked, a client that follows "truncated" misses no record,  *)
(* and the counts of a difference and of groups add up.                     *)
(*                                                                          *)
(* The tools select and rank with CHOOSE; the first part shows that what    *)
(* they choose exists and is the one list in that order.                    *)
EXTENDS RecordQueries, FiniteSetTheorems, FunctionTheorems, SequenceTheorems, TLAPS

\* S is a chain: upto[x] is x and what precedes it, and of two elements one
\* precedes the other.
IsChain(S, upto) ==
  /\ IsFiniteSet(S)
  /\ \A x \in S : x \in upto[x] /\ upto[x] \subseteq S
  /\ \A x, y \in S : x # y =>
       \/ upto[x] \subseteq upto[y] /\ y \notin upto[x]
       \/ upto[y] \subseteq upto[x] /\ x \notin upto[y]

\* Ranked lists every element of a chain once, at the place that is its rank.
LEMMA RankedLists ==
  ASSUME NEW S, NEW upto, IsChain(S, upto)
  PROVE  /\ Cardinality(S) \in Nat
         /\ Ranked(S, upto) \in [1 .. Cardinality(S) -> S]
         /\ \A k \in 1 .. Cardinality(S) : Cardinality(upto[Ranked(S, upto)[k]]) = k
         /\ \A x \in S : /\ Cardinality(upto[x]) \in 1 .. Cardinality(S)
                         /\ Ranked(S, upto)[Cardinality(upto[x])] = x
<1> DEFINE n == Cardinality(S)
           rank == [x \in S |-> Cardinality(upto[x])]
<1>1. n \in Nat
  BY FS_CardinalityType DEF IsChain
<1>2. \A x \in S : rank[x] \in 1 .. n
  <2> SUFFICES ASSUME NEW x \in S PROVE rank[x] \in 1 .. n
    OBVIOUS
  <2>1. IsFiniteSet(upto[x]) /\ Cardinality(upto[x]) <= n
    BY FS_Subset DEF IsChain
  <2>2. Cardinality(upto[x]) \in Nat /\ Cardinality(upto[x]) # 0
    BY <2>1, FS_CardinalityType, FS_EmptySet DEF IsChain
  <2>3. QED
    BY <1>1, <2>1, <2>2
<1>3. \A x, y \in S : rank[x] = rank[y] => x = y
  <2> SUFFICES ASSUME NEW x \in S, NEW y \in S, x # y,
                      upto[x] \subseteq upto[y], y \notin upto[x]
               PROVE  Cardinality(upto[x]) # Cardinality(upto[y])
    BY DEF IsChain
  <2>1. IsFiniteSet(upto[y]) /\ y \in upto[y]
    BY FS_Subset DEF IsChain
  <2>2. Cardinality(upto[y]) = Cardinality(upto[x]) => upto[y] = upto[x]
    BY <2>1, FS_Subset
  <2>3. QED
    BY <2>1, <2>2
<1>4. rank \in Injection(S, 1 .. n)
  BY <1>2, <1>3 DEF Injection, IsInjective
<1>5. IsFiniteSet(1 .. n) /\ Cardinality(1 .. n) = n
  BY <1>1, FS_Interval
<1>6. rank \in Surjection(S, 1 .. n)
  BY <1>4, <1>5, FS_Injection
<1>7. ASSUME NEW k \in 1 .. n
      PROVE  /\ Ranked(S, upto)[k] \in S
             /\ Cardinality(upto[Ranked(S, upto)[k]]) = k
  <2>1. \E x \in S : Cardinality(upto[x]) = k
    BY <1>6 DEF Surjection
  <2>2. QED
    BY <2>1 DEF Ranked
<1>8. Ranked(S, upto) \in [1 .. n -> S]
  BY <1>7 DEF Ranked
<1>9. ASSUME NEW x \in S
      PROVE  /\ Cardinality(upto[x]) \in 1 .. n
             /\ Ranked(S, upto)[Cardinality(upto[x])] = x
  BY <1>2, <1>3, <1>7
<1>10. QED
  BY <1>1, <1>7, <1>8, <1>9

\* Integers in their order are a chain.
LEMMA AscendingChain ==
  ASSUME NEW S \in SUBSET Int, IsFiniteSet(S)
  PROVE  IsChain(S, [x \in S |-> {y \in S : y <= x}])
<1> DEFINE upto == [x \in S |-> {y \in S : y <= x}]
<1>1. /\ \A x \in S : x \in Int /\ upto[x] \subseteq S
      /\ \A x, y \in S : y \in upto[x] <=> y <= x
  OBVIOUS
<1> HIDE DEF upto
<1>2. \A x \in S : x \in upto[x]
  BY <1>1
<1>3. ASSUME NEW x \in S, NEW y \in S, x < y
      PROVE  upto[x] \subseteq upto[y] /\ y \notin upto[x]
  <2>1. \A z \in upto[x] : z \in S /\ z \in Int /\ z <= x
    BY <1>1
  <2>2. \A z \in upto[x] : z \in upto[y]
    BY <1>1, <1>3, <2>1
  <2>3. x \in Int /\ y \in Int
    BY <1>1
  <2>4. ~ (y <= x)
    BY <1>3, <2>3
  <2>5. QED
    BY <1>1, <2>2, <2>4
<1>4. ASSUME NEW x \in S, NEW y \in S, x # y
      PROVE  x < y \/ y < x
  <2>1. x \in Int /\ y \in Int
    BY <1>1
  <2>2. QED
    BY <1>4, <2>1
<1>5. IsChain(S, upto)
  BY <1>1, <1>2, <1>3, <1>4 DEF IsChain
<1>6. QED
  BY <1>5 DEF upto

\* Ascending lists a finite set of integers in their order.
LEMMA AscendingLists ==
  ASSUME NEW S \in SUBSET Int, IsFiniteSet(S)
  PROVE  /\ Cardinality(S) \in Nat
         /\ Ascending(S) \in Bijection(1 .. Cardinality(S), S)
         /\ \A i, j \in 1 .. Cardinality(S) : i < j => Ascending(S)[i] < Ascending(S)[j]
<1> DEFINE upto == [x \in S |-> {y \in S : y <= x}]
           n == Cardinality(S)
           A == Ascending(S)
<1>1. /\ \A x \in S : x \in Int /\ upto[x] \subseteq S
      /\ \A x, y \in S : y \in upto[x] <=> y <= x
  OBVIOUS
<1>2. A = Ranked(S, upto) /\ IsChain(S, upto)
  BY AscendingChain DEF Ascending
<1> HIDE DEF upto, A
<1>3. /\ n \in Nat /\ A \in [1 .. n -> S]
      /\ \A k \in 1 .. n : Cardinality(upto[A[k]]) = k
      /\ \A x \in S : Cardinality(upto[x]) \in 1 .. n /\ A[Cardinality(upto[x])] = x
  BY <1>2, RankedLists
<1>4. \A i, j \in 1 .. n : A[i] = A[j] => i = j
  BY <1>3
<1>5. A \in Bijection(1 .. n, S)
  BY <1>3, <1>4 DEF Bijection, Injection, IsInjective, Surjection
<1>6. ASSUME NEW i \in 1 .. n, NEW j \in 1 .. n, i < j, ~ (A[i] < A[j])
      PROVE  FALSE
  <2>1. A[i] \in S /\ A[j] \in S /\ A[i] \in Int /\ A[j] \in Int
    BY <1>1, <1>3
  <2>2. upto[A[j]] \subseteq upto[A[i]]
    <3>1. \A z \in upto[A[j]] : z \in S /\ z \in Int /\ z <= A[j]
      BY <1>1, <2>1
    <3>2. A[j] <= A[i]
      BY <1>6, <2>1
    <3>3. QED
      BY <1>1, <2>1, <3>1, <3>2
  <2>3. IsFiniteSet(upto[A[i]])
    BY <1>2, <2>1, FS_Subset DEF IsChain
  <2>4. Cardinality(upto[A[j]]) <= Cardinality(upto[A[i]])
    BY <2>2, <2>3, FS_Subset
  <2>5. QED
    BY <1>3, <1>6, <2>4
<1>7. QED
  BY <1>3, <1>5, <1>6 DEF A

\* The least of finitely many integers.
LEMMA LeastPlace ==
  ASSUME NEW S \in SUBSET Int, IsFiniteSet(S), S # {}
  PROVE  \E i \in S : \A j \in S : i <= j
<1>1. Cardinality(S) \in Nat /\ Cardinality(S) # 0
  BY FS_CardinalityType, FS_EmptySet
<1>2. \A j \in S : \E k \in 1 .. Cardinality(S) : j = Ascending(S)[k]
  BY AscendingLists DEF Bijection, Surjection
<1>3. Ascending(S)[1] \in S
  BY <1>1, AscendingLists DEF Bijection, Injection
<1>4. \A k \in 1 .. Cardinality(S) : k # 1 => Ascending(S)[1] < Ascending(S)[k]
  BY <1>1, AscendingLists
<1>5. ASSUME NEW j \in S PROVE Ascending(S)[1] <= j
  <2>1. PICK k \in 1 .. Cardinality(S) : j = Ascending(S)[k]
    BY <1>2
  <2>2. Ascending(S)[1] \in Int /\ j \in Int
    BY <1>3
  <2>3. k # 1 => Ascending(S)[1] < j
    BY <1>4, <2>1
  <2>4. QED
    BY <2>1, <2>2, <2>3
<1>6. QED
  BY <1>3, <1>5

\* Select keeps the elements at the given places, each once.
LEMMA SelectKeeps ==
  ASSUME NEW s, NEW places \in SUBSET Int, IsFiniteSet(places),
         NEW T, \A i \in places : s[i] \in T
  PROVE  /\ Cardinality(places) \in Nat
         /\ Select(s, places) \in Seq(T)
         /\ Len(Select(s, places)) = Cardinality(places)
         /\ \A k \in 1 .. Cardinality(places) :
              /\ Ascending(places)[k] \in places
              /\ Select(s, places)[k] = s[Ascending(places)[k]]
<1>1. Cardinality(places) \in Nat /\ Ascending(places) \in [1 .. Cardinality(places) -> places]
  BY AscendingLists DEF Bijection, Injection
<1>2. Select(s, places) = [k \in 1 .. Cardinality(places) |-> s[Ascending(places)[k]]]
  BY <1>1 DEF Select
<1>3. \A k \in 1 .. Cardinality(places) :
        Ascending(places)[k] \in places /\ s[Ascending(places)[k]] \in T
  BY <1>1
<1> HIDE DEF Select
<1>4. Select(s, places) \in [1 .. Cardinality(places) -> T]
  BY <1>2, <1>3
<1>5. Select(s, places) \in Seq(T)
  BY <1>1, <1>4, SeqDef
<1>6. Len(Select(s, places)) = Cardinality(places)
  BY <1>1, <1>4, <1>5, LenProperties
<1>7. QED
  BY <1>1, <1>2, <1>3, <1>5, <1>6

----------------------------------------------------------------------------
\* Records, selections and gates.

\* A sequence is a list of its own elements.
LEMMA ListedAlone ==
  ASSUME NEW T, NEW s \in Seq(T)
  PROVE  Listed(s) /\ Len(s) \in Nat /\ DOMAIN s = 1 .. Len(s)
<1>1. Len(s) \in Nat /\ s \in [1 .. Len(s) -> T] /\ DOMAIN s = 1 .. Len(s)
  BY LenProperties
<1>2. s \in [1 .. Len(s) -> Range(s)]
  BY <1>1 DEF Range
<1>3. QED
  BY <1>1, <1>2, SeqDef DEF Listed

\* What a list is made of.
LEMMA ListedLength ==
  ASSUME NEW s, Listed(s)
  PROVE  /\ Len(s) \in Nat /\ DOMAIN s = 1 .. Len(s)
         /\ \A i \in DOMAIN s : s[i] \in Range(s)
BY LenProperties DEF Listed, Range

\* The places of a list at which something holds are finitely many integers.
LEMMA PlacesFinite ==
  ASSUME NEW s, Listed(s), NEW places \in SUBSET DOMAIN s
  PROVE  IsFiniteSet(places) /\ places \in SUBSET Int /\ IsFiniteSet(DOMAIN s)
<1>1. Len(s) \in Nat /\ DOMAIN s = 1 .. Len(s)
  BY ListedLength
<1>2. IsFiniteSet(DOMAIN s) /\ DOMAIN s \subseteq Int
  BY <1>1, FS_Interval
<1>3. QED
  BY <1>2, FS_Subset

\* What there are records of.
Plugins == Flat \cup {Tree}

\* The records of a plugin are a list, each with the columns of the plugin.
LEMMA RecordsListed ==
  ASSUME case \in Cases, NEW p \in Plugins
  PROVE  /\ Listed(RecordsOf(p))
         /\ \A r \in Range(RecordsOf(p)) : DOMAIN r = Fields[p]
<1>1. CASE p # Tree
  <2>1. RecordsOf(p) = case.rows[p] /\ p \in Flat
    BY <1>1 DEF RecordsOf, Plugins
  <2>2. QED
    BY <2>1, CasesAssumption
<1>2. CASE p = Tree
  <2> DEFINE order == Flattened(case)
             rows == case.rows[Tree]
  <2>1. /\ order \in Seq(DOMAIN rows)
        /\ \A r \in Range(rows) : DOMAIN r = Fields[Tree]
    BY CasesAssumption
  <2>2. RecordsOf(p) = [i \in DOMAIN order |-> rows[order[i]]]
    BY <1>2 DEF RecordsOf
  <2> HIDE DEF order, rows
  <2>3. Len(order) \in Nat /\ DOMAIN order = 1 .. Len(order) /\ order \in [1 .. Len(order) -> DOMAIN rows]
    BY <2>1, LenProperties
  <2>4. \A i \in 1 .. Len(order) : rows[order[i]] \in Range(rows)
    BY <2>3 DEF Range
  <2>5. RecordsOf(p) \in [1 .. Len(order) -> Range(rows)]
    BY <2>2, <2>3, <2>4
  <2>6. RecordsOf(p) \in Seq(Range(rows))
    BY <2>3, <2>5, SeqDef
  <2>7. Range(RecordsOf(p)) \subseteq Range(rows)
    BY <2>5 DEF Range
  <2>8. QED
    BY <1>2, <2>1, <2>6, <2>7, ListedAlone
<1>3. QED
  BY <1>1, <1>2

\* So is what the filters let through.
LEMMA MatchesListed ==
  ASSUME case \in Cases, NEW p \in Plugins, NEW fs
  PROVE  /\ Listed(Matched(p, fs))
         /\ IsFiniteSet(Hits(p, fs)) /\ Hits(p, fs) \in SUBSET Int
         /\ Len(Matched(p, fs)) = Cardinality(Hits(p, fs))
         /\ \A i \in DOMAIN Matched(p, fs) : DOMAIN Matched(p, fs)[i] = Fields[p]
<1> DEFINE all == RecordsOf(p)
           places == Hits(p, fs)
<1>1. Listed(all) /\ \A r \in Range(all) : DOMAIN r = Fields[p]
  BY RecordsListed
<1>2. places \in SUBSET DOMAIN all
  BY DEF Hits
<1>3. Matched(p, fs) = Select(all, places)
  BY DEF Matched
<1> HIDE DEF all, places
<1>4. IsFiniteSet(places) /\ places \in SUBSET Int
  BY <1>1, <1>2, PlacesFinite
<1>5. \A i \in places : all[i] \in Range(all)
  BY <1>1, <1>2, ListedLength
<1>6. Select(all, places) \in Seq(Range(all)) /\ Len(Select(all, places)) = Cardinality(places)
  BY <1>4, <1>5, SelectKeeps
<1>7. \A i \in DOMAIN Select(all, places) : Select(all, places)[i] \in Range(all)
  BY <1>6, LenProperties
<1>8. QED
  BY <1>1, <1>3, <1>4, <1>6, <1>7, ListedAlone DEF places

\* The columns of an answer are columns of the plugin.
LEMMA ColumnsKnown ==
  ASSUME NEW call, Listed(call.fields)
  PROVE  Columns(call) \in Seq(Fields[call.plugin])
<1> DEFINE ns == CanonicalNames(call.plugin, call.fields)
           places == {i \in DOMAIN ns : ns[i] \in Fields[call.plugin]}
<1>1. places \in SUBSET DOMAIN call.fields
  BY DEF CanonicalNames
<1>2. Columns(call) = Select(ns, places)
  BY DEF Columns, Known
<1>3. \A i \in places : ns[i] \in Fields[call.plugin]
  OBVIOUS
<1> HIDE DEF ns, places
<1>4. IsFiniteSet(places) /\ places \in SUBSET Int
  BY <1>1, PlacesFinite
<1>5. QED
  BY <1>2, <1>3, <1>4, SelectKeeps

\* A projection on columns of the plugin shows the values of the record.
LEMMA ProjectionShows ==
  ASSUME NEW p, NEW ns \in Seq(Fields[p]), NEW r, DOMAIN r = Fields[p],
         NEW f \in DOMAIN Project(r, ns)
  PROVE  Project(r, ns)[f] = r[f]
<1>1. \A g \in Range(ns) : g \in Fields[p]
  BY LenProperties DEF Range
<1>2. QED
  BY <1>1 DEF Project

\* Every gate has a reason of its own to refuse a call for.
Reasoned(gates) == \A i \in DOMAIN gates : gates[i].reason # "none"

\* A call that took such gates failed none of them.
LEMMA GatesTaken ==
  ASSUME NEW gates, Listed(gates), Reasoned(gates), FirstFailing(gates) = "none"
  PROVE  \A i \in DOMAIN gates : ~ gates[i].fails
<1> DEFINE bad == {i \in DOMAIN gates : gates[i].fails}
<1>1. IsFiniteSet(bad) /\ bad \in SUBSET Int
  BY PlacesFinite
<1>2. ASSUME bad # {} PROVE FALSE
  <2>1. (CHOOSE i \in bad : \A j \in bad : i <= j) \in bad
    BY <1>1, <1>2, LeastPlace
  <2>2. QED
    BY <1>2, <2>1 DEF FirstFailing, Reasoned
<1>3. QED
  BY <1>2

\* Two lists one after the other.
LEMMA ListsJoined ==
  ASSUME NEW s, NEW t, Listed(s), Listed(t)
  PROVE  /\ Listed(s \o t) /\ Len(s \o t) = Len(s) + Len(t)
         /\ \A i \in DOMAIN (s \o t) :
              /\ i \in 1 .. Len(s) + Len(t)
              /\ i <= Len(s) => i \in DOMAIN s /\ (s \o t)[i] = s[i]
              /\ i > Len(s) => i - Len(s) \in DOMAIN t /\ (s \o t)[i] = t[i - Len(s)]
<1> DEFINE T == Range(s) \cup Range(t)
<1>1. s \in Seq(T) /\ t \in Seq(T)
  BY SeqMonotonic DEF Listed
<1> HIDE DEF T
<1>2. /\ s \o t \in Seq(T) /\ Len(s \o t) = Len(s) + Len(t)
      /\ \A i \in 1 .. Len(s) + Len(t) :
            (s \o t)[i] = IF i <= Len(s) THEN s[i] ELSE t[i - Len(s)]
  BY <1>1, ConcatProperties
<1>3. /\ Len(s) \in Nat /\ DOMAIN s = 1 .. Len(s)
      /\ Len(t) \in Nat /\ DOMAIN t = 1 .. Len(t)
      /\ Listed(s \o t) /\ DOMAIN (s \o t) = 1 .. Len(s \o t)
  BY <1>2, ListedAlone, ListedLength
<1>4. QED
  BY <1>2, <1>3

----------------------------------------------------------------------------
\* The pages.

\* Calls as the types of query_records let them through.
Readable(call) ==
  /\ call.plugin \in Plugins /\ Listed(call.fields)
  /\ call.limit \in Int /\ call.offset \in Int
  /\ {"plugin", "filters", "fields", "limit", "offset"} \subseteq DOMAIN call

\* What is left of a gate that was taken.
LEMMA GateFields ==
  ASSUME NEW fails, NEW reason
  PROVE  Gate(fails, reason).fails = fails /\ Gate(fails, reason).reason = reason
BY DEF Gate

\* The gates of a tool are taken after those of the evidence.
LEMMA ToolGatesTaken ==
  ASSUME NEW call, NEW gates, Listed(gates), Reasoned(gates),
         FirstFailing(EvidenceGates(call) \o gates) = "none"
  PROVE  \A i \in DOMAIN gates : ~ gates[i].fails
<1> DEFINE a == Gate(~ call.inScope, "evidence_id_out_of_scope")
           b == Gate(~ call.registered, "evidence_not_found")
           first == <<a, b>>
           all == first \o gates
<1>1. EvidenceGates(call) = first
  BY Zenon DEF EvidenceGates
<1>2. a.reason # "none" /\ b.reason # "none"
  BY GateFields
<1> HIDE DEF a, b
<1>3. /\ first \in Seq({a, b}) /\ Len(first) = 2 /\ DOMAIN first = 1 .. 2
      /\ \A i \in DOMAIN first : first[i].reason # "none"
  BY <1>2
<1> HIDE DEF first, all
<1>4. Listed(first)
  BY <1>3, ListedAlone
<1>5. /\ Listed(all) /\ Len(all) = 2 + Len(gates)
      /\ \A i \in DOMAIN all :
           /\ i \in 1 .. 2 + Len(gates)
           /\ i <= 2 => i \in DOMAIN first /\ all[i] = first[i]
           /\ i > 2 => i - 2 \in DOMAIN gates /\ all[i] = gates[i - 2]
  <2>1. /\ Listed(all) /\ Len(all) = Len(first) + Len(gates)
        /\ \A i \in DOMAIN all :
             /\ i \in 1 .. Len(first) + Len(gates)
             /\ i <= Len(first) => i \in DOMAIN first /\ all[i] = first[i]
             /\ i > Len(first) => i - Len(first) \in DOMAIN gates /\ all[i] = gates[i - Len(first)]
    BY <1>4, ListsJoined DEF all
  <2>2. QED
    BY <1>3, <2>1
<1>6. Reasoned(all)
  BY <1>3, <1>5 DEF Reasoned
<1>7. \A i \in DOMAIN all : ~ all[i].fails
  BY <1>1, <1>5, <1>6, GatesTaken DEF all
<1>8. ASSUME NEW i \in DOMAIN gates
      PROVE  ~ gates[i].fails
  <2>1. Len(gates) \in Nat /\ i \in 1 .. Len(gates) /\ DOMAIN all = 1 .. Len(all)
    BY <1>5, ListedLength
  <2>2. i + 2 \in DOMAIN all /\ i + 2 > 2 /\ (i + 2) - 2 = i
    BY <1>5, <2>1
  <2>3. all[i + 2] = gates[i]
    BY <1>5, <2>2
  <2>4. QED
    BY <1>7, <2>2, <2>3
<1>9. QED
  BY <1>8

\* query_records answers no call with a number out of range,
LEMMA QueryGatesTaken ==
  ASSUME NEW call, FirstFailing(EvidenceGates(call) \o QueryGates(call)) = "none"
  PROVE  ~ (call.limit > QueryCap \/ call.limit < 0 \/ call.offset < 0)
<1> DEFINE over == call.limit > QueryCap \/ call.limit < 0 \/ call.offset < 0
           c == Gate(over, "limit_too_large")
           odd == Range(CanonicalFilters(call.plugin, call.filters)) # {} /\
                  \E f \in Range(CanonicalFilters(call.plugin, call.filters)) :
                      f.field \notin Fields[call.plugin]
           d == Gate(odd, "unknown_field")
<1>1. QueryGates(call) = <<c, d>>
  BY Zenon DEF QueryGates
<1> HIDE DEF over, odd
<1>2. c.reason # "none" /\ d.reason # "none"
  BY GateFields
<1>3. c.fails = over
  BY GateFields, Zenon
<1> HIDE DEF c, d
<1>4. <<c, d>> \in Seq({c, d}) /\ DOMAIN <<c, d>> = 1 .. 2 /\ <<c, d>>[1] = c
      /\ \A i \in 1 .. 2 : <<c, d>>[i].reason # "none"
  BY <1>2
<1>5. Listed(<<c, d>>)
  BY <1>4, ListedAlone
<1>6. \A i \in DOMAIN <<c, d>> : ~ <<c, d>>[i].fails
  BY <1>1, <1>4, <1>5, ToolGatesTaken DEF Reasoned
<1>7. ~ c.fails
  BY <1>4, <1>6
<1>8. QED
  BY <1>3, <1>7, Zenon DEF over

\* nor does set_difference, or one of an unknown direction.
LEMMA DifferenceGatesTaken ==
  ASSUME NEW call, FirstFailing(EvidenceGates(call) \o DifferenceGates(call)) = "none"
  PROVE  call.direction \in Directions /\ ~ (call.limit > DiffCap \/ call.limit < 0)
<1> DEFINE other == call.direction \notin Directions
           over == call.limit > DiffCap \/ call.limit < 0
           a == Gate(other, "invalid_key")
           b == Gate(call.a = call.b, "same_plugin")
           c == Gate(over, "limit_too_large")
           d == Gate(call.key \notin Fields[call.a] \cap Fields[call.b], "invalid_key")
<1>1. DifferenceGates(call) = <<a, b, c, d>>
  BY Zenon DEF DifferenceGates
<1> HIDE DEF other, over
<1>2. a.reason # "none" /\ b.reason # "none" /\ c.reason # "none" /\ d.reason # "none"
  BY GateFields
<1>3. a.fails = other /\ c.fails = over
  BY GateFields, Zenon
<1> HIDE DEF a, b, c, d
<1>4. /\ <<a, b, c, d>> \in Seq({a, b, c, d}) /\ DOMAIN <<a, b, c, d>> = 1 .. 4
      /\ <<a, b, c, d>>[1] = a /\ <<a, b, c, d>>[3] = c
      /\ \A i \in 1 .. 4 : <<a, b, c, d>>[i].reason # "none"
  BY <1>2
<1>5. Listed(<<a, b, c, d>>)
  BY <1>4, ListedAlone
<1>6. \A i \in DOMAIN <<a, b, c, d>> : ~ <<a, b, c, d>>[i].fails
  BY <1>1, <1>4, <1>5, ToolGatesTaken DEF Reasoned
<1>7. ~ a.fails /\ ~ c.fails
  BY <1>4, <1>6
<1>8. QED
  BY <1>3, <1>7, Zenon DEF over, other

----------------------------------------------------------------------------
\* What each call leaves behind: its own name and arguments, and the result
\* of its tool if it was answered, which takes all of its gates.
Left(tool, call, gates, result) ==
  /\ answer'.tool = tool /\ answer'.call = call
  /\ answer'.status = "ok" =>
       answer'.result = result /\ FirstFailing(EvidenceGates(call) \o gates) = "none"

\* A page of query_records.
LEMMA AskLeaves ==
  ASSUME NEW call, Ask(call)
  PROVE  Left("query_records", call, QueryGates(call), QueryResult(call))
BY DEF Ask, Serve, Left

\* An answer of group_by.
LEMMA GroupLeaves ==
  ASSUME NEW call, GroupBy(call)
  PROVE  Left("group_by", call, GroupGates(call), GroupResult(call))
BY DEF GroupBy, Serve, Left

\* An answer of set_difference.
LEMMA DifferenceLeaves ==
  ASSUME NEW call, SetDifference(call)
  PROVE  Left("set_difference", call, DifferenceGates(call), DifferenceResult(call))
BY DEF SetDifference, Serve, Left

\* An answer of subtree.
LEMMA SubtreeLeaves ==
  ASSUME NEW call, Subtree(call)
  PROVE  Left("subtree", call, SubtreeGates(call), SubtreeResult(call))
BY DEF Subtree, Serve, Left

----------------------------------------------------------------------------
\* The marks.

\* A projection shows no column of evidence text that Marks leaves out.
LEMMA ProjectionMarked ==
  ASSUME NEW p, NEW r, NEW ns, NEW f \in DOMAIN Project(r, ns) \cap Untrusted[p]
  PROVE  f \in Marks(p, ns)
<1>1. CASE ns = <<>>
  BY <1>1 DEF Marks
<1>2. CASE ns # <<>>
  BY <1>2 DEF Marks, Project
<1>3. QED
  BY <1>1, <1>2

\* What the rows of a difference are projected from, and what it marks.
LEMMA DifferenceShows ==
  ASSUME NEW call
  PROVE  /\ DifferenceResult(call).untrusted = Marks(Source(call), Projected(call))
         /\ \A r \in Range(DifferenceResult(call).rows) : \E x : r = Project(x, Projected(call))
BY Zenon DEF DifferenceResult, Range

\* The same of a subtree.
LEMMA SubtreeShows ==
  ASSUME NEW call
  PROVE  LET ns == Known(Tree, SubtreeNames(call))
         IN  /\ SubtreeResult(call).untrusted = Marks(Tree, ns)
             /\ \A r \in Range(SubtreeResult(call).rows) : \E x : r = Project(x, ns)
BY Zenon DEF SubtreeResult, Range

\* A page shows no unmarked text,
LEMMA AskMarked ==
  ASSUME NEW call, Ask(call)
  PROVE  UntrustedMarked'
<1> USE DEF Answered
<1> DEFINE ns == Columns(call)
<1>1. Left("query_records", call, QueryGates(call), QueryResult(call))
  BY AskLeaves
<1>2. SUFFICES ASSUME answer'.status = "ok",
                      NEW r \in Range(answer'.result.rows),
                      NEW f \in DOMAIN r \cap Untrusted[call.plugin]
               PROVE  f \in answer'.result.untrusted
  BY <1>1 DEF Left, UntrustedMarked, Given
<1>3. answer'.result.untrusted = Marks(call.plugin, ns)
  BY <1>1, <1>2 DEF Left, QueryResult, QueryMarks
<1>4. \E x : r = Project(x, ns)
  BY <1>1, <1>2 DEF Left, QueryResult, Range
<1>5. QED
  BY <1>3, <1>4, ProjectionMarked

\* nor does a difference that is not symmetric,
LEMMA DifferenceMarked ==
  ASSUME NEW call, SetDifference(call)
  PROVE  UntrustedMarked'
<1> USE DEF Answered
<1>1. Left("set_difference", call, DifferenceGates(call), DifferenceResult(call))
  BY DifferenceLeaves
<1>2. SUFFICES ASSUME answer'.status = "ok",
                      NEW r \in Range(answer'.result.rows),
                      NEW f \in DOMAIN r \cap Untrusted[Source(call)]
               PROVE  f \in answer'.result.untrusted
  BY <1>1 DEF Left, UntrustedMarked, Given
<1>3. answer'.result.untrusted = Marks(Source(call), Projected(call))
  BY <1>1, <1>2, DifferenceShows DEF Left
<1>4. \E x : r = Project(x, Projected(call))
  BY <1>1, <1>2, DifferenceShows DEF Left
<1>5. QED
  BY <1>3, <1>4, ProjectionMarked

\* nor a subtree,
LEMMA SubtreeMarked ==
  ASSUME NEW call, Subtree(call)
  PROVE  UntrustedMarked'
<1> USE DEF Answered
<1> DEFINE ns == Known(Tree, SubtreeNames(call))
<1>1. Left("subtree", call, SubtreeGates(call), SubtreeResult(call))
  BY SubtreeLeaves
<1>2. SUFFICES ASSUME answer'.status = "ok",
                      NEW r \in Range(answer'.result.rows),
                      NEW f \in DOMAIN r \cap Untrusted[Tree]
               PROVE  f \in answer'.result.untrusted
  BY <1>1 DEF Left, UntrustedMarked, Given
<1>3. answer'.result.untrusted = Marks(Tree, ns)
  BY <1>1, <1>2, SubtreeShows DEF Left
<1>4. \E x : r = Project(x, ns)
  BY <1>1, <1>2, SubtreeShows DEF Left
<1>5. QED
  BY <1>3, <1>4, ProjectionMarked

\* nor do the names of groups.
LEMMA GroupMarked ==
  ASSUME NEW call, GroupBy(call)
  PROVE  UntrustedMarked'
<1> USE DEF Answered
<1>1. Left("group_by", call, GroupGates(call), GroupResult(call))
  BY GroupLeaves
<1>2. answer'.status = "ok" /\ Canonical(call.plugin, call.field) \in Untrusted[call.plugin]
        => answer'.result.untrusted = {"groups_keys"}
  BY <1>1 DEF Left, GroupResult
<1>3. QED
  BY <1>1, <1>2 DEF Left, UntrustedMarked, Given

\* No answer shows text of the evidence in a column it does not mark,
\* whatever synonyms the client used.
THEOREM Marked == Spec => []UntrustedMarked
<1>1. Init => UntrustedMarked
  BY DEF Init, UntrustedMarked, Answered, None
<1>2. ASSUME UntrustedMarked, [Next]_vars
      PROVE  UntrustedMarked'
  <2>1. CASE \E call \in Queries : QueryRecords(call)
    BY <2>1, AskMarked DEF QueryRecords
  <2>2. CASE NextPage
    BY <2>2, AskMarked DEF NextPage
  <2>3. CASE \E call \in Groupings : GroupBy(call)
    BY <2>3, GroupMarked
  <2>4. CASE \E call \in Differences : SetDifference(call)
    BY <2>4, DifferenceMarked
  <2>5. CASE \E call \in Subtrees : Subtree(call)
    BY <2>5, SubtreeMarked
  <2>6. CASE Return
    BY <2>6 DEF Return, UntrustedMarked, Answered, None
  <2>7. CASE UNCHANGED vars
    BY <1>2, <2>7 DEF vars, UntrustedMarked, Answered, Given
  <2>8. QED
    BY <1>2, <2>1, <2>2, <2>3, <2>4, <2>5, <2>6, <2>7 DEF Next
<1>3. QED
  BY <1>1, <1>2, PTL DEF Spec

\* The extractions do not change, nor does what is computed from them.
LEMMA SameQuery ==
  ASSUME case' = case, NEW call
  PROVE  Matching(call)' = Matching(call) /\ QueryResult(call)' = QueryResult(call)
BY Zenon DEF QueryResult, Matching, Matched, Hits, RecordsOf

\* The page an answer holds.
LEMMA QueryShows ==
  ASSUME case \in Cases, NEW call, Readable(call), call.offset >= 0, call.limit >= 0
  PROVE  LET all  == Matching(call)
             rows == QueryResult(call).rows
             end  == IF call.offset + call.limit > Len(all) THEN Len(all)
                     ELSE call.offset + call.limit
         IN  /\ Listed(all) /\ Listed(rows)
             /\ Len(rows) = IF call.offset + 1 <= end THEN end - call.offset ELSE 0
             /\ \A i \in DOMAIN rows :
                   /\ call.offset + i \in 1 .. Len(all)
                   /\ rows[i] = Project(all[call.offset + i], Columns(call))
             /\ QueryResult(call).truncated <=> Len(all) > call.offset + call.limit
<1> DEFINE all  == Matching(call)
           rows == QueryResult(call).rows
           o    == call.offset
           n    == call.limit
           end  == IF o + n > Len(all) THEN Len(all) ELSE o + n
           page == Page(all, o, n)
<1>1. Listed(all) /\ Len(all) \in Nat /\ DOMAIN all = 1 .. Len(all)
  BY MatchesListed, ListedLength DEF Matching, Readable
<1>2. o \in Nat /\ n \in Nat
  BY DEF Readable
<1>3. end \in Nat /\ end <= Len(all)
  BY <1>1, <1>2
<1>4. page = SubSeq(all, o + 1, end)
  BY DEF Page
<1>5. rows = [i \in DOMAIN page |-> Project(page[i], Columns(call))]
  BY DEF QueryResult
<1>6. QueryResult(call).truncated <=> Len(all) > o + n
  BY DEF QueryResult
<1> HIDE DEF all, rows, o, n, end, page
<1>7. \A i \in o + 1 .. end : all[i] \in Range(all)
  BY <1>1, <1>2, <1>3 DEF Range
<1>8. /\ page \in Seq(Range(all))
      /\ Len(page) = IF o + 1 <= end THEN end - (o + 1) + 1 ELSE 0
      /\ \A i \in 1 .. end - (o + 1) + 1 : page[i] = all[o + 1 + i - 1]
  BY <1>2, <1>3, <1>4, <1>7, SubSeqProperties
<1>9. /\ Len(page) = IF o + 1 <= end THEN end - o ELSE 0
      /\ Len(page) \in Nat /\ DOMAIN page = 1 .. Len(page)
  BY <1>2, <1>3, <1>8, LenProperties
<1>10. ASSUME NEW i \in 1 .. Len(page)
       PROVE  o + i \in 1 .. Len(all) /\ page[i] = all[o + i]
  <2>1. i \in 1 .. end - (o + 1) + 1 /\ o + 1 + i - 1 = o + i /\ o + i \in 1 .. end
    BY <1>2, <1>3, <1>9
  <2>2. QED
    BY <1>1, <1>3, <1>8, <2>1
<1>11. rows \in [1 .. Len(page) -> Range(rows)]
  BY <1>5, <1>9 DEF Range
<1>12. Listed(rows) /\ Len(rows) = Len(page) /\ DOMAIN rows = 1 .. Len(page)
  <2>1. rows \in Seq(Range(rows))
    BY <1>9, <1>11, SeqDef
  <2>2. DOMAIN rows = 1 .. Len(page) /\ DOMAIN rows = 1 .. Len(rows) /\ Len(rows) \in Nat
    BY <1>11, <2>1, LenProperties
  <2>3. Len(rows) = Len(page)
    BY <1>9, <2>2
  <2>4. QED
    BY <2>1, <2>2, <2>3 DEF Listed
<1>13. \A i \in DOMAIN rows : o + i \in 1 .. Len(all) /\ rows[i] = Project(all[o + i], Columns(call))
  BY <1>5, <1>9, <1>10, <1>12
<1>14. QED
  BY <1>1, <1>6, <1>9, <1>12, <1>13 DEF all, rows, o, n, end

\* An answer is that of its call, and what was read so far are the rows from
\* a place o on, one page after the other: all pages but the last were full.
Reading ==
  Answered("query_records") =>
    LET call == answer.call
        all  == Matching(call)
    IN  /\ Readable(call) /\ call.offset >= 0 /\ call.limit >= 0
        /\ Given = QueryResult(call)
        /\ Listed(seen)
        /\ \E o \in 0 .. call.offset :
             /\ o = call.offset \/ call.offset <= Len(all)
             /\ Len(seen) = Len(Given.rows) + call.offset - o
             /\ \A i \in DOMAIN seen :
                  o + i \in 1 .. Len(all) /\ seen[i] = Project(all[o + i], Columns(call))
\* With the extractions in place, this is inductive.
PageInv == case \in Cases /\ Reading

\* The first page starts to read at its offset.
LEMMA FirstPage ==
  ASSUME PageInv, NEW call \in Queries, QueryRecords(call)
  PROVE  PageInv'
<1>1. Left("query_records", call, QueryGates(call), QueryResult(call)) /\ case' = case
  BY AskLeaves DEF QueryRecords
<1>2. SUFFICES ASSUME answer'.status = "ok" PROVE Reading'
  BY <1>1 DEF PageInv, Reading, Answered
<1>3. seen' = QueryResult(call).rows
  BY <1>1, <1>2 DEF QueryRecords, Left
<1>4. call.offset >= 0 /\ call.limit >= 0 /\ Readable(call)
  <2>1. Readable(call)
    BY CallsAssumption DEF Readable, Plugins
  <2>2. QED
    BY <1>1, <1>2, <2>1, QueryGatesTaken DEF Left, Readable
<1>5. QueryResult(call)' = QueryResult(call) /\ Matching(call)' = Matching(call)
  BY <1>1, SameQuery
<1> DEFINE rows == QueryResult(call).rows
           all  == Matching(call)
<1>6. /\ Listed(rows) /\ Len(rows) \in Nat
      /\ \A i \in DOMAIN rows : /\ call.offset + i \in 1 .. Len(all)
                                /\ rows[i] = Project(all[call.offset + i], Columns(call))
  BY <1>4, QueryShows, ListedLength DEF PageInv
<1>7. call.offset \in 0 .. call.offset /\ Len(rows) = Len(rows) + call.offset - call.offset
  BY <1>4, <1>6 DEF Readable
<1>8. answer'.call = call /\ answer'.result = QueryResult(call)
  BY <1>1, <1>2 DEF Left
<1> HIDE DEF rows, all
<1>9. \E o \in 0 .. call.offset :
        /\ o = call.offset \/ call.offset <= Len(all)
        /\ Len(rows) = Len(rows) + call.offset - o
        /\ \A i \in DOMAIN rows :
             o + i \in 1 .. Len(all) /\ rows[i] = Project(all[o + i], Columns(call))
  BY <1>6, <1>7
<1>10. QED
  BY <1>3, <1>4, <1>5, <1>6, <1>8, <1>9 DEF Reading, Given, rows, all

\* A later page goes on after a full one.
LEMMA LaterPage ==
  ASSUME PageInv, NextPage
  PROVE  PageInv'
<1> DEFINE c == answer.call
           d == [c EXCEPT !.offset = @ + c.limit]
           all == Matching(c)
           old == QueryResult(c).rows
           new == QueryResult(d).rows
<1>1. /\ case' = case /\ Ask(d) /\ c.limit > 0 /\ case \in Cases
      /\ answer.tool = "query_records" /\ answer.status = "ok" /\ answer.result.truncated
      /\ seen' = IF answer'.status = "ok" THEN seen \o answer'.result.rows ELSE seen
  BY DEF NextPage, PageInv
<1>2. /\ Readable(c) /\ c.offset >= 0 /\ c.limit >= 0
      /\ answer.result = QueryResult(c) /\ Listed(seen)
  BY <1>1 DEF PageInv, Reading, Answered, Given
<1>3. PICK o \in 0 .. c.offset :
        /\ o = c.offset \/ c.offset <= Len(all)
        /\ Len(seen) = Len(old) + c.offset - o
        /\ \A i \in DOMAIN seen : o + i \in 1 .. Len(all) /\ seen[i] = Project(all[o + i], Columns(c))
  BY <1>1 DEF PageInv, Reading, Answered, Given
<1>4. Left("query_records", d, QueryGates(d), QueryResult(d))
  BY <1>1, AskLeaves
<1>5. SUFFICES ASSUME answer'.status = "ok" PROVE Reading'
  BY <1>1, <1>4 DEF PageInv, Reading, Answered
<1>6. /\ d.plugin = c.plugin /\ d.filters = c.filters /\ d.fields = c.fields
      /\ d.limit = c.limit /\ d.offset = c.offset + c.limit /\ DOMAIN d = DOMAIN c
  BY <1>2 DEF Readable
<1> HIDE DEF d
<1>7. Matching(d) = all /\ Columns(d) = Columns(c)
  BY <1>6, Zenon DEF Matching, Columns
<1>8. Readable(d) /\ d.offset >= 0 /\ d.limit >= 0
  <2>1. c.offset \in Int /\ c.limit \in Int
    BY <1>2 DEF Readable
  <2>2. d.offset \in Int /\ d.offset >= 0 /\ d.limit >= 0
    BY <1>2, <1>6, <2>1
  <2>3. QED
    BY <1>2, <1>6, <2>2 DEF Readable
<1> HIDE DEF c, all, old, new
<1>9. /\ Listed(all) /\ Listed(old)
      /\ Len(old) = IF c.offset + 1 <= (IF c.offset + c.limit > Len(all) THEN Len(all) ELSE c.offset + c.limit)
                    THEN (IF c.offset + c.limit > Len(all) THEN Len(all) ELSE c.offset + c.limit) - c.offset
                    ELSE 0
      /\ QueryResult(c).truncated <=> Len(all) > c.offset + c.limit
  BY <1>1, <1>2, QueryShows DEF all, old
<1>10. /\ Listed(new)
       /\ \A i \in DOMAIN new : /\ d.offset + i \in 1 .. Len(all)
                                /\ new[i] = Project(all[d.offset + i], Columns(c))
  BY <1>1, <1>7, <1>8, QueryShows DEF new
<1>11. /\ Len(all) \in Nat /\ Len(old) \in Nat /\ Len(new) \in Nat /\ Len(seen) \in Nat
       /\ c.offset \in Nat /\ c.limit \in Nat /\ o \in Nat /\ o <= c.offset
  BY <1>2, <1>3, <1>9, <1>10, ListedLength DEF Readable
<1>12. Len(all) > c.offset + c.limit /\ Len(old) = c.limit
  <2>1. Len(all) > c.offset + c.limit
    BY <1>1, <1>2, <1>9
  <2>2. QED
    BY <1>1, <1>9, <1>11, <2>1
<1>13. /\ o \in 0 .. d.offset /\ d.offset <= Len(all) /\ Len(seen) = d.offset - o
  <2>1. d.offset \in Nat /\ o <= d.offset
    BY <1>6, <1>11
  <2>2. d.offset <= Len(all)
    BY <1>6, <1>11, <1>12
  <2>3. Len(seen) = d.offset - o
    BY <1>3, <1>6, <1>11, <1>12
  <2>4. QED
    BY <1>11, <2>1, <2>2, <2>3
<1> DEFINE s == seen \o new
<1>14. /\ Listed(s) /\ Len(s) = Len(seen) + Len(new)
       /\ \A i \in DOMAIN s :
             /\ i \in 1 .. Len(seen) + Len(new)
             /\ i <= Len(seen) => i \in DOMAIN seen /\ s[i] = seen[i]
             /\ i > Len(seen) => i - Len(seen) \in DOMAIN new /\ s[i] = new[i - Len(seen)]
  <2>1. Listed(seen)
    BY <1>2
  <2>2. Listed(new)
    BY <1>10
  <2>3. QED
    BY <2>1, <2>2, ListsJoined
<1> HIDE DEF s
<1>15. Len(s) = Len(new) + d.offset - o
  BY <1>6, <1>11, <1>13, <1>14
<1>16. ASSUME NEW i \in DOMAIN s
       PROVE  o + i \in 1 .. Len(all) /\ s[i] = Project(all[o + i], Columns(c))
  <2>1. CASE i <= Len(seen)
    BY <1>3, <1>14, <2>1
  <2>2. CASE i > Len(seen)
    <3>1. d.offset + (i - Len(seen)) = o + i
      BY <1>6, <1>11, <1>13, <1>14, <2>2
    <3>2. QED
      BY <1>10, <1>14, <2>2, <3>1
  <2>3. QED
    BY <1>11, <1>14, <2>1, <2>2
<1>17. answer'.call = d /\ answer'.result = QueryResult(d) /\ seen' = s
  BY <1>1, <1>4, <1>5 DEF Left, s, new
<1>18. \A x : QueryResult(x)' = QueryResult(x) /\ Matching(x)' = Matching(x)
  BY <1>1, SameQuery
<1>19. \E p \in 0 .. d.offset :
         /\ p = d.offset \/ d.offset <= Len(all)
         /\ Len(s) = Len(new) + d.offset - p
         /\ \A i \in DOMAIN s : p + i \in 1 .. Len(all) /\ s[i] = Project(all[p + i], Columns(d))
  BY <1>7, <1>13, <1>15, <1>16
<1>20. QED
  BY <1>7, <1>8, <1>14, <1>17, <1>18, <1>19 DEF Reading, Given, new

\* No other step disturbs what was read.
LEMMA PageStep ==
  ASSUME PageInv, [Next]_vars
  PROVE  PageInv'
<1>1. CASE \E call \in Queries : QueryRecords(call)
  BY <1>1, FirstPage
<1>2. CASE NextPage
  BY <1>2, LaterPage
<1>3. CASE \E call \in Groupings : GroupBy(call)
  BY <1>3, GroupLeaves DEF Left, GroupBy, PageInv, Reading, Answered
<1>4. CASE \E call \in Differences : SetDifference(call)
  BY <1>4, DifferenceLeaves DEF Left, SetDifference, PageInv, Reading, Answered
<1>5. CASE \E call \in Subtrees : Subtree(call)
  BY <1>5, SubtreeLeaves DEF Left, Subtree, PageInv, Reading, Answered
<1>6. CASE Return
  BY <1>6 DEF Return, PageInv, Reading, Answered, None
<1>7. CASE UNCHANGED vars
  <2>1. /\ case' = case /\ answer' = answer /\ seen' = seen
        /\ \A x : QueryResult(x)' = QueryResult(x) /\ Matching(x)' = Matching(x)
    BY <1>7, SameQuery DEF vars
  <2>2. QED
    BY <2>1 DEF PageInv, Reading, Answered, Given
<1>8. QED
  BY <1>1, <1>2, <1>3, <1>4, <1>5, <1>6, <1>7 DEF Next

\* A page that is not truncated is the last: nothing matches after it.
LEMMA LastPage ==
  ASSUME PageInv
  PROVE  PagesCover
<1> DEFINE c == answer.call
           all == Matching(c)
           rows == Given.rows
           start == c.offset + Len(rows) - Len(seen)
<1>1. SUFFICES ASSUME Answered("query_records"), ~ Given.truncated, c.limit > 0
               PROVE  /\ Len(seen) = IF start > Len(all) THEN 0 ELSE Len(all) - start
                      /\ \A i \in DOMAIN seen : \A f \in DOMAIN seen[i] : seen[i][f] = all[start + i][f]
  BY DEF PagesCover
<1>2. /\ Readable(c) /\ c.offset >= 0 /\ c.limit >= 0 /\ case \in Cases
      /\ Given = QueryResult(c) /\ Listed(seen)
  BY <1>1 DEF PageInv, Reading
<1>3. PICK o \in 0 .. c.offset :
        /\ o = c.offset \/ c.offset <= Len(all)
        /\ Len(seen) = Len(rows) + c.offset - o
        /\ \A i \in DOMAIN seen : o + i \in 1 .. Len(all) /\ seen[i] = Project(all[o + i], Columns(c))
  BY <1>1 DEF PageInv, Reading
<1>4. /\ Listed(all) /\ Listed(rows)
      /\ Len(rows) = IF c.offset + 1 <= (IF c.offset + c.limit > Len(all) THEN Len(all) ELSE c.offset + c.limit)
                     THEN (IF c.offset + c.limit > Len(all) THEN Len(all) ELSE c.offset + c.limit) - c.offset
                     ELSE 0
      /\ ~ (Len(all) > c.offset + c.limit)
  BY <1>1, <1>2, QueryShows
<1>5. \A i \in DOMAIN all : DOMAIN all[i] = Fields[c.plugin]
  BY <1>2, MatchesListed DEF Matching, Readable
<1>6. Columns(c) \in Seq(Fields[c.plugin])
  BY <1>2, ColumnsKnown DEF Readable
<1>7. c.offset \in Nat /\ c.limit \in Nat
  BY <1>2 DEF Readable
<1> HIDE DEF c, all, rows
<1>8. /\ Len(all) \in Nat /\ Len(rows) \in Nat /\ Len(seen) \in Nat
      /\ o \in Nat /\ o <= c.offset /\ DOMAIN all = 1 .. Len(all)
  BY <1>2, <1>3, <1>4, <1>7, ListedLength
<1>9. start = o
  BY <1>3, <1>7, <1>8
<1>10. Len(rows) = IF c.offset < Len(all) THEN Len(all) - c.offset ELSE 0
  BY <1>4, <1>7, <1>8
<1>11. Len(seen) = IF o > Len(all) THEN 0 ELSE Len(all) - o
  BY <1>3, <1>7, <1>8, <1>10
<1>12. ASSUME NEW i \in DOMAIN seen, NEW f \in DOMAIN seen[i]
       PROVE  seen[i][f] = all[o + i][f]
  BY <1>3, <1>5, <1>6, <1>8, ProjectionShows
<1>13. QED
  BY <1>9, <1>11, <1>12

\* A client that follows "truncated" to the last page has read every record
\* its filters let through, from its first offset on, once, in the order on
\* file and with its own values.
THEOREM Covered == Spec => []PagesCover
<1>1. Init => PageInv
  BY DEF Init, PageInv, Reading, Answered, None
<1>2. PageInv /\ [Next]_vars => PageInv'
  BY PageStep
<1>3. PageInv => PagesCover
  BY LastPage
<1>4. QED
  BY <1>1, <1>2, <1>3, PTL DEF Spec

----------------------------------------------------------------------------
\* The difference of two extractions.

\* Places of a list at which the key has a value, and at which it has none.
Keyed(rs, key) == {i \in DOMAIN rs : rs[i][key] # Nothing}
Keyless(rs, key) == {i \in DOMAIN rs : rs[i][key] = Nothing}

\* A list has finitely many keys.
LEMMA KeysFinite ==
  ASSUME NEW rs, Listed(rs), NEW key
  PROVE  IsFiniteSet(KeysOf(rs, key))
<1> DEFINE T == {rs[i][key] : i \in DOMAIN rs}
           f == [i \in DOMAIN rs |-> rs[i][key]]
<1>1. f \in Surjection(DOMAIN rs, T)
  BY DEF Surjection
<1>2. IsFiniteSet(DOMAIN rs)
  BY PlacesFinite
<1>3. IsFiniteSet(T)
  BY <1>1, <1>2, FS_Surjection
<1>4. KeysOf(rs, key) \in SUBSET T
  BY DEF KeysOf, Range
<1>5. QED
  BY <1>3, <1>4, FS_Subset

\* Every record is counted once: by its key if it is the first of it, as a
\* duplicate, or as one without a key.
LEMMA RecordsAddUp ==
  ASSUME NEW ra, Listed(ra), NEW kb, NEW key
  PROVE  LET ka == KeysOf(ra, key)
         IN  Len(ra) = Cardinality(ka \ kb) + Cardinality(ka \cap kb) + Duplicates(ra, key)
                          + Cardinality(Keyless(ra, key))
<1> DEFINE ka == KeysOf(ra, key)
           K == Keyed(ra, key)
           N == Keyless(ra, key)
<1>1. IsFiniteSet(ka)
  BY KeysFinite
<1>2. /\ Cardinality(ka \ kb) = Cardinality(ka) - Cardinality(ka \cap kb)
      /\ Cardinality(ka) \in Nat /\ IsFiniteSet(ka \cap kb)
  BY <1>1, FS_Difference, FS_Intersection, FS_CardinalityType
<1>3. Cardinality(ka \cap kb) \in Nat
  BY <1>2, FS_CardinalityType
<1>4. Duplicates(ra, key) = Cardinality(K) - Cardinality(ka)
  BY Zenon DEF Duplicates, Count, Keyed
<1>5. /\ K \in SUBSET DOMAIN ra /\ N \in SUBSET DOMAIN ra
      /\ K \cup N = DOMAIN ra /\ K \cap N = {}
  BY DEF Keyed, Keyless
<1>6. IsFiniteSet(K) /\ IsFiniteSet(N)
  BY <1>5, PlacesFinite
<1>7. Len(ra) \in Nat /\ DOMAIN ra = 1 .. Len(ra)
  BY ListedLength
<1>8. Cardinality(DOMAIN ra) = Len(ra)
  <2>1. 1 \in Int /\ Len(ra) \in Int
    BY <1>7
  <2>2. Cardinality(1 .. Len(ra)) = IF 1 > Len(ra) THEN 0 ELSE Len(ra) - 1 + 1
    BY <2>1, FS_Interval
  <2>3. QED
    BY <1>7, <2>2
<1>9. /\ Cardinality(K) \in Nat /\ Cardinality(N) \in Nat
      /\ Cardinality(DOMAIN ra) = Cardinality(K) + Cardinality(N)
  <2>1. Cardinality(K) \in Nat /\ Cardinality(N) \in Nat
    BY <1>6, FS_CardinalityType
  <2>2. Cardinality(K \cup N) = Cardinality(K) + Cardinality(N) - Cardinality(K \cap N)
    BY <1>6, FS_Union
  <2>3. Cardinality(K \cap N) = 0
    BY <1>5, FS_EmptySet
  <2> HIDE DEF K, N
  <2>4. QED
    BY <1>5, <2>1, <2>2, <2>3
<1> HIDE DEF ka, K, N
<1>10. QED
  BY <1>2, <1>3, <1>4, <1>7, <1>8, <1>9 DEF ka, N

\* Records of one list with a key that the other does not have.
Alone(rp, rq, key) ==
  {i \in DOMAIN rp : rp[i][key] # Nothing /\ \A r \in Range(rq) : r[key] # rp[i][key]}

\* These are the records of the keys of one side only.
LEMMA AloneKeys ==
  ASSUME NEW ra, NEW rb, NEW key
  PROVE  /\ Alone(ra, rb, key) =
              {i \in DOMAIN ra : ra[i][key] \in KeysOf(ra, key) \ KeysOf(rb, key)}
         /\ \A i \in DOMAIN ra : ra[i][key] \notin KeysOf(rb, key) \ KeysOf(ra, key)
<1>1. \A i \in DOMAIN ra : ra[i][key] \in KeysOf(ra, key) <=> ra[i][key] # Nothing
  BY DEF KeysOf, Range
<1>2. \A v : v \in KeysOf(rb, key) <=> v # Nothing /\ \E r \in Range(rb) : r[key] = v
  BY DEF KeysOf
<1>3. QED
  BY <1>1, <1>2 DEF Alone

\* The records on one side of two lists one after the other.
LEMMA JoinedCount ==
  ASSUME NEW s, NEW t, Listed(s), Listed(t), NEW A \in SUBSET DOMAIN s, NEW B \in SUBSET DOMAIN t,
         NEW C \in SUBSET DOMAIN (s \o t),
         \A i \in DOMAIN s : i \in C <=> i \in A,
         \A j \in DOMAIN t : Len(s) + j \in C <=> j \in B
  PROVE  Cardinality(C) = Cardinality(A) + Cardinality(B)
<1> DEFINE n == Len(s)
           m == Len(t)
           D == {i \in C : i > n}
           f == [j \in B |-> n + j]
<1>1. n \in Nat /\ m \in Nat /\ DOMAIN s = 1 .. n /\ DOMAIN t = 1 .. m
  BY ListedLength
<1>2. Listed(s \o t) /\ DOMAIN (s \o t) = 1 .. n + m
  BY ListsJoined, ListedLength
<1> HIDE DEF n, m
<1>3. IsFiniteSet(A) /\ IsFiniteSet(B) /\ IsFiniteSet(C) /\ A \subseteq C
  BY <1>2, PlacesFinite
<1>4. \A i \in C : i \in 1 .. n + m /\ (i <= n => i \in A) /\ (i > n => i - n \in B /\ n + (i - n) = i)
  <2> SUFFICES ASSUME NEW i \in C
               PROVE  i \in 1 .. n + m /\ (i <= n => i \in A) /\ (i > n => i - n \in B /\ n + (i - n) = i)
    OBVIOUS
  <2>1. i \in 1 .. n + m
    BY <1>2
  <2>2. i <= n => i \in A
    BY <1>1, <2>1
  <2>3. ASSUME i > n PROVE i - n \in B /\ n + (i - n) = i
    <3>1. i - n \in 1 .. m /\ n + (i - n) = i
      BY <1>1, <2>1, <2>3
    <3>2. QED
      BY <1>1, <3>1 DEF n
  <2>4. QED
    BY <2>1, <2>2, <2>3
<1>5. A \cup D = C /\ A \cap D = {}
  BY <1>1, <1>3, <1>4
<1>6. f \in Bijection(B, D)
  <2>1. \A j \in B : n + j \in D /\ j \in 1 .. m
    <3> SUFFICES ASSUME NEW j \in B PROVE n + j \in D /\ j \in 1 .. m
      OBVIOUS
    <3>1. j \in 1 .. m /\ n + j > n
      BY <1>1
    <3>2. n + j \in C
      BY DEF n
    <3>3. QED
      BY <3>1, <3>2
  <2>2. \A j, k \in B : n + j = n + k => j = k
    BY <1>1, <2>1
  <2>3. \A i \in D : i - n \in B /\ n + (i - n) = i
    BY <1>4
  <2>4. QED
    BY <2>1, <2>2, <2>3 DEF Bijection, Injection, IsInjective, Surjection
<1>7. IsFiniteSet(D) /\ Cardinality(D) = Cardinality(B)
  BY <1>3, <1>6, FS_Bijection DEF ExistsBijection
<1>8. Cardinality(A) \in Nat /\ Cardinality(B) \in Nat
  BY <1>3, FS_CardinalityType
<1>9. Cardinality(A \cup D) = Cardinality(A) + Cardinality(D) - Cardinality(A \cap D)
  BY <1>3, <1>7, FS_Union
<1>10. Cardinality(A \cap D) = 0
  BY <1>5, FS_EmptySet
<1> HIDE DEF D
<1>11. QED
  <2>1. Cardinality(A \cup D) = Cardinality(C)
    BY <1>5
  <2>2. QED
    BY <1>7, <1>8, <1>9, <1>10, <2>1

\* The records a difference is about are those of the keys of one side.
LEMMA DifferingCounted ==
  ASSUME NEW call, case \in Cases, call.a \in Plugins, call.b \in Plugins,
         call.direction \in Directions
  PROVE  LET ra == RecordsOf(call.a)  rb == RecordsOf(call.b)
         IN  /\ Listed(Differing(call))
             /\ Len(Differing(call)) =
                  (IF call.direction = "b_minus_a" THEN 0 ELSE Cardinality(Alone(ra, rb, call.key)))
                  + (IF call.direction = "a_minus_b" THEN 0 ELSE Cardinality(Alone(rb, ra, call.key)))
<1> DEFINE ra == RecordsOf(call.a)
           rb == RecordsOf(call.b)
           key == call.key
           ka == KeysOf(ra, key)
           kb == KeysOf(rb, key)
           A == Alone(ra, rb, key)
           B == Alone(rb, ra, key)
           source == SourceRecords(call)
           keys == ReturnedKeys(call.direction, ka, kb)
           places == {i \in DOMAIN source : source[i][key] \in keys}
<1>1. Listed(ra) /\ Listed(rb)
  BY RecordsListed
<1>2. Differing(call) = Select(source, places)
  BY Zenon DEF Differing
<1>3. /\ A = {i \in DOMAIN ra : ra[i][key] \in ka \ kb}
      /\ B = {i \in DOMAIN rb : rb[i][key] \in kb \ ka}
  BY AloneKeys
<1>4. /\ \A i \in DOMAIN ra : ra[i][key] \notin kb \ ka
      /\ \A i \in DOMAIN rb : rb[i][key] \notin ka \ kb
  BY AloneKeys
<1>5. /\ call.direction = "a_minus_b" => source = ra /\ keys = ka \ kb
      /\ call.direction = "b_minus_a" => source = rb /\ keys = kb \ ka
      /\ call.direction = "symmetric" => source = ra \o rb /\ keys = (ka \ kb) \cup (kb \ ka)
  BY Zenon DEF SourceRecords, ReturnedKeys
<1> HIDE DEF ra, rb, key, ka, kb, A, B, source, keys
<1>6. A \in SUBSET DOMAIN ra /\ B \in SUBSET DOMAIN rb
  BY <1>3
<1>7. Listed(source)
  <2>1. Listed(ra \o rb)
    BY <1>1, ListsJoined
  <2>2. QED
    BY <1>1, <1>5, <2>1, Zenon DEF Directions
<1>8. IsFiniteSet(places) /\ places \in SUBSET Int /\ \A i \in places : source[i] \in Range(source)
  BY <1>7, PlacesFinite, ListedLength
<1>9. /\ Select(source, places) \in Seq(Range(source))
      /\ Len(Select(source, places)) = Cardinality(places)
  BY <1>8, SelectKeeps
<1>10. Cardinality(A) \in Nat /\ Cardinality(B) \in Nat
  BY <1>1, <1>6, PlacesFinite, FS_CardinalityType
<1>11. CASE call.direction = "a_minus_b"
  <2>1. places = A
    BY <1>3, <1>5, <1>11
  <2> HIDE DEF places
  <2>2. Cardinality(places) = Cardinality(A) + 0
    BY <1>10, <2>1
  <2>3. Len(Differing(call)) = Cardinality(places)
    BY <1>2, <1>9
  <2>4. Listed(Differing(call))
    BY <1>2, <1>9, ListedAlone
  <2>5. QED
    BY <1>11, <2>2, <2>3, <2>4, Zenon DEF ra, rb, key, A, B
<1>12. CASE call.direction = "b_minus_a"
  <2>1. places = B
    BY <1>3, <1>5, <1>12
  <2> HIDE DEF places
  <2>2. Cardinality(places) = 0 + Cardinality(B)
    BY <1>10, <2>1
  <2>3. Len(Differing(call)) = Cardinality(places)
    BY <1>2, <1>9
  <2>4. Listed(Differing(call))
    BY <1>2, <1>9, ListedAlone
  <2>5. QED
    BY <1>12, <2>2, <2>3, <2>4, Zenon DEF ra, rb, key, A, B
<1>13. CASE call.direction = "symmetric"
  <2>1. /\ Len(ra) \in Nat /\ Len(rb) \in Nat
        /\ DOMAIN ra = 1 .. Len(ra) /\ DOMAIN rb = 1 .. Len(rb)
    BY <1>1, ListedLength
  <2>2. source = ra \o rb /\ keys = (ka \ kb) \cup (kb \ ka) /\ DOMAIN source = 1 .. Len(ra) + Len(rb)
    BY <1>1, <1>5, <1>13, ListsJoined, ListedLength
  <2>3. /\ \A i \in DOMAIN ra : i \in DOMAIN source /\ source[i] = ra[i]
        /\ \A j \in DOMAIN rb : Len(ra) + j \in DOMAIN source /\ source[Len(ra) + j] = rb[j]
    <3>1. \A i \in DOMAIN source :
            /\ i <= Len(ra) => source[i] = ra[i]
            /\ i > Len(ra) => source[i] = rb[i - Len(ra)]
      BY <1>1, <2>2, ListsJoined
    <3>2. ASSUME NEW i \in DOMAIN ra PROVE i \in DOMAIN source /\ source[i] = ra[i]
      BY <2>1, <2>2, <3>1
    <3>3. ASSUME NEW j \in DOMAIN rb
          PROVE  Len(ra) + j \in DOMAIN source /\ source[Len(ra) + j] = rb[j]
      <4>1. j \in 1 .. Len(rb) /\ Len(ra) + j \in DOMAIN source /\ Len(ra) + j > Len(ra)
            /\ Len(ra) + j - Len(ra) = j
        BY <2>1, <2>2
      <4>2. QED
        BY <3>1, <4>1
    <3>4. QED
      BY <3>2, <3>3
  <2>4. \A i \in DOMAIN ra : i \in places <=> i \in A
    BY <1>3, <1>4, <2>2, <2>3
  <2>5. \A j \in DOMAIN rb : Len(ra) + j \in places <=> j \in B
    BY <1>3, <1>4, <2>2, <2>3
  <2>6. places \in SUBSET DOMAIN (ra \o rb)
    BY <2>2
  <2> HIDE DEF places
  <2>7. Cardinality(places) = Cardinality(A) + Cardinality(B)
    BY <1>1, <1>6, <2>4, <2>5, <2>6, JoinedCount
  <2>8. Len(Differing(call)) = Cardinality(places)
    BY <1>2, <1>9
  <2>9. Listed(Differing(call))
    BY <1>2, <1>9, ListedAlone
  <2>10. QED
    BY <1>13, <2>7, <2>8, <2>9, Zenon DEF ra, rb, key, A, B
<1>14. QED
  BY <1>11, <1>12, <1>13 DEF Directions

\* What a difference answers with, as far as it is counted.
LEMMA DifferenceAnswers ==
  ASSUME NEW call
  PROVE  LET ra == RecordsOf(call.a)  ka == KeysOf(ra, call.key)
             rb == RecordsOf(call.b)  kb == KeysOf(rb, call.key)
             r  == DifferenceResult(call)
             taken == UpTo(Differing(call), call.limit)
         IN  /\ r.aOnly = Cardinality(ka \ kb) /\ r.bOnly = Cardinality(kb \ ka)
             /\ r.both = Cardinality(ka \cap kb)
             /\ r.aRecords = Len(ra) /\ r.bRecords = Len(rb)
             /\ r.aDuplicates = Duplicates(ra, call.key)
             /\ r.bDuplicates = Duplicates(rb, call.key)
             /\ r.rows = [i \in DOMAIN taken |-> Project(taken[i], Projected(call))]
             /\ r.truncated <=> Len(Differing(call)) > Len(taken)
BY DEF DifferenceResult

\* The limit is looked at after a row is taken.
LEMMA UpToShows ==
  ASSUME NEW s, Listed(s), NEW limit \in Nat
  PROVE  LET n == IF limit = 0 THEN 1 ELSE limit
         IN  /\ Listed(UpTo(s, limit))
             /\ Len(UpTo(s, limit)) = IF n > Len(s) THEN Len(s) ELSE n
<1> DEFINE n == IF limit = 0 THEN 1 ELSE limit
           end == IF n > Len(s) THEN Len(s) ELSE n
<1>1. Len(s) \in Nat /\ DOMAIN s = 1 .. Len(s)
  BY ListedLength
<1>2. n \in Nat /\ n # 0 /\ end \in Nat /\ end <= Len(s)
  BY <1>1
<1>3. UpTo(s, limit) = SubSeq(s, 1, end)
  BY DEF UpTo, FirstOf
<1> HIDE DEF n, end
<1>4. \A i \in 1 .. end : s[i] \in Range(s)
  BY <1>1, <1>2 DEF Range
<1>5. /\ SubSeq(s, 1, end) \in Seq(Range(s))
      /\ Len(SubSeq(s, 1, end)) = IF 1 <= end THEN end - 1 + 1 ELSE 0
  BY <1>2, <1>4, SubSeqProperties
<1>6. Len(SubSeq(s, 1, end)) = end
  BY <1>2, <1>5
<1>7. QED
  BY <1>3, <1>5, <1>6, ListedAlone DEF n, end

\* An answered difference is that of its call, which passed its gates.
DifferenceInv ==
  /\ case \in Cases
  /\ Answered("set_difference") =>
       /\ answer.call \in Differences
       /\ answer.call.direction \in Directions /\ answer.call.limit >= 0
       /\ Given = DifferenceResult(answer.call)

\* The extractions do not change, nor do the records read from them,
LEMMA SameRecords ==
  ASSUME case' = case
  PROVE  \A p : RecordsOf(p)' = RecordsOf(p)
BY Zenon DEF RecordsOf

\* nor a difference of two of them.
LEMMA SameDifference ==
  ASSUME case' = case, NEW call
  PROVE  DifferenceResult(call)' = DifferenceResult(call)
<1>1. RecordsOf(call.a)' = RecordsOf(call.a) /\ RecordsOf(call.b)' = RecordsOf(call.b)
  BY SameRecords
<1>2. SourceRecords(call)' = SourceRecords(call)
  BY Zenon DEF SourceRecords, RecordsOf
<1>3. Differing(call)' = Differing(call)
  BY <1>1, <1>2, SMT DEF Differing
<1>4. QED
  BY <1>1, <1>3, SMT DEF DifferenceResult

\* Every step leaves the answer to a difference that of its call.
LEMMA DifferenceStep ==
  ASSUME DifferenceInv, [Next]_vars
  PROVE  DifferenceInv'
<1> USE DEF DifferenceInv, Answered, Given
<1>1. CASE \E call \in Queries : QueryRecords(call)
  BY <1>1, AskLeaves DEF Left, QueryRecords
<1>2. CASE NextPage
  <2>1. \A call : Ask(call) => answer'.tool = "query_records"
    BY AskLeaves DEF Left
  <2>2. answer'.tool = "query_records" /\ case' = case
    BY <1>2, <2>1 DEF NextPage
  <2>3. QED
    BY <2>2
<1>3. CASE \E call \in Groupings : GroupBy(call)
  BY <1>3, GroupLeaves DEF Left, GroupBy
<1>4. CASE \E call \in Differences : SetDifference(call)
  <2>1. PICK call \in Differences : SetDifference(call)
    BY <1>4
  <2>2. Left("set_difference", call, DifferenceGates(call), DifferenceResult(call)) /\ case' = case
    BY <2>1, DifferenceLeaves DEF SetDifference
  <2>3. SUFFICES ASSUME answer'.status = "ok"
                 PROVE  /\ call.direction \in Directions /\ call.limit >= 0
                        /\ answer'.result = DifferenceResult(call)'
    BY <2>2 DEF Left
  <2>4. answer'.result = DifferenceResult(call)'
    BY <2>2, <2>3, SameDifference DEF Left
  <2>5. call.direction \in Directions /\ ~ (call.limit > DiffCap \/ call.limit < 0)
    BY <2>2, <2>3, DifferenceGatesTaken DEF Left
  <2>6. call.limit \in Int
    BY CallsAssumption
  <2>7. QED
    BY <2>4, <2>5, <2>6
<1>5. CASE \E call \in Subtrees : Subtree(call)
  BY <1>5, SubtreeLeaves DEF Left, Subtree
<1>6. CASE Return
  BY <1>6 DEF Return, None
<1>7. CASE UNCHANGED vars
  <2>1. case' = case /\ answer' = answer /\ \A x : DifferenceResult(x)' = DifferenceResult(x)
    BY <1>7, SameDifference DEF vars
  <2>2. QED
    BY <2>1
<1>8. QED
  BY <1>1, <1>2, <1>3, <1>4, <1>5, <1>6, <1>7 DEF Next

\* Such an answer balances.
LEMMA DifferenceCounts ==
  ASSUME DifferenceInv
  PROVE  DifferenceBalanced
<1> DEFINE call == answer.call
           ra == RecordsOf(call.a)
           rb == RecordsOf(call.b)
           ka == KeysOf(ra, call.key)
           kb == KeysOf(rb, call.key)
           A == Cardinality(Alone(ra, rb, call.key))
           B == Cardinality(Alone(rb, ra, call.key))
           lone == (IF call.direction = "b_minus_a" THEN 0 ELSE A)
                   + (IF call.direction = "a_minus_b" THEN 0 ELSE B)
           differing == Differing(call)
           taken == UpTo(differing, call.limit)
<1>1. SUFFICES ASSUME Answered("set_difference")
      PROVE  /\ Given.aRecords = Given.aOnly + Given.both + Given.aDuplicates
                                 + Cardinality(Keyless(ra, call.key))
             /\ Given.bRecords = Given.bOnly + Given.both + Given.bDuplicates
                                 + Cardinality(Keyless(rb, call.key))
             /\ Given.truncated <=> Len(Given.rows) < lone
             /\ Len(Given.rows) <= lone
             /\ call.limit > 0 => Len(Given.rows) <= call.limit
  BY Zenon DEF DifferenceBalanced, Count, Keyless, Alone
<1>2. /\ case \in Cases /\ call \in Differences
      /\ call.direction \in Directions /\ call.limit >= 0
      /\ Given = DifferenceResult(call)
  BY <1>1 DEF DifferenceInv
<1>3. call.a \in Plugins /\ call.b \in Plugins /\ call.limit \in Nat
  BY <1>2, CallsAssumption DEF Plugins
<1>4. Listed(ra) /\ Listed(rb)
  BY <1>2, <1>3, RecordsListed
<1>5. Listed(differing) /\ Len(differing) = lone
  BY <1>2, <1>3, DifferingCounted
<1>6. /\ Given.aOnly = Cardinality(ka \ kb) /\ Given.bOnly = Cardinality(kb \ ka)
      /\ Given.both = Cardinality(ka \cap kb)
      /\ Given.aRecords = Len(ra) /\ Given.bRecords = Len(rb)
      /\ Given.aDuplicates = Duplicates(ra, call.key)
      /\ Given.bDuplicates = Duplicates(rb, call.key)
      /\ Given.rows = [i \in DOMAIN taken |-> Project(taken[i], Projected(call))]
      /\ Given.truncated <=> Len(differing) > Len(taken)
  BY <1>2, DifferenceAnswers
<1> HIDE DEF call, lone, differing, taken, ra, rb
<1>7. Len(ra) = Cardinality(ka \ kb) + Cardinality(ka \cap kb) + Duplicates(ra, call.key)
                + Cardinality(Keyless(ra, call.key))
  BY <1>4, RecordsAddUp
<1>8. Len(rb) = Cardinality(kb \ ka) + Cardinality(ka \cap kb) + Duplicates(rb, call.key)
                + Cardinality(Keyless(rb, call.key))
  <2>1. kb \cap ka = ka \cap kb
    OBVIOUS
  <2>2. QED
    BY <1>4, <2>1, RecordsAddUp
<1>9. /\ Listed(taken)
      /\ Len(taken) = IF (IF call.limit = 0 THEN 1 ELSE call.limit) > Len(differing) THEN Len(differing)
                      ELSE IF call.limit = 0 THEN 1 ELSE call.limit
  BY <1>3, <1>5, UpToShows DEF taken
<1>10. Len(Given.rows) = Len(taken) /\ Len(taken) \in Nat /\ Len(differing) \in Nat
  <2>1. Len(taken) \in Nat /\ DOMAIN taken = 1 .. Len(taken) /\ Len(differing) \in Nat
    BY <1>5, <1>9, ListedLength
  <2>2. Given.rows \in [1 .. Len(taken) -> Range(Given.rows)] /\ DOMAIN Given.rows = 1 .. Len(taken)
    BY <1>6, <2>1 DEF Range
  <2>3. Given.rows \in Seq(Range(Given.rows))
    BY <2>1, <2>2, SeqDef
  <2>4. Len(Given.rows) \in Nat /\ DOMAIN Given.rows = 1 .. Len(Given.rows)
    BY <2>3, LenProperties
  <2>5. Len(Given.rows) = Len(taken)
    BY <2>1, <2>2, <2>4
  <2>6. QED
    BY <2>1, <2>5
<1>11. QED
  BY <1>3, <1>5, <1>6, <1>7, <1>8, <1>9, <1>10

\* The counts of a set_difference account for every record of both
\* extractions, and its rows are all those with a key of one side only, or it
\* is marked truncated.
THEOREM Balanced == Spec => []DifferenceBalanced
<1>1. Init => DifferenceInv
  BY DEF Init, DifferenceInv, Answered, None
<1>2. DifferenceInv /\ [Next]_vars => DifferenceInv'
  BY DifferenceStep
<1>3. DifferenceInv => DifferenceBalanced
  BY DifferenceCounts
<1>4. QED
  BY <1>1, <1>2, <1>3, PTL DEF Spec

----------------------------------------------------------------------------
\* The groups.

\* What the clause of an equality lets through.
LEMMA EqualClause ==
  ASSUME NEW x, NEW v, NEW w
  PROVE  Clause([field |-> x, op |-> "eq", value |-> v], w) = "yes" <=> w = v
BY DEF Clause, Ordering

\* A record passes exactly if every clause holds.
LEMMA Passes ==
  ASSUME NEW r, NEW fs, Listed(fs)
  PROVE  Verdict(r, fs) = "yes" <=> \A i \in DOMAIN fs : Clause(fs[i], r[fs[i].field]) = "yes"
<1> DEFINE not == {i \in DOMAIN fs : Clause(fs[i], r[fs[i].field]) # "yes"}
<1>1. not \in SUBSET Int /\ IsFiniteSet(not)
  BY PlacesFinite
<1>2. CASE not = {}
  BY <1>2 DEF Verdict
<1>3. CASE not # {}
  <2> DEFINE first == CHOOSE i \in not : \A j \in not : i <= j
  <2>1. first \in not
    BY <1>1, <1>3, LeastPlace
  <2>2. Verdict(r, fs) = Clause(fs[first], r[fs[first].field])
    BY <1>3, Zenon DEF Verdict
  <2>3. QED
    BY <2>1, <2>2
<1>4. QED
  BY <1>2, <1>3

\* Canonical names make no fewer clauses.
LEMMA FiltersListed ==
  ASSUME NEW p, NEW fs, Listed(fs)
  PROVE  Listed(CanonicalFilters(p, fs))
<1> DEFINE cf == CanonicalFilters(p, fs)
<1>1. Len(fs) \in Nat /\ DOMAIN fs = 1 .. Len(fs)
  BY ListedLength
<1>2. DOMAIN cf = DOMAIN fs /\ cf = [i \in DOMAIN cf |-> cf[i]]
  BY DEF CanonicalFilters
<1> HIDE DEF cf
<1>3. cf \in [1 .. Len(fs) -> Range(cf)]
  BY <1>1, <1>2 DEF Range
<1>4. Listed(cf)
  BY <1>1, <1>3, SeqDef DEF Listed
<1>5. QED
  BY <1>4 DEF cf

\* One more clause, that a column has a value, lets through the records of
\* that value.
LEMMA HitsOfValue ==
  ASSUME NEW p, NEW fs, Listed(fs), NEW x, NEW v
  PROVE  Hits(p, Append(fs, [field |-> x, op |-> "eq", value |-> v])) =
           {i \in Hits(p, fs) : RecordsOf(p)[i][x] = v}
<1> DEFINE e == [field |-> x, op |-> "eq", value |-> v]
           all == Append(fs, e)
           T == Range(fs) \cup {e}
<1>1. fs \in Seq(T) /\ e \in T
  BY SeqMonotonic DEF Listed
<1>2. e.field = x
  OBVIOUS
<1>3. Len(fs) \in Nat /\ DOMAIN fs = 1 .. Len(fs)
  BY ListedLength
<1> HIDE DEF e, T
<1>4. /\ all \in Seq(T) /\ DOMAIN all = 1 .. Len(fs) + 1
      /\ \A i \in 1 .. Len(fs) : all[i] = fs[i]
      /\ all[Len(fs) + 1] = e
  BY <1>1, <1>3, AppendProperties, LenProperties
<1> HIDE DEF all
<1>5. Listed(all)
  BY <1>4, ListedAlone
<1>6. ASSUME NEW r
      PROVE  Verdict(r, all) = "yes" <=> Verdict(r, fs) = "yes" /\ r[x] = v
  <2>1. Clause(e, r[x]) = "yes" <=> r[x] = v
    BY EqualClause DEF e
  <2>2. Verdict(r, all) = "yes" <=> \A i \in DOMAIN all : Clause(all[i], r[all[i].field]) = "yes"
    BY <1>5, Passes
  <2>3. Verdict(r, fs) = "yes" <=> \A i \in DOMAIN fs : Clause(fs[i], r[fs[i].field]) = "yes"
    BY Passes
  <2>4. (\A i \in DOMAIN all : Clause(all[i], r[all[i].field]) = "yes") <=>
          (\A i \in DOMAIN fs : Clause(fs[i], r[fs[i].field]) = "yes") /\ Clause(e, r[e.field]) = "yes"
    <3>1. \A i \in DOMAIN all : i \in DOMAIN fs \/ i = Len(fs) + 1
      BY <1>3, <1>4
    <3>2. /\ \A i \in DOMAIN fs : i \in DOMAIN all /\ all[i] = fs[i]
          /\ Len(fs) + 1 \in DOMAIN all
      BY <1>3, <1>4
    <3>3. QED
      BY <1>4, <3>1, <3>2
  <2>5. QED
    BY <1>2, <2>1, <2>2, <2>3, <2>4
<1>7. QED
  BY <1>6 DEF Hits, all, e

\* So much is counted for that value.
LEMMA CountOfValue ==
  ASSUME case \in Cases, NEW p \in Plugins, NEW fs, Listed(fs), NEW x, NEW v
  PROVE  Len(Matched(p, Append(fs, [field |-> x, op |-> "eq", value |-> v]))) =
           Cardinality({i \in Hits(p, fs) : RecordsOf(p)[i][x] = v})
<1> DEFINE all == Append(fs, [field |-> x, op |-> "eq", value |-> v])
<1>1. Hits(p, all) = {i \in Hits(p, fs) : RecordsOf(p)[i][x] = v}
  BY HitsOfValue
<1> HIDE DEF all
<1>2. Len(Matched(p, all)) = Cardinality(Hits(p, all))
  BY MatchesListed
<1>3. QED
  BY <1>1, <1>2 DEF all

\* As many places as elements.
LEMMA ListedSize ==
  ASSUME NEW s, Listed(s)
  PROVE  Cardinality(DOMAIN s) = Len(s)
<1>1. Len(s) \in Nat /\ DOMAIN s = 1 .. Len(s)
  BY ListedLength
<1>2. Cardinality(1 .. Len(s)) = IF 1 > Len(s) THEN 0 ELSE Len(s) - 1 + 1
  BY <1>1, FS_Interval
<1>3. QED
  BY <1>1, <1>2

\* Where a value was met.
Meetings(vs, v) == {i \in DOMAIN vs : vs[i] = v}

\* A value is counted as often as it was met.
LEMMA Met ==
  ASSUME NEW vs, Listed(vs), NEW v
  PROVE  /\ IsFiniteSet(Meetings(vs, v)) /\ Meetings(vs, v) \in SUBSET Int
         /\ Times(vs, v) = Cardinality(Meetings(vs, v)) /\ Times(vs, v) \in Nat
         /\ Times(vs, v) <= Len(vs)
<1>1. IsFiniteSet(Meetings(vs, v)) /\ Meetings(vs, v) \in SUBSET Int /\ IsFiniteSet(DOMAIN vs)
  BY PlacesFinite DEF Meetings
<1>2. Times(vs, v) = Cardinality(Meetings(vs, v))
  BY Zenon DEF Times, Count, Meetings
<1>3. Cardinality(Meetings(vs, v)) \in Nat
  BY <1>1, FS_CardinalityType
<1>4. Cardinality(Meetings(vs, v)) <= Cardinality(DOMAIN vs)
  BY <1>1, FS_Subset DEF Meetings
<1>5. Cardinality(DOMAIN vs) = Len(vs)
  BY ListedSize
<1>6. QED
  BY <1>1, <1>2, <1>3, <1>4, <1>5

\* The first time.
LEMMA FirstMeeting ==
  ASSUME NEW vs, Listed(vs), NEW v \in Range(vs)
  PROVE  FirstMet(vs, v) \in DOMAIN vs /\ vs[FirstMet(vs, v)] = v /\ FirstMet(vs, v) \in Int
<1> DEFINE S == Meetings(vs, v)
<1>1. S # {} /\ IsFiniteSet(S) /\ S \in SUBSET Int
  BY Met DEF Meetings, Range
<1>2. PICK i \in S : \A j \in S : i <= j
  BY <1>1, LeastPlace
<1>3. Len(vs) \in Nat /\ DOMAIN vs = 1 .. Len(vs)
  BY ListedLength
<1>4. i \in 1 .. Len(vs) /\ vs[i] = v
  BY <1>2, <1>3 DEF Meetings
<1>5. \A j \in 1 .. i - 1 : vs[j] # v
  <2> SUFFICES ASSUME NEW j \in 1 .. i - 1, vs[j] = v PROVE FALSE
    OBVIOUS
  <2>1. j \in 1 .. Len(vs) /\ j < i
    BY <1>3, <1>4
  <2>2. j \in S
    BY <1>3, <2>1 DEF Meetings
  <2>3. QED
    BY <1>2, <1>4, <2>1, <2>2
<1>6. \E k \in DOMAIN vs : vs[k] = v /\ \A j \in 1 .. k - 1 : vs[j] # v
  BY <1>3, <1>4, <1>5
<1>7. FirstMet(vs, v) \in DOMAIN vs /\ vs[FirstMet(vs, v)] = v
  BY <1>6 DEF FirstMet
<1>8. QED
  BY <1>3, <1>7

\* Counter ranks the values: more frequent before less, then by first meeting.
Ahead(vs) ==
  [v \in Range(vs) |->
     {w \in Range(vs) : \/ Times(vs, w) > Times(vs, v)
                        \/ /\ Times(vs, w) = Times(vs, v)
                           /\ FirstMet(vs, w) <= FirstMet(vs, v)}]

\* No two values have the same rank.
LEMMA CounterRanks ==
  ASSUME NEW vs, Listed(vs)
  PROVE  IsChain(Range(vs), Ahead(vs))
<1> DEFINE V == Range(vs)
           upto == Ahead(vs)
           t == [v \in V |-> Times(vs, v)]
           m == [v \in V |-> FirstMet(vs, v)]
<1>1. IsFiniteSet(V)
  <2> DEFINE f == [i \in DOMAIN vs |-> vs[i]]
  <2>1. f \in Surjection(DOMAIN vs, V)
    BY DEF Surjection, Range
  <2>2. IsFiniteSet(DOMAIN vs)
    BY PlacesFinite
  <2>3. QED
    BY <2>1, <2>2, FS_Surjection
<1>2. \A v \in V : t[v] \in Nat /\ m[v] \in Int
  BY Met, FirstMeeting
<1>3. \A v, w \in V : m[v] = m[w] => v = w
  <2> SUFFICES ASSUME NEW v \in V, NEW w \in V, m[v] = m[w] PROVE v = w
    OBVIOUS
  <2>1. vs[m[v]] = v /\ vs[m[w]] = w
    BY FirstMeeting
  <2>2. QED
    BY <2>1
<1>4. \A v, w \in V : w \in upto[v] <=> t[w] > t[v] \/ (t[w] = t[v] /\ m[w] <= m[v])
  BY Zenon DEF Ahead
<1>5. \A v \in V : upto[v] \subseteq V
  BY Zenon DEF Ahead
<1> HIDE DEF V, upto, t, m
<1>6. \A v \in V : v \in upto[v]
  BY <1>2, <1>4
<1>7. ASSUME NEW v \in V, NEW w \in V, v # w, v \in upto[w]
      PROVE  upto[v] \subseteq upto[w] /\ w \notin upto[v]
  <2>1. t[v] \in Nat /\ t[w] \in Nat /\ m[v] \in Int /\ m[w] \in Int /\ m[v] # m[w]
    BY <1>2, <1>3, <1>7
  <2>2. t[v] > t[w] \/ (t[v] = t[w] /\ m[v] <= m[w])
    BY <1>4, <1>7
  <2>3. ~ (t[w] > t[v] \/ (t[w] = t[v] /\ m[w] <= m[v]))
    BY <2>1, <2>2
  <2>4. ASSUME NEW x \in upto[v] PROVE x \in upto[w]
    <3>1. x \in V /\ t[x] \in Nat /\ m[x] \in Int
      BY <1>2, <1>5
    <3>2. t[x] > t[v] \/ (t[x] = t[v] /\ m[x] <= m[v])
      BY <1>4, <3>1
    <3>3. t[x] > t[w] \/ (t[x] = t[w] /\ m[x] <= m[w])
      BY <2>1, <2>2, <3>1, <3>2
    <3>4. QED
      BY <1>4, <3>1, <3>3
  <2>5. QED
    BY <1>4, <2>3, <2>4
<1>8. \A v, w \in V : v \in upto[w] \/ w \in upto[v]
  BY <1>2, <1>4
<1>9. QED
  BY <1>1, <1>5, <1>6, <1>7, <1>8 DEF IsChain, V, upto

\* The values with their counts, each once; the first n of them leave out
\* none that is more frequent.
LEMMA CountedLists ==
  ASSUME NEW vs, Listed(vs), NEW top \in Nat
  PROVE  LET V      == Range(vs)
             groups == FirstOf(Counted(vs), top)
             shown  == {groups[i][1] : i \in DOMAIN groups}
         IN  /\ IsFiniteSet(V) /\ Listed(groups)
             /\ shown \subseteq V
             /\ \A i \in DOMAIN groups : groups[i][2] = Times(vs, groups[i][1])
             /\ Cardinality(shown) = Len(groups)
             /\ \A v \in V \ shown : \A w \in shown : Times(vs, v) <= Times(vs, w)
             /\ Cardinality(V) <= top => shown = V
<1> DEFINE V == Range(vs)
           upto == Ahead(vs)
           order == Ranked(V, upto)
           n == Cardinality(V)
           all == Counted(vs)
           m == IF top > n THEN n ELSE top
           groups == FirstOf(all, top)
           shown == {groups[i][1] : i \in DOMAIN groups}
<1>1. IsChain(V, upto)
  BY CounterRanks
<1>2. all = [i \in DOMAIN order |-> <<order[i], Times(vs, order[i])>>]
  BY Zenon DEF Counted, Ahead
<1>3. \A v, w \in V : w \in upto[v] <=>
        Times(vs, w) > Times(vs, v) \/ (Times(vs, w) = Times(vs, v) /\ FirstMet(vs, w) <= FirstMet(vs, v))
  BY Zenon DEF Ahead
<1>4. \A v \in V : Times(vs, v) \in Nat
  BY Met
<1>5. groups = SubSeq(all, 1, IF top > Len(all) THEN Len(all) ELSE top)
  BY DEF FirstOf
<1>6. IsFiniteSet(V)
  BY <1>1 DEF IsChain
<1> HIDE DEF V, upto, order, all, groups
<1>7. /\ n \in Nat /\ order \in [1 .. n -> V]
      /\ \A k \in 1 .. n : Cardinality(upto[order[k]]) = k
      /\ \A x \in V : Cardinality(upto[x]) \in 1 .. n /\ order[Cardinality(upto[x])] = x
  BY <1>1, RankedLists DEF order
<1> HIDE DEF n
<1>8. /\ all \in [1 .. n -> V \X Nat]
      /\ \A i \in 1 .. n : all[i] = <<order[i], Times(vs, order[i])>>
  <2>1. DOMAIN order = 1 .. n /\ \A i \in 1 .. n : order[i] \in V
    BY <1>7
  <2>2. QED
    BY <1>2, <1>4, <2>1
<1>9. all \in Seq(V \X Nat) /\ Len(all) = n
  <2>1. all \in Seq(V \X Nat)
    BY <1>7, <1>8, SeqDef
  <2>2. Len(all) \in Nat /\ DOMAIN all = 1 .. Len(all) /\ DOMAIN all = 1 .. n
    BY <1>8, <2>1, LenProperties
  <2>3. 1 .. Len(all) = 1 .. n
    BY <2>2
  <2>4. \A a, b \in Nat : 1 .. a = 1 .. b => a = b
    OBVIOUS
  <2>5. Len(all) = n
    BY <1>7, <2>2, <2>3, <2>4, Zenon
  <2>6. QED
    BY <2>1, <2>5
<1>10. m \in Nat /\ m <= n
  BY <1>7
<1>11. groups = SubSeq(all, 1, m)
  BY <1>5, <1>9
<1>12. /\ groups \in Seq(V \X Nat) /\ Len(groups) = m
       /\ \A i \in 1 .. m : groups[i] = all[i]
  <2>1. \A i \in 1 .. m : all[i] \in V \X Nat /\ i \in 1 .. n
    BY <1>7, <1>8, <1>10
  <2>2. /\ SubSeq(all, 1, m) \in Seq(V \X Nat)
        /\ Len(SubSeq(all, 1, m)) = IF 1 <= m THEN m - 1 + 1 ELSE 0
        /\ \A i \in 1 .. m - 1 + 1 : SubSeq(all, 1, m)[i] = all[1 + i - 1]
    BY <1>10, <2>1, SubSeqProperties
  <2>3. m - 1 + 1 = m /\ \A i \in 1 .. m : 1 + i - 1 = i
    BY <1>10
  <2>4. Len(SubSeq(all, 1, m)) = m
    BY <1>10, <2>2
  <2>5. \A i \in 1 .. m : SubSeq(all, 1, m)[i] = all[i]
    BY <2>2, <2>3
  <2>6. QED
    BY <1>11, <2>2, <2>4, <2>5
<1>13. Listed(groups) /\ DOMAIN groups = 1 .. m
  BY <1>12, ListedAlone
<1>14. \A i \in 1 .. m : i \in 1 .. n /\ groups[i] = <<order[i], Times(vs, order[i])>>
  BY <1>7, <1>8, <1>10, <1>12
<1>15. \A i \in 1 .. m : order[i] \in V /\ groups[i][1] = order[i] /\ groups[i][2] = Times(vs, order[i])
  BY <1>7, <1>14
<1>16. shown = {order[i] : i \in 1 .. m}
  BY <1>13, <1>15
<1> HIDE DEF shown, m
<1>17. shown \subseteq V
  BY <1>15, <1>16
<1>18. \A i \in DOMAIN groups : groups[i][2] = Times(vs, groups[i][1])
  BY <1>13, <1>15
<1>19. Cardinality(shown) = Len(groups)
  <2> DEFINE f == [i \in 1 .. m |-> order[i]]
  <2>1. \A i, j \in 1 .. m : order[i] = order[j] => i = j
    BY <1>7, <1>14
  <2>2. f \in Bijection(1 .. m, shown)
    BY <1>16, <2>1 DEF Bijection, Injection, IsInjective, Surjection
  <2>3. IsFiniteSet(1 .. m) /\ Cardinality(1 .. m) = IF 1 > m THEN 0 ELSE m - 1 + 1
    BY <1>10, FS_Interval
  <2>4. Cardinality(shown) = Cardinality(1 .. m)
    BY <2>2, <2>3, FS_Bijection DEF ExistsBijection
  <2>5. Cardinality(1 .. m) = m
    BY <1>10, <2>3
  <2>6. QED
    BY <1>12, <2>4, <2>5
<1>20. ASSUME NEW v \in V \ shown, NEW w \in shown, ~ (Times(vs, v) <= Times(vs, w))
       PROVE  FALSE
  <2>1. PICK i \in 1 .. m : w = order[i]
    BY <1>16
  <2>2. w \in V /\ v \in V /\ v # w /\ Times(vs, v) \in Nat /\ Times(vs, w) \in Nat
    BY <1>4, <1>17, <1>20
  <2>3. Times(vs, v) > Times(vs, w)
    BY <1>20, <2>2
  <2>4. v \in upto[w]
    BY <1>3, <2>2, <2>3
  <2>5. upto[v] \subseteq upto[w] /\ upto[w] \subseteq V
    BY <1>1, <2>2, <2>4 DEF IsChain
  <2>6. Cardinality(upto[v]) <= Cardinality(upto[w])
    BY <1>6, <2>5, FS_Subset
  <2>7. Cardinality(upto[w]) = i /\ i \in 1 .. n
    BY <1>7, <1>14, <2>1
  <2>8. Cardinality(upto[v]) \in 1 .. n /\ order[Cardinality(upto[v])] = v
    BY <1>7, <2>2
  <2>9. Cardinality(upto[v]) \in 1 .. m
    BY <1>7, <1>10, <2>1, <2>6, <2>7, <2>8
  <2>10. v \in shown
    BY <1>16, <2>8, <2>9
  <2>11. QED
    BY <2>10
<1>21. ASSUME n <= top PROVE shown = V
  <2>1. m = n
    BY <1>7, <1>21 DEF m
  <2>2. \A x \in V : \E i \in 1 .. m : x = order[i]
    BY <1>7, <2>1
  <2>3. QED
    BY <1>16, <1>17, <2>2
<1>22. QED
  BY <1>6, <1>13, <1>17, <1>18, <1>19, <1>20, <1>21 DEF V, groups, shown, n, all

\* Numbering the occurrences of each value numbers all elements of a list.
LEMMA OccurrencesAddUp ==
  ASSUME NEW vs, Listed(vs)
  PROVE  Len(vs) = Cardinality({o \in Range(vs) \X (1 .. Len(vs)) : o[2] <= Times(vs, o[1])})
<1> DEFINE V == Range(vs)
           n == Len(vs)
           O == {o \in V \X (1 .. n) : o[2] <= Times(vs, o[1])}
           upto(v) == [i \in Meetings(vs, v) |-> {j \in Meetings(vs, v) : j <= i}]
           number(i) == Cardinality(upto(vs[i])[i])
           f == [i \in 1 .. n |-> <<vs[i], number(i)>>]
<1>1. n \in Nat /\ DOMAIN vs = 1 .. n
  BY ListedLength
<1>2. \A i \in 1 .. n : vs[i] \in V /\ i \in Meetings(vs, vs[i])
  BY <1>1 DEF Range, Meetings
<1>3. ASSUME NEW v
      PROVE  /\ Times(vs, v) \in Nat /\ Times(vs, v) <= n
             /\ \A i \in Meetings(vs, v) : Cardinality(upto(v)[i]) \in 1 .. Times(vs, v)
             /\ \A i, j \in Meetings(vs, v) : Cardinality(upto(v)[i]) = Cardinality(upto(v)[j]) => i = j
             /\ \A k \in 1 .. Times(vs, v) : \E i \in Meetings(vs, v) : Cardinality(upto(v)[i]) = k
  <2> DEFINE S == Meetings(vs, v)
             u == upto(v)
  <2>1. /\ IsFiniteSet(S) /\ S \in SUBSET Int /\ Times(vs, v) = Cardinality(S)
        /\ Times(vs, v) \in Nat /\ Times(vs, v) <= n
    BY Met
  <2>2. IsChain(S, u)
    BY <2>1, AscendingChain
  <2> HIDE DEF S, u
  <2>3. /\ Ranked(S, u) \in [1 .. Cardinality(S) -> S]
        /\ \A k \in 1 .. Cardinality(S) : Cardinality(u[Ranked(S, u)[k]]) = k
        /\ \A x \in S : Cardinality(u[x]) \in 1 .. Cardinality(S) /\ Ranked(S, u)[Cardinality(u[x])] = x
    BY <2>2, RankedLists
  <2>4. \A i \in S : Cardinality(u[i]) \in 1 .. Times(vs, v)
    BY <2>1, <2>3
  <2>5. \A i, j \in S : Cardinality(u[i]) = Cardinality(u[j]) => i = j
    BY <2>3
  <2>6. \A k \in 1 .. Times(vs, v) : \E i \in S : Cardinality(u[i]) = k
    BY <2>1, <2>3
  <2>7. QED
    BY <2>1, <2>4, <2>5, <2>6 DEF S, u
<1> HIDE DEF V, n, upto
<1>4. \A i \in 1 .. n : number(i) \in 1 .. Times(vs, vs[i])
  BY <1>2, <1>3
<1>5. \A i \in 1 .. n : <<vs[i], number(i)>> \in O
  <2> SUFFICES ASSUME NEW i \in 1 .. n PROVE <<vs[i], number(i)>> \in O
    OBVIOUS
  <2>1. number(i) \in 1 .. Times(vs, vs[i]) /\ Times(vs, vs[i]) \in Nat /\ Times(vs, vs[i]) <= n
    BY <1>3, <1>4
  <2> HIDE DEF number
  <2>2. number(i) \in 1 .. n /\ number(i) <= Times(vs, vs[i])
    BY <1>1, <2>1
  <2>3. QED
    BY <1>2, <2>2
<1>6. \A i, j \in 1 .. n : <<vs[i], number(i)>> = <<vs[j], number(j)>> => i = j
  <2> SUFFICES ASSUME NEW i \in 1 .. n, NEW j \in 1 .. n, vs[i] = vs[j], number(i) = number(j)
               PROVE  i = j
    OBVIOUS
  <2>1. i \in Meetings(vs, vs[i]) /\ j \in Meetings(vs, vs[i])
    BY <1>2
  <2>2. Cardinality(upto(vs[i])[i]) = Cardinality(upto(vs[i])[j])
    OBVIOUS
  <2>3. QED
    BY <1>3, <2>1, <2>2
<1>7. ASSUME NEW o \in O
      PROVE  \E i \in 1 .. n : <<vs[i], number(i)>> = o
  <2>1. o[1] \in V /\ o[2] \in 1 .. n /\ o[2] <= Times(vs, o[1]) /\ o = <<o[1], o[2]>>
    OBVIOUS
  <2>2. o[2] \in 1 .. Times(vs, o[1])
    BY <1>1, <1>3, <2>1
  <2>3. PICK i \in Meetings(vs, o[1]) : Cardinality(upto(o[1])[i]) = o[2]
    BY <1>3, <2>2
  <2>4. i \in 1 .. n /\ vs[i] = o[1]
    BY <1>1, <2>3 DEF Meetings
  <2>5. number(i) = o[2]
    BY <2>3, <2>4
  <2> HIDE DEF number
  <2>6. QED
    BY <2>1, <2>4, <2>5
<1> HIDE DEF O, number
<1>8. f \in Bijection(1 .. n, O)
  BY <1>5, <1>6, <1>7 DEF Bijection, Injection, IsInjective, Surjection
<1>9. IsFiniteSet(DOMAIN vs) /\ Cardinality(DOMAIN vs) = n
  BY PlacesFinite, ListedSize DEF n
<1>10. Cardinality(O) = n
  BY <1>1, <1>8, <1>9, FS_Bijection DEF ExistsBijection
<1>11. QED
  BY <1>10 DEF O, n, V

\* The values a call groups by, and how many records query_records counts for
\* one of them.
LEMMA ValuesCounted ==
  ASSUME case \in Cases, NEW call, call.plugin \in Plugins, Listed(call.filters)
  PROVE  LET field == Canonical(call.plugin, call.field)
             vs    == GroupedValues(call)
         IN  /\ Listed(vs)
             /\ \A v : Times(vs, v) = Len(Matched(call.plugin,
                          Append(CanonicalFilters(call.plugin, call.filters),
                                 [field |-> field, op |-> "eq", value |-> v])))
<1> DEFINE p == call.plugin
           cf == CanonicalFilters(p, call.filters)
           field == Canonical(p, call.field)
           vs == GroupedValues(call)
           all == RecordsOf(p)
           H == Hits(p, cf)
           rs == Matching(call)
           A == Ascending(H)
           n == Cardinality(H)
<1>1. Listed(cf)
  BY FiltersListed
<1>2. rs = Matched(p, cf) /\ Matched(p, cf) = Select(all, H)
  BY DEF Matching, Matched
<1>3. /\ Listed(rs) /\ IsFiniteSet(H) /\ H \in SUBSET Int /\ Len(rs) = n
  BY <1>2, MatchesListed
<1>4. vs = [i \in DOMAIN rs |-> rs[i][field]]
  BY DEF GroupedValues
<1> HIDE DEF p, cf, field, vs, all, H, rs
<1>5. n \in Nat /\ DOMAIN rs = 1 .. n
  BY <1>3, ListedLength
<1>6. A \in Bijection(1 .. n, H)
  BY <1>3, AscendingLists
<1>7. \A k \in 1 .. n : rs[k] = all[A[k]]
  BY <1>2, <1>6 DEF Select, Bijection, Injection
<1> HIDE DEF n, A
<1>8. vs = [i \in 1 .. n |-> all[A[i]][field]]
  BY <1>4, <1>5, <1>7
<1>9. Listed(vs)
  <2>1. vs \in [1 .. n -> Range(vs)]
    BY <1>8 DEF Range
  <2>2. QED
    BY <1>5, <2>1, SeqDef DEF Listed
<1>10. ASSUME NEW v
       PROVE  Times(vs, v) = Len(Matched(p, Append(cf, [field |-> field, op |-> "eq", value |-> v])))
  <2> DEFINE M == Meetings(vs, v)
             K == {i \in H : all[i][field] = v}
             g == [k \in M |-> A[k]]
  <2>1. /\ \A k \in M : k \in 1 .. n /\ A[k] \in K
        /\ \A i \in K : \E k \in M : A[k] = i
        /\ \A j, k \in M : A[j] = A[k] => j = k
    <3>1. M = {k \in 1 .. n : all[A[k]][field] = v}
      BY <1>8 DEF Meetings
    <3>2. /\ \A k \in 1 .. n : A[k] \in H
          /\ \A i \in H : \E k \in 1 .. n : A[k] = i
          /\ \A j, k \in 1 .. n : A[j] = A[k] => j = k
      BY <1>6 DEF Bijection, Injection, IsInjective, Surjection
    <3>3. QED
      BY <3>1, <3>2
  <2>2. IsFiniteSet(M) /\ Times(vs, v) = Cardinality(M)
    BY <1>9, Met
  <2>3. Len(Matched(p, Append(cf, [field |-> field, op |-> "eq", value |-> v]))) = Cardinality(K)
    BY <1>1, CountOfValue DEF H, all, p
  <2> HIDE DEF M, K
  <2>4. g \in Bijection(M, K)
    BY <2>1 DEF Bijection, Injection, IsInjective, Surjection
  <2>5. Cardinality(K) = Cardinality(M)
    BY <2>2, <2>4, FS_Bijection DEF ExistsBijection
  <2>6. QED
    BY <2>2, <2>3, <2>5
<1>11. QED
  BY <1>9, <1>10 DEF p, cf, field, vs

\* group_by answers no call with a number out of range.
LEMMA GroupGatesTaken ==
  ASSUME NEW call, FirstFailing(EvidenceGates(call) \o GroupGates(call)) = "none"
  PROVE  ~ (call.top > GroupCap \/ call.top < 0)
<1> DEFINE over == call.top > GroupCap \/ call.top < 0
           a == Gate(over, "limit_too_large")
           names == {f.field : f \in Range(CanonicalFilters(call.plugin, call.filters))}
                      \cup {Canonical(call.plugin, call.field)}
           b == Gate(~ (names \subseteq Fields[call.plugin]), "unknown_field")
<1>1. GroupGates(call) = <<a, b>>
  BY Zenon DEF GroupGates
<1> HIDE DEF over, names
<1>2. a.reason # "none" /\ b.reason # "none"
  BY GateFields
<1>3. a.fails = over
  BY GateFields, Zenon
<1> HIDE DEF a, b
<1>4. <<a, b>> \in Seq({a, b}) /\ DOMAIN <<a, b>> = 1 .. 2 /\ <<a, b>>[1] = a
      /\ \A i \in 1 .. 2 : <<a, b>>[i].reason # "none"
  BY <1>2
<1>5. Listed(<<a, b>>)
  BY <1>4, ListedAlone
<1>6. \A i \in DOMAIN <<a, b>> : ~ <<a, b>>[i].fails
  BY <1>1, <1>4, <1>5, ToolGatesTaken DEF Reasoned
<1>7. ~ a.fails
  BY <1>4, <1>6
<1>8. QED
  BY <1>3, <1>7, Zenon DEF over

\* An answered grouping is that of its call, which passed its gates.
GroupInv ==
  /\ case \in Cases
  /\ Answered("group_by") =>
       /\ answer.call \in Groupings /\ answer.call.top >= 0
       /\ Given = GroupResult(answer.call)

\* The extractions do not change, nor do their groups.
LEMMA SameGroups ==
  ASSUME case' = case, NEW call
  PROVE  GroupResult(call)' = GroupResult(call)
<1>1. GroupedValues(call)' = GroupedValues(call)
  BY Zenon DEF GroupedValues, Matching, Matched, Hits, RecordsOf
<1>2. QED
  BY <1>1, Zenon DEF GroupResult

\* Every step leaves the answer to a grouping that of its call.
LEMMA GroupStep ==
  ASSUME GroupInv, [Next]_vars
  PROVE  GroupInv'
<1> USE DEF GroupInv, Answered, Given
<1>1. CASE \E call \in Queries : QueryRecords(call)
  BY <1>1, AskLeaves DEF Left, QueryRecords
<1>2. CASE NextPage
  <2>1. \A call : Ask(call) => answer'.tool = "query_records"
    BY AskLeaves DEF Left
  <2>2. answer'.tool = "query_records" /\ case' = case
    BY <1>2, <2>1 DEF NextPage
  <2>3. QED
    BY <2>2
<1>3. CASE \E call \in Groupings : GroupBy(call)
  <2>1. PICK call \in Groupings : GroupBy(call)
    BY <1>3
  <2>2. Left("group_by", call, GroupGates(call), GroupResult(call)) /\ case' = case
    BY <2>1, GroupLeaves DEF GroupBy
  <2>3. SUFFICES ASSUME answer'.status = "ok"
                 PROVE  call.top >= 0 /\ answer'.result = GroupResult(call)'
    BY <2>2 DEF Left
  <2>4. answer'.result = GroupResult(call)'
    BY <2>2, <2>3, SameGroups DEF Left
  <2>5. ~ (call.top > GroupCap \/ call.top < 0)
    BY <2>2, <2>3, GroupGatesTaken DEF Left
  <2>6. call.top \in Int
    BY CallsAssumption
  <2>7. QED
    BY <2>4, <2>5, <2>6
<1>4. CASE \E call \in Differences : SetDifference(call)
  BY <1>4, DifferenceLeaves DEF Left, SetDifference
<1>5. CASE \E call \in Subtrees : Subtree(call)
  BY <1>5, SubtreeLeaves DEF Left, Subtree
<1>6. CASE Return
  BY <1>6 DEF Return, None
<1>7. CASE UNCHANGED vars
  <2>1. case' = case /\ answer' = answer /\ \A x : GroupResult(x)' = GroupResult(x)
    BY <1>7, SameGroups DEF vars
  <2>2. QED
    BY <2>1
<1>8. QED
  BY <1>1, <1>2, <1>3, <1>4, <1>5, <1>6, <1>7 DEF Next

\* What an answer to a grouping holds.
LEMMA GroupAnswers ==
  ASSUME NEW call
  PROVE  LET vs == GroupedValues(call)
         IN  /\ GroupResult(call).total = Len(vs)
             /\ GroupResult(call).distinct = Cardinality(Range(vs))
             /\ GroupResult(call).groups = FirstOf(Counted(vs), call.top)
BY SMT DEF GroupResult

\* Such an answer agrees with what query_records counts.
LEMMA GroupCounts ==
  ASSUME GroupInv
  PROVE  GroupsAgree
<1> DEFINE call == answer.call
           vs == GroupedValues(call)
           field == Canonical(call.plugin, call.field)
           count(v) == Len(Matched(call.plugin,
               Append(CanonicalFilters(call.plugin, call.filters),
                      [field |-> field, op |-> "eq", value |-> v])))
           groups == Given.groups
           shown == {groups[i][1] : i \in DOMAIN groups}
<1>1. SUFFICES ASSUME Answered("group_by")
      PROVE  /\ \A i \in DOMAIN groups : groups[i][2] = count(groups[i][1])
             /\ Cardinality(shown) = Len(groups)
             /\ \A v \in Range(vs) \ shown : \A w \in shown : count(v) <= count(w)
             /\ Given.distinct <= call.top => Given.total =
                  Cardinality({o \in shown \X (1 .. Given.total) : o[2] <= count(o[1])})
  BY Zenon DEF GroupsAgree
<1>2. /\ case \in Cases /\ call \in Groupings /\ call.top >= 0
      /\ Given = GroupResult(call)
  BY <1>1 DEF GroupInv
<1>3. call.plugin \in Plugins /\ Listed(call.filters) /\ call.top \in Nat
  BY <1>2, CallsAssumption DEF Plugins
<1>4. Listed(vs) /\ \A v : Times(vs, v) = count(v)
  BY <1>2, <1>3, ValuesCounted
<1>5. /\ groups = FirstOf(Counted(vs), call.top)
      /\ Given.total = Len(vs) /\ Given.distinct = Cardinality(Range(vs))
  BY <1>2, GroupAnswers
<1> HIDE DEF call, vs, groups, count
<1>6. /\ \A i \in DOMAIN groups : groups[i][2] = Times(vs, groups[i][1])
      /\ Cardinality(shown) = Len(groups)
      /\ \A v \in Range(vs) \ shown : \A w \in shown : Times(vs, v) <= Times(vs, w)
      /\ Cardinality(Range(vs)) <= call.top => shown = Range(vs)
  <2>1. Listed(vs)
    BY <1>4
  <2>2. call.top \in Nat
    BY <1>3
  <2> DEFINE first == FirstOf(Counted(vs), call.top)
             those == {first[i][1] : i \in DOMAIN first}
  <2>3. /\ \A i \in DOMAIN first : first[i][2] = Times(vs, first[i][1])
        /\ Cardinality(those) = Len(first)
        /\ \A v \in Range(vs) \ those : \A w \in those : Times(vs, v) <= Times(vs, w)
        /\ Cardinality(Range(vs)) <= call.top => those = Range(vs)
    BY <2>1, <2>2, CountedLists
  <2>4. first = groups
    BY <1>5
  <2> HIDE DEF first
  <2>5. QED
    BY <2>3, <2>4
<1> HIDE DEF shown
<1>7. ASSUME shown = Range(vs)
      PROVE  Given.total = Cardinality({o \in shown \X (1 .. Given.total) : o[2] <= count(o[1])})
  <2>1. Len(vs) = Cardinality({o \in Range(vs) \X (1 .. Len(vs)) : o[2] <= Times(vs, o[1])})
    BY <1>4, OccurrencesAddUp
  <2>2. {o \in Range(vs) \X (1 .. Len(vs)) : o[2] <= Times(vs, o[1])}
          = {o \in shown \X (1 .. Given.total) : o[2] <= count(o[1])}
    BY <1>4, <1>5, <1>7
  <2>3. QED
    BY <1>5, <2>1, <2>2
<1>8. QED
  BY <1>4, <1>5, <1>6, <1>7

\* group_by counts what query_records counts, leaves out nothing that is more
\* frequent than what it shows, and when it shows every group, their counts
\* add up to the matching records.
THEOREM Grouped == Spec => []GroupsAgree
<1>1. Init => GroupInv
  BY DEF Init, GroupInv, Answered, None
<1>2. GroupInv /\ [Next]_vars => GroupInv'
  BY GroupStep
<1>3. GroupInv => GroupsAgree
  BY GroupCounts
<1>4. QED
  BY <1>1, <1>2, <1>3, PTL DEF Spec
=============================================================================
