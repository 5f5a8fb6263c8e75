--------------------------- MODULE RecordQueries ---------------------------
(* The four analytical tools (server/tools/analytical.py) over the stored   *)
(* extractions of one piece of evidence: query_records, group_by,           *)
(* set_difference and subtree.  A call answers with rows, with a refusal or *)
(* by raising, and leaves lines on the audit log; a client reads a long     *)
(* answer page by page.                                                     *)
(*                                                                          *)
(* Extractions models how they get stored; here they do not change.  Field  *)
(* names are members of small sets, values are tagged so that comparing two *)
(* kinds is what Python makes of it.                                        *)
EXTENDS Integers, Sequences, FiniteSets, SequencesExt

CONSTANTS
    Flat, Tree,              \* plugins whose records are a list; the pstree plugin
    Fields, Untrusted,       \* of each plugin: its columns, those holding evidence text
    Alias,                   \* of each plugin: synonyms and the columns they stand for
    Lower,                   \* a name without its capitals
    Within, Starts,          \* pairs of values: text in text, text at its start
    Nothing,                 \* a field without a value
    QueryCap, GroupCap, DiffCap, DepthCap, NodeCap,
    Cases,                   \* extractions on file: [rows, parent, store]
    Queries, Groupings, Differences, Subtrees     \* arguments the client tries

VARIABLES
    case,       \* the extractions; rows[p] is a sequence of records, the k-th row
                \* of Tree belongs to the process whose parent is the parent[k]-th
    answer,     \* what the last call returned
    trail,      \* the audit lines the last call left
    seen        \* the rows of the pages read so far

vars == <<case, answer, trail, seen>>

None == [tool |-> "none"]

----------------------------------------------------------------------------
(* Orders and selections                                                    *)

(* The elements of S as a sequence; upto[x] is x and those that precede it. *)
Ranked(S, upto) == [k \in 1 .. Cardinality(S) |-> CHOOSE x \in S : Cardinality(upto[x]) = k]
Ascending(S) == Ranked(S, [x \in S |-> {y \in S : y <= x}])

(* The elements of a sequence at some of its places, in their order.        *)
Select(s, places) ==
    LET order == Ascending(places) IN [k \in DOMAIN order |-> s[order[k]]]

----------------------------------------------------------------------------
(* Names of fields                                                          *)

Unique(S) == CHOOSE x \in S : TRUE
Alike(S, n) == {m \in S : Lower[m] = Lower[n]}

(* _canonicalize_field: an alias first, then a column but for capitals,     *)
(* then an alias but for capitals; other names stay as they are.            *)
Canonical(p, n) ==
    IF n \in DOMAIN Alias[p] THEN Alias[p][n]
    ELSE IF Alike(Fields[p], n) # {} THEN Unique(Alike(Fields[p], n))
    ELSE IF Alike(DOMAIN Alias[p], n) # {} THEN Alias[p][Unique(Alike(DOMAIN Alias[p], n))]
    ELSE n

CanonicalFilters(p, fs) == [i \in DOMAIN fs |-> [fs[i] EXCEPT !.field = Canonical(p, @)]]
CanonicalNames(p, ns) == [i \in DOMAIN ns |-> Canonical(p, ns[i])]
Known(p, ns) == Select(ns, {i \in DOMAIN ns : ns[i] \in Fields[p]})

(* untrusted_fields_for: those of the columns that are projected; all of    *)
(* them when there is no projection.                                        *)
Marks(p, ns) == IF ns = <<>> THEN Untrusted[p] ELSE Untrusted[p] \cap Range(ns)

----------------------------------------------------------------------------
(* Records                                                                  *)

(* The processes of the tree, each before its children.                     *)
Kids(c, n) == Ascending({m \in DOMAIN c.parent : c.parent[m] = n})
Flattened(c) ==
    LET preorder[ns \in Seq(Nat)] ==
            IF ns = <<>> THEN <<>>
            ELSE <<Head(ns)>> \o preorder[Kids(c, Head(ns))] \o preorder[Tail(ns)]
    IN  preorder[Kids(c, 0)]

RecordsOf(p) ==
    IF p = Tree
    THEN LET order == Flattened(case) IN [i \in DOMAIN order |-> case.rows[Tree][order[i]]]
    ELSE case.rows[p]

(* What was extracted: lists of records with the columns of their plugin    *)
(* (the row types of server/schemas.py), and trees whose walk ends.         *)
Listed(s) == s \in Seq(Range(s))
ASSUME CasesAssumption ==
    \A c \in Cases :
        /\ \A p \in Flat : Listed(c.rows[p])
        /\ Flattened(c) \in Seq(DOMAIN c.rows[Tree])
        /\ \A p \in Flat \cup {Tree} : \A r \in Range(c.rows[p]) : DOMAIN r = Fields[p]

(* What the types of the tools' parameters let through.                     *)
ASSUME CallsAssumption ==
    /\ \A call \in Queries \cup Groupings :
          call.plugin \in Flat \cup {Tree} /\ Listed(call.filters)
    /\ \A call \in Queries :
          /\ {"plugin", "filters", "fields", "limit", "offset"} \subseteq DOMAIN call
          /\ Listed(call.fields) /\ call.limit \in Int /\ call.offset \in Int
    /\ \A call \in Groupings : call.top \in Int
    /\ \A call \in Differences : {call.a, call.b} \subseteq Flat \cup {Tree} /\ call.limit \in Int

(* A projection; a record has no value in a column it does not have.        *)
Project(r, ns) ==
    IF ns = <<>> THEN r
    ELSE [f \in Range(ns) |-> IF f \in DOMAIN r THEN r[f] ELSE Nothing]

Ordering == {"lt", "le", "gt", "ge"}

(* One clause on one value: it holds, it does not, or Python raises because *)
(* the kinds cannot be compared.                                            *)
Clause(f, v) ==
    LET test(b) == IF b THEN "yes" ELSE "no"
        kinds == f.value[1] = v[1]
    IN  CASE f.op = "eq"          -> test(v = f.value)
          [] f.op = "ne"          -> test(v # f.value)
          [] f.op = "is_null"     -> test(v = Nothing)
          [] f.op = "is_not_null" -> test(v # Nothing)
          [] f.op \in Ordering /\ (v = Nothing \/ f.value = Nothing) -> "no"
          [] f.op \in Ordering /\ v # Nothing /\ f.value # Nothing ->
               IF ~ kinds THEN "raise"
               ELSE test(CASE f.op = "lt" -> v[2] < f.value[2]
                           [] f.op = "le" -> v[2] <= f.value[2]
                           [] f.op = "gt" -> v[2] > f.value[2]
                           [] f.op = "ge" -> v[2] >= f.value[2])
          [] f.op = "contains" ->
               IF v = Nothing THEN "no"
               ELSE IF f.value[1] # "str" THEN "raise" ELSE test(<<f.value, v>> \in Within)
          [] f.op = "starts_with" -> test(v # Nothing /\ <<f.value, v>> \in Starts)

(* The clauses are tried in order up to the first that does not hold.       *)
Verdict(r, fs) ==
    LET not == {i \in DOMAIN fs : Clause(fs[i], r[fs[i].field]) # "yes"}
    IN  IF not = {} THEN "yes"
        ELSE LET i == CHOOSE i \in not : \A j \in not : i <= j
             IN  Clause(fs[i], r[fs[i].field])

Hits(p, fs) == {i \in DOMAIN RecordsOf(p) : Verdict(RecordsOf(p)[i], fs) = "yes"}
Matched(p, fs) == Select(RecordsOf(p), Hits(p, fs))
Raises(p, fs) == \E r \in Range(RecordsOf(p)) : Verdict(r, fs) = "raise"
Hashable(v) == v[1] # "list"
Count(s, Test(_)) == Cardinality({i \in DOMAIN s : Test(s[i])})

----------------------------------------------------------------------------
(* Gates and outcomes, the same for the four tools                          *)

Gate(fails, reason) == [fails |-> fails, reason |-> reason]
FirstFailing(gates) ==
    LET bad == {i \in DOMAIN gates : gates[i].fails}
    IN  IF bad = {} THEN "none"
        ELSE gates[CHOOSE i \in bad : \A j \in bad : i <= j].reason

EvidenceGates(call) == << Gate(~ call.inScope, "evidence_id_out_of_scope"),
                          Gate(~ call.registered, "evidence_not_found") >>

LoadGates(p) == << Gate(case.store[p] = "absent", "extraction_not_found"),
                   Gate(case.store[p] = "changed", "hash_mismatch") >>

(* A call passes its gates, drops the unknown names of its projection,      *)
(* loads what it needs, and answers; only then does it take an audit line   *)
(* of its own.  What raises in between leaves none.                         *)
Serve(tool, call, gates, dropped, loads, raises, result) ==
    LET early == FirstFailing(EvidenceGates(call) \o gates)
        late  == FirstFailing(loads)
        drop  == IF dropped THEN <<"unknown_projection_dropped">> ELSE <<>>
        reply(s) == [tool |-> tool, call |-> call, status |-> s, result |-> None]
    IN  \/ /\ early # "none"
           /\ trail' = <<early>> /\ answer' = reply("refused")
        \/ /\ early = "none" /\ late # "none"
           /\ trail' = Append(drop, late) /\ answer' = reply("refused")
        \/ /\ early = "none" /\ late = "none" /\ raises
           /\ trail' = drop /\ answer' = reply("raised")
        \/ /\ early = "none" /\ late = "none" /\ ~ raises
           /\ trail' = Append(drop, "ok") /\ answer' = [reply("ok") EXCEPT !.result = result]

----------------------------------------------------------------------------
(* query_records                                                            *)

QueryGates(call) ==
    << Gate(call.limit > QueryCap \/ call.limit < 0 \/ call.offset < 0, "limit_too_large"),
       Gate(Range(CanonicalFilters(call.plugin, call.filters)) # {} /\
            \E f \in Range(CanonicalFilters(call.plugin, call.filters)) :
                f.field \notin Fields[call.plugin], "unknown_field") >>

(* The records the filters of a call let through, the columns it asks for.  *)
Matching(call) == Matched(call.plugin, CanonicalFilters(call.plugin, call.filters))
Columns(call)  == Known(call.plugin, CanonicalNames(call.plugin, call.fields))

MarksRaw(call) == Marks(call.plugin, call.fields)
QueryMarks(call) == Marks(call.plugin, Columns(call))

PageShort(matched, offset, limit) ==
    SubSeq(matched, offset + 1,
           IF offset + limit > Len(matched) THEN Len(matched) - 1 ELSE offset + limit - 1)
Page(matched, offset, limit) ==
    SubSeq(matched, offset + 1,
           IF offset + limit > Len(matched) THEN Len(matched) ELSE offset + limit)

QueryResult(call) ==
    LET matched == Matching(call)
        page    == Page(matched, call.offset, call.limit)
    IN  [matched   |-> Len(matched),
         rows      |-> [i \in DOMAIN page |-> Project(page[i], Columns(call))],
         truncated |-> Len(matched) > call.offset + call.limit,
         untrusted |-> QueryMarks(call)]

Ask(call) ==
    Serve("query_records", call, QueryGates(call),
          Columns(call) # CanonicalNames(call.plugin, call.fields),
          LoadGates(call.plugin),
          Raises(call.plugin, CanonicalFilters(call.plugin, call.filters)),
          QueryResult(call))

QueryRecords(call) ==
    /\ answer = None
    /\ Ask(call)
    /\ seen' = IF answer'.status = "ok" THEN answer'.result.rows ELSE <<>>
    /\ UNCHANGED case

(* The client goes on where the page ended.                                 *)
NextPage ==
    /\ answer.tool = "query_records" /\ answer.status = "ok"
    /\ answer.result.truncated /\ answer.call.limit > 0
    /\ Ask([answer.call EXCEPT !.offset = @ + answer.call.limit])
    /\ seen' = IF answer'.status = "ok" THEN seen \o answer'.result.rows ELSE seen
    /\ UNCHANGED case

----------------------------------------------------------------------------
(* group_by                                                                 *)

GroupGates(call) ==
    LET names == {f.field : f \in Range(CanonicalFilters(call.plugin, call.filters))}
                   \cup {Canonical(call.plugin, call.field)}
    IN  << Gate(call.top > GroupCap \/ call.top < 0, "limit_too_large"),
           Gate(~ (names \subseteq Fields[call.plugin]), "unknown_field") >>

Times(vs, v) == Count(vs, LAMBDA w : w = v)
FirstMet(vs, v) == CHOOSE i \in DOMAIN vs : vs[i] = v /\ \A j \in 1 .. i - 1 : vs[j] # v

CountedByMeeting(vs) ==
    LET order == Ranked(Range(vs), [v \in Range(vs) |->
            {w \in Range(vs) : FirstMet(vs, w) <= FirstMet(vs, v)}])
    IN  [i \in DOMAIN order |-> <<order[i], Times(vs, order[i])>>]

(* Counter: the values with their counts, the more frequent first, those of *)
(* equal count in the order they were met.                                  *)
Counted(vs) ==
    LET order == Ranked(Range(vs), [v \in Range(vs) |->
            {w \in Range(vs) : \/ Times(vs, w) > Times(vs, v)
                               \/ /\ Times(vs, w) = Times(vs, v)
                                  /\ FirstMet(vs, w) <= FirstMet(vs, v)}])
    IN  [i \in DOMAIN order |-> <<order[i], Times(vs, order[i])>>]

FirstOf(s, n) == SubSeq(s, 1, IF n > Len(s) THEN Len(s) ELSE n)

GroupedValues(call) ==
    LET rs == Matching(call)
    IN  [i \in DOMAIN rs |-> rs[i][Canonical(call.plugin, call.field)]]

GroupResult(call) ==
    LET vs == GroupedValues(call) IN
    [total     |-> Len(vs),
     distinct  |-> Cardinality(Range(vs)),
     groups    |-> FirstOf(Counted(vs), call.top),
     untrusted |-> IF Canonical(call.plugin, call.field) \in Untrusted[call.plugin]
                   THEN {"groups_keys"} ELSE {}]

GroupBy(call) ==
    /\ answer = None
    /\ Serve("group_by", call, GroupGates(call), FALSE, LoadGates(call.plugin),
             \/ Raises(call.plugin, CanonicalFilters(call.plugin, call.filters))
             \/ \E v \in Range(GroupedValues(call)) : ~ Hashable(v),
             GroupResult(call))
    /\ UNCHANGED <<case, seen>>

----------------------------------------------------------------------------
(* set_difference                                                           *)

Directions == {"a_minus_b", "b_minus_a", "symmetric"}

(* The key is taken as it is: no alias, no capitals.                        *)
DifferenceGates(call) ==
    << Gate(call.direction \notin Directions, "invalid_key"),
       Gate(call.a = call.b, "same_plugin"),
       Gate(call.limit > DiffCap \/ call.limit < 0, "limit_too_large"),
       Gate(call.key \notin Fields[call.a] \cap Fields[call.b], "invalid_key") >>

Source(call) == IF call.direction = "b_minus_a" THEN call.b ELSE call.a
Projected(call) == Known(Source(call), CanonicalNames(Source(call), call.fields))

KeysOf(rs, key) == {r[key] : r \in Range(rs)} \ {Nothing}
DuplicatesOfAll(rs, key) == Len(rs) - Cardinality(KeysOf(rs, key))
Duplicates(rs, key) == Count(rs, LAMBDA r : r[key] # Nothing) - Cardinality(KeysOf(rs, key))

ReturnedKeys(direction, ka, kb) ==
    IF direction = "a_minus_b" THEN ka \ kb
    ELSE IF direction = "b_minus_a" THEN kb \ ka
    ELSE (ka \ kb) \cup (kb \ ka)

(* The limit is looked at after a row is taken.                             *)
UpTo(s, limit) == FirstOf(s, IF limit = 0 THEN 1 ELSE limit)

(* Rows of a symmetric difference come from both sides, a's first.          *)
SourceRecords(call) ==
    IF call.direction = "a_minus_b" THEN RecordsOf(call.a)
    ELSE IF call.direction = "b_minus_a" THEN RecordsOf(call.b)
    ELSE RecordsOf(call.a) \o RecordsOf(call.b)

Differing(call) ==
    LET source == SourceRecords(call)
        keys   == ReturnedKeys(call.direction, KeysOf(RecordsOf(call.a), call.key),
                                               KeysOf(RecordsOf(call.b), call.key))
    IN  Select(source, {i \in DOMAIN source : source[i][call.key] \in keys})

(* Their number and not the limit decides whether some are missing.         *)
DifferenceResult(call) ==
    LET ra == RecordsOf(call.a)  ka == KeysOf(ra, call.key)
        rb == RecordsOf(call.b)  kb == KeysOf(rb, call.key)
        taken == UpTo(Differing(call), call.limit)
    IN  [aOnly |-> Cardinality(ka \ kb), bOnly |-> Cardinality(kb \ ka),
         both  |-> Cardinality(ka \cap kb),
         aRecords |-> Len(ra), bRecords |-> Len(rb),
         aDuplicates |-> Duplicates(ra, call.key), bDuplicates |-> Duplicates(rb, call.key),
         rows      |-> [i \in DOMAIN taken |-> Project(taken[i], Projected(call))],
         truncated |-> Len(Differing(call)) > Len(taken),
         untrusted |-> Marks(Source(call), Projected(call))]

SetDifference(call) ==
    /\ answer = None
    /\ Serve("set_difference", call, DifferenceGates(call),
             Projected(call) # CanonicalNames(Source(call), call.fields),
             LoadGates(call.a) \o LoadGates(call.b),
             \E p \in {call.a, call.b} : \E r \in Range(RecordsOf(p)) : ~ Hashable(r[call.key]),
             DifferenceResult(call))
    /\ UNCHANGED <<case, seen>>

----------------------------------------------------------------------------
(* subtree                                                                  *)

(* The plugin, the depth, and then the name "depth", which every node has   *)
(* and no projection needs.                                                 *)
SubtreeGates(call) ==
    << Gate(call.plugin # Tree, "invalid_key"),
       Gate(call.depth > DepthCap \/ call.depth < 0, "limit_too_large") >>

SubtreeNames(call) ==
    LET names == CanonicalNames(Tree, call.fields)
    IN  Select(names, {i \in DOMAIN names : names[i] # "depth"})

(* visit, over nodes of one parent: a node is kept while there is room, its *)
(* children are visited while there is room and depth.                      *)
Walks == [nodes : Seq(Nat \X Nat), deepest : Nat]
Visit[acc \in Walks, ns \in Seq(Nat), d \in Nat, max \in Nat] ==
    IF ns = <<>> \/ Len(acc.nodes) >= NodeCap THEN acc
    ELSE LET here  == [nodes   |-> Append(acc.nodes, <<Head(ns), d>>),
                       deepest |-> IF d > acc.deepest THEN d ELSE acc.deepest]
             below == IF d >= max THEN here ELSE Visit[here, Kids(case, Head(ns)), d + 1, max]
         IN  Visit[below, Tail(ns), d, max]

Descendants[ns \in Seq(Nat), depth \in Nat] ==
    IF ns = <<>> \/ depth = 0 THEN 0
    ELSE 1 + Descendants[Kids(case, Head(ns)), depth - 1] + Descendants[Tail(ns), depth]

(* _find_pstree_node: the first in preorder; ids of processes recur.        *)
RootsOf(call) ==
    LET order == Flattened(case)
    IN  Select(order, {i \in DOMAIN order : case.rows[Tree][order[i]]["pid"] = call.root})

TruncatedAtCap(nodes, root, depth) == Len(nodes) >= NodeCap
Truncated(nodes, root, depth) ==
    /\ Len(nodes) >= NodeCap
    /\ Descendants[Kids(case, root), depth] > Len(nodes) - 1

SubtreeResult(call) ==
    LET root  == Head(RootsOf(call))
        names == Known(Tree, SubtreeNames(call))
        walk  == Visit[[nodes |-> <<>>, deepest |-> 0], <<root>>, 0, call.depth]
    IN  [nodes     |-> walk.nodes,
         rows      |-> [i \in DOMAIN walk.nodes |->
                          Project(case.rows[Tree][walk.nodes[i][1]], names)],
         deepest   |-> walk.deepest,
         descendants |-> Len(walk.nodes) - 1,
         truncated |-> Truncated(walk.nodes, root, call.depth),
         untrusted |-> Marks(Tree, names)]

Subtree(call) ==
    /\ answer = None
    /\ Serve("subtree", call, SubtreeGates(call),
             Known(Tree, SubtreeNames(call)) # SubtreeNames(call),
             LoadGates(Tree) \o << Gate(RootsOf(call) = <<>>, "root_not_found") >>,
             FALSE, SubtreeResult(call))
    /\ UNCHANGED <<case, seen>>

----------------------------------------------------------------------------

(* The client is done with an answer.                                       *)
Return ==
    /\ answer # None
    /\ answer' = None /\ trail' = <<>> /\ seen' = <<>>
    /\ UNCHANGED case

Init == case \in Cases /\ answer = None /\ trail = <<>> /\ seen = <<>>

Next ==
    \/ \E call \in Queries : QueryRecords(call)
    \/ NextPage
    \/ \E call \in Groupings : GroupBy(call)
    \/ \E call \in Differences : SetDifference(call)
    \/ \E call \in Subtrees : Subtree(call)
    \/ Return

Spec == Init /\ [][Next]_vars

----------------------------------------------------------------------------
(* Properties                                                               *)

Answered(tool) == answer.tool = tool /\ answer.status = "ok"
Given == answer.result
Text(v) == v[1] = "str"

(* An answer has rows with columns of their plugin only, whatever names the *)
(* client asked for.                                                        *)
TypeOK ==
    /\ answer = None \/ answer.status \in {"ok", "refused", "raised"}
    /\ Len(trail) <= 2
    /\ Answered("query_records") =>
         \A r \in Range(seen) : DOMAIN r \subseteq Fields[answer.call.plugin]
    /\ Answered("subtree") => \A r \in Range(Given.rows) : DOMAIN r \subseteq Fields[Tree]

(* A client that follows "truncated" from page to page has read, at the     *)
(* last page, every record that matches, once and in the order on file      *)
(* (query_records: "truncated is True iff matched_count > limit + offset"). *)
PagesCover ==
    Answered("query_records") /\ ~ Given.truncated /\ answer.call.limit > 0 =>
        LET call  == answer.call
            start == call.offset + Len(Given.rows) - Len(seen)
            all   == Matching(call)
        IN  /\ Len(seen) = IF start > Len(all) THEN 0 ELSE Len(all) - start
            /\ \A i \in DOMAIN seen : \A f \in DOMAIN seen[i] :
                   seen[i][f] = all[start + i][f]

(* Two tools agree: the count of every group is what query_records counts   *)
(* for that value; nothing that is left out is more frequent than what is   *)
(* shown; and the groups of an untruncated answer add up.                   *)
GroupsAgree ==
    Answered("group_by") =>
        LET call  == answer.call
            field == Canonical(call.plugin, call.field)
            count(v) == Len(Matched(call.plugin,
                Append(CanonicalFilters(call.plugin, call.filters),
                       [field |-> field, op |-> "eq", value |-> v])))
            shown == {Given.groups[i][1] : i \in DOMAIN Given.groups}
        IN  /\ \A i \in DOMAIN Given.groups : Given.groups[i][2] = count(Given.groups[i][1])
            /\ Cardinality(shown) = Len(Given.groups)
            /\ \A v \in Range(GroupedValues(call)) \ shown : \A w \in shown : count(v) <= count(w)
            /\ Given.distinct <= call.top => Given.total =
                 Cardinality({o \in shown \X (1 .. Given.total) : o[2] <= count(o[1])})

(* The counts of a difference account for every record of both extractions, *)
(* aliased and keyless ones included, and the rows of an untruncated answer *)
(* are all records of the keys found on one side only.                      *)
DifferenceBalanced ==
    Answered("set_difference") =>
        LET call == answer.call
            nulls(p) == Count(RecordsOf(p), LAMBDA r : r[call.key] = Nothing)
            alone(p, q) == {i \in DOMAIN RecordsOf(p) :
                /\ RecordsOf(p)[i][call.key] # Nothing
                /\ \A r \in Range(RecordsOf(q)) : r[call.key] # RecordsOf(p)[i][call.key]}
            lone == (IF call.direction = "b_minus_a" THEN 0 ELSE Cardinality(alone(call.a, call.b)))
                  + (IF call.direction = "a_minus_b" THEN 0 ELSE Cardinality(alone(call.b, call.a)))
        IN  /\ Given.aRecords = Given.aOnly + Given.both + Given.aDuplicates + nulls(call.a)
            /\ Given.bRecords = Given.bOnly + Given.both + Given.bDuplicates + nulls(call.b)
            /\ Given.truncated <=> Len(Given.rows) < lone
            /\ Len(Given.rows) <= lone
            /\ call.limit > 0 => Len(Given.rows) <= call.limit

(* m is n or at most d generations below it.                                *)
Under[m \in Nat, n \in Nat, d \in Nat] ==
    m = n \/ (d > 0 /\ m # 0 /\ Under[case.parent[m], n, d - 1])

(* A subtree holds the root and its descendants down to the depth asked     *)
(* for, each once and after its parent; it is marked truncated exactly if   *)
(* the cap left some of them out.                                           *)
SubtreeWhole ==
    Answered("subtree") =>
        LET root  == Given.nodes[1][1]
            whole == {m \in DOMAIN case.parent : Under[m, root, answer.call.depth]}
            kept  == {Given.nodes[i][1] : i \in DOMAIN Given.nodes}
        IN  /\ kept \subseteq whole /\ Cardinality(kept) = Len(Given.nodes)
            /\ Len(Given.nodes) = IF Cardinality(whole) > NodeCap THEN NodeCap ELSE Cardinality(whole)
            /\ Given.truncated <=> Cardinality(whole) > NodeCap
            /\ \A i \in 2 .. Len(Given.nodes) : \E j \in 1 .. i - 1 :
                  /\ case.parent[Given.nodes[i][1]] = Given.nodes[j][1]
                  /\ Given.nodes[i][2] = Given.nodes[j][2] + 1
            /\ Given.deepest = CHOOSE d \in {Given.nodes[i][2] : i \in DOMAIN Given.nodes} :
                  \A i \in DOMAIN Given.nodes : Given.nodes[i][2] <= d

(* Every text of the evidence in an answer is marked as such, under the     *)
(* name its column has in the answer, also when the client used a synonym   *)
(* (symmetric differences excepted, whose rows come from two plugins).      *)
UntrustedMarked ==
    LET marked(p) == \A r \in Range(Given.rows) : \A f \in DOMAIN r \cap Untrusted[p] :
                        Text(r[f]) => f \in Given.untrusted
    IN  /\ Answered("query_records") => marked(answer.call.plugin)
        /\ Answered("subtree") => marked(Tree)
        /\ Answered("set_difference") /\ answer.call.direction # "symmetric"
              => marked(Source(answer.call))
        /\ Answered("group_by") => \A i \in DOMAIN Given.groups :
              Text(Given.groups[i][1])
                /\ Canonical(answer.call.plugin, answer.call.field) \in Untrusted[answer.call.plugin]
              => Given.untrusted = {"groups_keys"}

(* "Every tool call appears in the audit chain ... success and rejection    *)
(* paths" (docs/accuracy-report.md:552).                                    *)
EveryCallTraced ==
    answer # None => trail \notin {<<>>, <<"unknown_projection_dropped">>}
=============================================================================
