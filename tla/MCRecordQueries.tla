-------------------------- MODULE MCRecordQueries --------------------------
(* Small extractions: two flat plugins that share the key pid, and pstree.  *)
EXTENDS RecordQueries

Num(i) == <<"int", i>>
Str(s) == <<"str", s>>
MCNothing == <<"null">>

MCFields == [A |-> {"pid", "name"}, B |-> {"pid", "owner"}, T |-> {"pid", "name"}]
MCUntrusted == [A |-> {"name"}, B |-> {"owner"}, T |-> {"name"}]
MCAlias == [A |-> [process |-> "name"], B |-> [o \in {} |-> o], T |-> [process |-> "name"]]
MCLower == [pid |-> "pid", PID |-> "pid", name |-> "name", owner |-> "owner",
            process |-> "process", Process |-> "process", hash |-> "hash", depth |-> "depth"]

Row(i, s) == [pid |-> i, name |-> Str(s)]
RowsA == {Row(Num(1), "x"), Row(Num(2), "xy"), Row(MCNothing, "x")}
ListB == [pid |-> Num(3), owner |-> <<"list", "x">>]
RowsB == {[pid |-> Num(i), owner |-> Str("z")] : i \in {2, 3}}
MCWithin == {<<Str("y"), Str("xy")>>, <<Str("x"), Str("xy")>>, <<Str("x"), Str("x")>>}
MCStarts == {<<Str("x"), Str("xy")>>, <<Str("x"), Str("x")>>}

TreeRows == [n \in 1 .. 5 |-> Row(Num(IF n < 5 THEN n ELSE 2), "x")]
Parents == {p \in [1 .. 5 -> 0 .. 4] : p[1] = 0 /\ \A n \in 1 .. 5 : p[n] < n}
Stored == [p \in {"A", "B", "T"} |-> "stored"]
Case(a, b, parent, store) ==
    [rows |-> [A |-> a, B |-> b, T |-> TreeRows], parent |-> parent, store |-> store]
Chain == [n \in 1 .. 5 |-> n - 1]
MCCases ==
    {Case(a, b, Chain, Stored) : a \in SeqOf(RowsA, 3), b \in SeqOf(RowsB, 2) \cup {<<ListB>>}}
    \cup {Case(<<>>, <<>>, p, Stored) : p \in Parents}
    \cup {Case(<<>>, <<>>, Chain, [Stored EXCEPT ![p] = s]) :
             p \in {"A", "B", "T"}, s \in {"absent", "changed"}}

Clean(plugin) == [plugin |-> plugin, inScope |-> TRUE, registered |-> TRUE]
Filter(f, op, v) == [field |-> f, op |-> op, value |-> v]
MCQueries ==
    { Clean("A") @@ [filters |-> fs, fields |-> ns, limit |-> l, offset |-> o] :
        fs \in { <<>>, <<Filter("PID", "le", Num(1))>>, <<Filter("process", "contains", Str("y"))>>,
                 <<Filter("pid", "is_not_null", MCNothing), Filter("name", "gt", Num(1))>>,
                 <<Filter("hash", "eq", Num(1))>> },
        ns \in { <<>>, <<"Process">>, <<"hash", "pid">> },
        l \in {1, 2, 3}, o \in {0, 1} }
    \cup { [Clean("A") EXCEPT !.inScope = FALSE] @@
             [filters |-> <<>>, fields |-> <<>>, limit |-> 1, offset |-> 0] }
MCGroupings ==
    { Clean(p) @@ [filters |-> fs, field |-> f, top |-> n] :
        p \in {"A", "B", "T"}, fs \in {<<>>, <<Filter("pid", "ge", Num(1))>>},
        f \in {"process", "owner", "pid"}, n \in {0, 1, 2, 3} }
MCDifferences ==
    { Clean("-") @@ [a |-> x, b |-> y, key |-> k, direction |-> d, fields |-> ns, limit |-> l] :
        x \in {"A", "T"}, y \in {"A", "B"}, k \in {"pid", "owner"}, d \in Directions,
        ns \in {<<>>, <<"name">>}, l \in {0, 2, 9} }
MCSubtrees ==
    { Clean("T") @@ [root |-> Num(r), depth |-> d, fields |-> ns] :
        r \in {1, 2, 7}, d \in {0, 1, 2, 3}, ns \in {<<>>, <<"depth", "process">>} }
=============================================================================
