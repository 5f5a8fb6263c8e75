--------------------------- MODULE MCRecordGates ---------------------------
(* A small case: one analyst, the validator and the orchestrator, two tools *)
(* and the calls that take each branch of the gates.                        *)
EXTENDS RecordGates, TLC

CONSTANTS an, va, or

MCRole == (an :> "disk_analyst") @@ (va :> "validator") @@ (or :> "orchestrator")
MCHost == (an :> "h1") @@ (va :> None) @@ (or :> None)

Ref(t, i) == [tool |-> t, line |-> i]
Citable == {Ref("disk_evtx", 2), Ref("rag_query", 2)}

GoodFinding(refs) ==
    [analyst |-> "disk_analyst", registered |-> TRUE, confidence |-> "HIGH",
     refs |-> refs, host |-> None, fits |-> TRUE]
MCFindingCalls ==
    {GoodFinding({r}) : r \in Citable}
    \cup {[GoodFinding({Ref("disk_evtx", 2)}) EXCEPT !.fits = FALSE]}
    \cup {[GoodFinding({}) EXCEPT !.confidence = "DISPUTED"]}

Blank == [type |-> "corroborates", registered |-> TRUE, refs |-> {Ref("disk_evtx", 2)},
          targets |-> None, related |-> None, a |-> None, b |-> None, target |-> None,
          strength |-> "strong", analyst |-> None, hosts |-> None, fits |-> TRUE]
MCCorrelationCalls ==
    { [Blank EXCEPT !.a = <<"p", 1>>, !.b = <<"p", 0>>],
      [Blank EXCEPT !.type = "contradicts", !.targets = << <<"p", 0>>, <<"q", 2>> >>],
      [Blank EXCEPT !.type = "weakens", !.target = <<"q", 0>>],
      [Blank EXCEPT !.type = "request_followup", !.analyst = "disk_analyst", !.a = <<"p", 1>>],
      [Blank EXCEPT !.type = "cross_host", !.related = << <<"p", 1>>, <<"p", 2>> >>,
                    !.hosts = {"h1", "h2"}] }

MCUpdateCalls ==
    [id : {<<"p", 1>>}, to : {"DRAFT", "CONFIRMED"}, rule : {"R1"}, driving : {{1}},
     fits : {TRUE}]
    \cup [id : {<<"p", 1>>}, to : {"DRAFT"}, rule : {"R5"}, driving : {{}}, fits : {FALSE}]
=============================================================================
