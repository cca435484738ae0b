----------------------------- MODULE MCPipeline -----------------------------
(* Runs over two profiles; README.md gives the bounds. *)
EXTENDS Pipeline

CONSTANTS o1, o2, o3, o4, anon, j1, j2, j3

Payload(score) ==
    [score |-> score, recommendation |-> "APPLY", missing |-> "empty", fit |-> Absent,
     coverage |-> Absent, evidence |-> "absent", exclusions |-> "absent",
     classification |-> "absent"]

MCReadable == {Payload(80), Payload(90), [Payload(95) EXCEPT !.recommendation = "SKIP"]}

\* o2 and the anonymous offer are one job; o4 is answered without an id.
MCJobOf == (o1 :> j1) @@ (o2 :> j2) @@ (anon :> j2) @@ (o3 :> j3) @@ (o4 :> NoJob)

MCRequests == <<"python", "automation">>

MCSearchResults ==
    {<<>>, <<o1>>, <<o1, o2>>, <<anon, o2>>, <<o3, o1, o2>>, <<o2, o4, anon>>}

MCConfigs ==
    {[notify |-> TRUE, onFailure |-> TRUE, breaker |-> TRUE, profiled |-> TRUE],
     [notify |-> TRUE, onFailure |-> FALSE, breaker |-> FALSE, profiled |-> FALSE]}
=============================================================================
