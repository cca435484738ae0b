---------------------- MODULE MCOpportunityIntelligence ----------------------
(* An employer's host with two pages, a tenant with two listings, another site. *)
EXTENDS OpportunityIntelligence

MCUrls == {"jobs", "team", "listing1", "listing2", "web"}
MCSite == [u \in MCUrls |->
    CASE u \in {"jobs", "team"} -> "employer" [] u = "web" -> "web" [] OTHER -> "board/acme"]
MCShortlists ==
    {<<"known">>, <<"known", "known">>, <<"invalid", "stranger", "known", "known">>,
     <<"unnamed", "known">>, <<"unprintable", "stranger">>,
     <<"stranger", "stranger", "stranger">>}
MCResponses ==
    {<<>>, <<Absent>>, <<"listing1", "listing2", "jobs">>, <<"team", "web", "team">>,
     <<"jobs", "jobs">>, <<"web", "listing1">>}
MCLinkSets == {{}, {"jobs"}, {"jobs", "listing2"}}

Vacancy(job, url, requisition, expiry) ==
    [job |-> job, url |-> url, requisition |-> requisition, expiry |-> expiry]
Open == Vacancy(TRUE, Absent, Absent, "open")
Expired == Vacancy(TRUE, Original, "r1", "expired")
Other == Vacancy(FALSE, Absent, "r1", "undated")
MCRecords == {Open, Expired, Other}
MCContents == {{}, {Open}, {Expired}, {Other}, {Open, Other}}
=============================================================================
