------------------------------- MODULE Sources -------------------------------
(****************************************************************************)
(* The source adapters and the search loop of JobTrailAutomation.run: one   *)
(* adapter after the other is asked for jobs.  JobSpy and Adzuna ask one    *)
(* endpoint; Lever and Greenhouse ask a board after the other until they    *)
(* have results_wanted rows.  Every request is retried by retry_call.       *)
(*                                                                          *)
(* A response is the sequence of its rows, and a row is a job, a job        *)
(* without an id, or no JSON object at all.                                 *)
(****************************************************************************)
EXTENDS Integers, SequencesExt, Ordering

CONSTANTS
    Configured,     \* the adapters of the run, in order
    Profiles,       \* the search profiles, by the number of locations of each
    Locations,      \* the number of locations of the configuration
    BoardCount,     \* the boards configured for an ATS adapter
    ResultsWanted,  \* of the ATS configuration
    MaxAttempts,    \* RetryPolicy.max_attempts
    Pages           \* the row sequences a response may hold

Adapters == {"jobspy", "adzuna", "lever", "greenhouse"}
Rows == {"job", "idless", "noise"}

ASSUME SourcesConfigOK ==
    /\ Configured \in Seq(Adapters)
    /\ Profiles \in Seq(Nat)
    /\ Locations \in Nat
    /\ BoardCount \in Nat \ {0}
    /\ ResultsWanted \in Int
    /\ MaxAttempts \in Nat \ {0}
    /\ \A page \in Pages : page \in Seq(Rows)

IsATS(adapter) == adapter \in {"lever", "greenhouse"}

\* Without profiles there is one request for each location of the configuration.
ProfileNumbers == IF Profiles = <<>> THEN {0} ELSE DOMAIN Profiles

\* source_search_requests and ats_source_search_requests: a board knows no
\* location, and a profile without locations takes those of the configuration.
RequestsFor(adapter, profile) ==
    CASE IsATS(adapter) -> 1
      [] profile = 0 \/ Profiles[profile] = 0 -> Locations
      [] OTHER -> Profiles[profile]

\* The calls of adapter.search, as an adapter, a profile and a location.
Calls ==
    UNION {{<<pair[1], pair[2], n>> : n \in 1 .. RequestsFor(Configured[pair[1]], pair[2])} :
           pair \in (DOMAIN Configured) \X ProfileNumbers}

\* The order of the three loops.
CallOrder ==
    {pair \in Calls \X Calls :
        LET c == pair[1]
            d == pair[2]
        IN  \/ c[1] < d[1]
            \/ c[1] = d[1] /\ c[2] < d[2]
            \/ c[1] = d[1] /\ c[2] = d[2] /\ c[3] < d[3]}

\* The adapter that each call asks.
Searches == [n \in 1 .. Cardinality(Calls) |-> Configured[InOrder(Calls, CallOrder)[n][1]]]

VARIABLES
    search,    \* the search that runs
    step,
    jobs,      \* its rows so far, as pairs of board and row number
    asked,     \* what became of the requests to the current board
    result,    \* how each search ended
    \* History, read by the properties only.
    answered   \* the pages that the boards of this search have answered

sources == <<search, step, jobs, asked, result, answered>>

\* How a request can fail: a 4xx, a 3xx, a 5xx or a transport error, a body
\* that is not JSON.
Failures == {"rejected", "moved", "outage", "garbled"}

Adapter == Searches[search]
Boards(adapter) == IF IsATS(adapter) THEN BoardCount ELSE 1
Cap == IF ResultsWanted > 0 THEN ResultsWanted ELSE 0

SourcesTypeOK ==
    /\ search \in 1..Len(Searches) + 1
    /\ step \in {"ask", "returned"}
    /\ jobs \in Seq((1..BoardCount) \X Nat)
    /\ asked \in Seq({"outage"})
    /\ result \in [DOMAIN Searches -> {"none", "jobs", "exhausted", "terminal"}]
    /\ answered \in Seq(Pages \cup {<<>>})

SourcesInit ==
    /\ search = 1
    /\ step = "ask"
    /\ jobs = <<>>
    /\ asked = <<>>
    /\ result = [s \in DOMAIN Searches |-> "none"]
    /\ answered = <<>>

-----------------------------------------------------------------------------
(* One response. *)

\* normalize_*: which rows of a page the adapter makes a job of.  JobSpy
\* stumbles over a row that is no object.
Keeps(adapter, row) ==
    \/ row = "job"
    \/ row = "idless" /\ ~IsATS(adapter)

Kept(adapter, board, page) ==
    LET numbers == {i \in DOMAIN page : Keeps(adapter, page[i])}
    IN  [k \in 1 .. Cardinality(numbers) |-> <<board, Ascending(numbers)[k]>>]

\* Deviation: results_wanted is meant for each board.
CapPerBoard(adapter, rows, more) ==
    rows \o (IF IsATS(adapter) /\ Len(more) > Cap
             THEN SubSeq(more, 1, Cap) ELSE more)

\* The cap holds for all boards together.
Capped(adapter, rows, more) ==
    IF IsATS(adapter) /\ Len(rows \o more) > Cap
    THEN SubSeq(rows \o more, 1, Cap)
    ELSE rows \o more

Stumbles(adapter, page) ==
    adapter = "jobspy" /\ \E i \in DOMAIN page : page[i] = "noise"

\* The loop over the boards goes on.
Asking ==
    /\ search <= Len(Searches)
    /\ step = "ask"
    /\ Len(answered) < Boards(Adapter)
    /\ IsATS(Adapter) => Len(jobs) < Cap

\* An empty body, and for Greenhouse one that is not JSON, is an empty page.
Answer(page) ==
    /\ Asking
    /\ ~Stumbles(Adapter, page)
    /\ jobs' = Capped(Adapter, jobs, Kept(Adapter, Len(answered) + 1, page))
    /\ answered' = Append(answered, page)
    /\ asked' = <<>>
    /\ UNCHANGED <<search, step, result>>

Empty ==
    /\ Asking
    /\ IsATS(Adapter)
    /\ answered' = Append(answered, <<>>)
    /\ asked' = <<>>
    /\ UNCHANGED <<search, step, jobs, result>>

\* What is lost with the search is every row of the boards before.
Raises(label) ==
    /\ result' = [result EXCEPT ![search] = label]
    /\ step' = "returned"
    /\ UNCHANGED <<search, jobs, answered>>

\* The retry helper labels the exception of JobSpy; the others wrap it in one
\* that has no metadata and is classified anew, as terminal.
Label(adapter) == IF adapter = "jobspy" THEN "exhausted" ELSE "terminal"

\* A failure that retry_call does not retry.
Refuse(failure) ==
    /\ Asking
    /\ failure \in Failures \ {"outage"}
    /\ failure = "garbled" => Adapter # "greenhouse"
    /\ asked' = <<>>
    /\ Raises("terminal")

\* A row of JobSpy that is no object: AttributeError, outside retry_call.
Stumble ==
    /\ Asking
    /\ \E page \in Pages : Stumbles(Adapter, page)
    /\ asked' = <<>>
    /\ Raises("terminal")

Retry ==
    /\ Asking
    /\ Len(asked) + 1 < MaxAttempts
    /\ asked' = Append(asked, "outage")
    /\ UNCHANGED <<search, step, jobs, result, answered>>

GiveUp ==
    /\ Asking
    /\ Len(asked) + 1 = MaxAttempts
    /\ asked' = <<>>
    /\ Raises(Label(Adapter))

\* All boards have answered, or the cap is reached.
Return ==
    /\ search <= Len(Searches)
    /\ step = "ask"
    /\ ~Asking
    /\ Raises("jobs")
    /\ UNCHANGED asked

\* Deviation: the first source that fails ends the collection.
StopAtFailure ==
    /\ step = "returned"
    /\ search' = IF result[search] = "jobs" THEN search + 1
                 ELSE Len(Searches) + 1
    /\ step' = "ask"
    /\ jobs' = <<>>
    /\ answered' = <<>>
    /\ UNCHANGED <<asked, result>>

\* run() takes the jobs, or notes the failure, and asks the next adapter.
TakeResult ==
    /\ step = "returned"
    /\ search' = search + 1
    /\ step' = "ask"
    /\ jobs' = <<>>
    /\ answered' = <<>>
    /\ UNCHANGED <<asked, result>>

Search ==
    \/ \E page \in Pages : Answer(page)
    \/ Empty
    \/ \E failure \in Failures : Refuse(failure)
    \/ Stumble
    \/ Retry
    \/ GiveUp
    \/ Return
    \/ TakeResult

-----------------------------------------------------------------------------
Precedes(p, q) == p[1] < q[1] \/ (p[1] = q[1] /\ p[2] < q[2])

\* The rows that name a job an adapter can import: with its id for an ATS.
Good(adapter, pages) ==
    UNION {{<<b, i>> : i \in
               {k \in DOMAIN pages[b] :
                   pages[b][k] \in
                       (IF IsATS(adapter) THEN {"job"} ELSE {"job", "idless"})}} :
           b \in DOMAIN pages}

\* What a search returns is exactly the jobs its boards have answered with, in
\* their order and none twice; an ATS search returns the first results_wanted
\* of them over all boards, and asks no board for more once it has them.
SearchIsExact ==
    step = "returned" /\ result[search] = "jobs" =>
        LET good == Good(Adapter, answered)
            taken == ToSet(jobs)
        IN  /\ \A i, j \in DOMAIN jobs : i < j => Precedes(jobs[i], jobs[j])
            /\ taken \subseteq good
            /\ \/ taken = good
               \/ /\ IsATS(Adapter)
                  /\ \A p \in taken, q \in good \ taken : Precedes(p, q)
            /\ IsATS(Adapter) =>
                  /\ Len(jobs) <= Cap
                  /\ taken # good => Len(jobs) = Cap
                  /\ \A n \in 0..Len(answered) - 1 :
                        Cardinality(Good(Adapter, SubSeq(answered, 1, n))) < Cap
            /\ Len(answered) < Boards(Adapter) =>
                  IsATS(Adapter) /\ Len(jobs) = Cap
=============================================================================
