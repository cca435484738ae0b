------------------------- MODULE PublicResearchProofs -------------------------
(****************************************************************************)
(* Proofs about public research: about the fetcher, for all budgets, slots  *)
(* and URLs, and about the opportunities it is used for, for all            *)
(* shortlists, search results and pages.                                    *)
(****************************************************************************)
EXTENDS PublicFetch, OpportunityIntelligence, OrderingProofs, TLAPS

USE FetchConfigOK DEF fetch, response, dns, Goto, Return, Enter

-----------------------------------------------------------------------------
(* The slots.                                                               *)

Held == IF lookup = "running" THEN 1 ELSE 0

\* What the counters say of each other; it contains their types.  A lookup of
\* one's own is always waited for.
SlotInv ==
    /\ pc # "waiting" => lookup = "none"
    /\ slots \in Nat
    /\ others \in Nat
    /\ slots + others + Held = DNSSlots

LEMMA SlotInit == Init => SlotInv
  BY DEF Init, SlotInv, Held

LEMMA SlotStep == SlotInv /\ [Next]_vars => SlotInv'
<1>. SUFFICES ASSUME SlotInv, [Next]_vars PROVE SlotInv'
  OBVIOUS
<1>1. CASE LookUp
  BY <1>1 DEF LookUp, SlotInv, Held
<1>2. CASE LookupEnds \/ LookupTells \/ Resolved
  BY <1>2 DEF LookupEnds, LookupTells, Resolved, SlotInv, Held
<1>3. CASE WaitTimesOut
  BY <1>3 DEF WaitTimesOut, SlotInv, Held
<1>4. CASE OtherStarts \/ OtherEnds
  BY <1>4 DEF OtherStarts, OtherEnds, SlotInv, Held
<1>5. CASE UNCHANGED dns /\ (UNCHANGED pc \/ (pc # "waiting" /\ pc' # "waiting"))
  BY <1>5 DEF SlotInv, Held
<1>6. CASE \/ Fetch \/ UnsafeUrl \/ OutOfTime \/ OutOfBudget \/ RedirectLoop \/ NumericHost
           \/ DNSBusy \/ ThreadFails \/ UnsafeAnswer \/ Connect \/ Connected \/ NetworkFails
  BY <1>5, <1>6 DEF Fetch, UnsafeUrl, OutOfTime, OutOfBudget, RedirectLoop, NumericHost,
      DNSBusy, ThreadFails, UnsafeAnswer, Connect, Connected, NetworkFails
<1>7. CASE \/ Headers \/ BadHeaders \/ Body \/ LastChunk \/ DeclaredLength \/ Closed \/ OutOfBytes
           \/ Page \/ NoPage \/ Redirect \/ RedirectRefused \/ Expire \/ UNCHANGED vars
  BY <1>5, <1>7 DEF Headers, BadHeaders, Body, LastChunk, DeclaredLength, Closed, OutOfBytes,
      Page, NoPage, Redirect, RedirectRefused, Expire, vars
<1>. QED  BY <1>1, <1>2, <1>3, <1>4, <1>6, <1>7 DEF Next, Step

LEMMA AlwaysSlots == Spec => []SlotInv
  BY SlotInit, SlotStep, PTL DEF Spec

\* No DNS slot is ever leaked or released twice, for any number of slots and
\* lookups (bounded_resolve).
THEOREM SlotsConserved == Spec => []SlotsExact
<1>1. SlotInv => SlotsExact
  BY DEF SlotInv, SlotsExact, Held
<1>. QED  BY <1>1, AlwaysSlots, PTL

-----------------------------------------------------------------------------
(* The page.                                                                *)

\* Until a fetch returns it has no status, and a body that is whole is complete.
PageInv ==
    /\ pc # "idle" => status = "none"
    /\ pc = "whole" /\ framing = "length" => body = declared
    /\ CompleteOrNothing

LEMMA PageInit == Init => PageInv
  BY DEF Init, PageInv, CompleteOrNothing

LEMMA PageStep == PageInv /\ [Next]_vars => PageInv'
<1>. SUFFICES ASSUME PageInv, [Next]_vars PROVE PageInv'
  OBVIOUS
<1>. USE DEF PageInv, CompleteOrNothing
<1>1. CASE Fetch \/ UnsafeUrl \/ OutOfTime \/ OutOfBudget \/ RedirectLoop \/ NumericHost
           \/ LookUp \/ DNSBusy \/ ThreadFails \/ Resolved \/ WaitTimesOut \/ UnsafeAnswer
  BY <1>1 DEF Fetch, UnsafeUrl, OutOfTime, OutOfBudget, RedirectLoop, NumericHost, LookUp,
              DNSBusy, ThreadFails, Resolved, WaitTimesOut, UnsafeAnswer
<1>2. CASE Connect \/ Connected \/ NetworkFails \/ Headers \/ BadHeaders \/ Body
           \/ LastChunk \/ DeclaredLength \/ Closed \/ OutOfBytes
  BY <1>2 DEF Connect, Connected, NetworkFails, Headers, BadHeaders, Body, LastChunk,
              DeclaredLength, Closed, OutOfBytes, Receive
<1>3. CASE Page \/ NoPage \/ Redirect \/ RedirectRefused
  BY <1>3 DEF Page, NoPage, Redirect, RedirectRefused
<1>4. CASE LookupEnds \/ LookupTells \/ Expire \/ OtherStarts \/ OtherEnds \/ UNCHANGED vars
  BY <1>4 DEF LookupEnds, LookupTells, Expire, OtherStarts, OtherEnds, vars
<1>. QED  BY <1>1, <1>2, <1>3, <1>4 DEF Next, Step

\* A page whose length was declared is never accepted truncated
\* (PublicFetcher.fetch).
THEOREM PagesComplete == Spec => []CompleteOrNothing
<1>1. PageInv => CompleteOrNothing
  BY DEF PageInv
<1>. QED  BY <1>1, PageInit, PageStep, PTL DEF Spec

-----------------------------------------------------------------------------
(* The hops.                                                                *)

Resolving == pc \in {"waiting", "resolved"}

\* A URL is seen before it is asked for, and the k-th connection is that of hop k - 1.
HopInv ==
    /\ asked \in Seq(Urls)
    /\ IsInjective(asked)
    /\ \A k \in DOMAIN asked : asked[k] \in seen
    /\ hop \in 0 .. MaxRedirects
    /\ Len(asked) <= IF pc \in {"hop", "waiting", "resolved"} THEN hop ELSE hop + 1
    /\ current \in Urls
    /\ Resolving => /\ lookedUp = current
                    /\ current \in seen
                    /\ \A k \in DOMAIN asked : asked[k] # current
    /\ pc = "connecting" => answer = "public" /\ lookedUp = current

USE DEF HopInv, Resolving

LEMMA HopInit == Init => HopInv
  BY DEF Init, IsInjective

LEMMA HopStep == SlotInv /\ HopInv /\ [Next]_vars => HopInv'
<1>. SUFFICES ASSUME SlotInv, HopInv, [Next]_vars PROVE HopInv'
  OBVIOUS
<1>1. CASE Fetch
  BY <1>1 DEF Fetch, IsInjective
<1>2. CASE UnsafeUrl \/ OutOfTime \/ OutOfBudget \/ RedirectLoop \/ UnsafeAnswer
  BY <1>2 DEF UnsafeUrl, OutOfTime, OutOfBudget, RedirectLoop, UnsafeAnswer
<1>3. CASE NumericHost \/ LookUp \/ DNSBusy \/ ThreadFails
  BY <1>3 DEF NumericHost, LookUp, DNSBusy, ThreadFails
<1>4. CASE Resolved \/ WaitTimesOut
  BY <1>4 DEF Resolved, WaitTimesOut
<1>5. CASE Connect
  <2>1. /\ asked' = Append(asked, current)
        /\ Len(asked') = Len(asked) + 1
        /\ \A k \in DOMAIN asked' : asked'[k] = IF k \in DOMAIN asked THEN asked[k] ELSE current
        /\ \A k \in DOMAIN asked' : k \in DOMAIN asked \/ k = Len(asked) + 1
    BY <1>5 DEF Connect
  <2>2. IsInjective(asked')
    BY <1>5, <2>1 DEF Connect, IsInjective
  <2>. QED  BY <1>5, <2>1, <2>2 DEF Connect
<1>6. CASE Connected \/ NetworkFails \/ Headers \/ BadHeaders \/ Body \/ LastChunk
           \/ DeclaredLength \/ Closed \/ OutOfBytes
  BY <1>6 DEF Connected, NetworkFails, Headers, BadHeaders, Body, LastChunk,
              DeclaredLength, Closed, OutOfBytes
<1>7. CASE Page \/ NoPage \/ RedirectRefused
  BY <1>7 DEF Page, NoPage, RedirectRefused
<1>8. CASE Redirect
  BY <1>8 DEF Redirect
<1>9. CASE LookupEnds \/ LookupTells \/ Expire \/ OtherStarts \/ OtherEnds \/ UNCHANGED vars
  BY <1>9 DEF LookupEnds, LookupTells, Expire, OtherStarts, OtherEnds, vars, SlotInv
<1>. QED  BY <1>1, <1>2, <1>3, <1>4, <1>5, <1>6, <1>7, <1>8, <1>9 DEF Next, Step

LEMMA AlwaysHops == Spec => []HopInv
  BY AlwaysSlots, HopInit, HopStep, PTL DEF Spec

\* Every hop of every fetch resolves its own URL, and a fetch is bounded by its
\* redirects, whatever servers answer (PublicFetcher.fetch).
THEOREM HopsAnew == Spec => []EachHopAnew
<1>1. HopInv => EachHopAnew
  BY DEF EachHopAnew
<1>. QED  BY <1>1, AlwaysHops, PTL

-----------------------------------------------------------------------------
(* The budgets.                                                             *)

\* The types, with the budgets as ranges: a fetch that gets an address has an attempt
\* left, and a body is not longer than its wire bytes.
BudgetInv ==
    /\ TypeOK
    /\ body <= used
    /\ Resolving => attempts < MaxAttempts

LEMMA BudgetInit == Init => BudgetInv
<1>. SUFFICES ASSUME Init PROVE BudgetInv
  OBVIOUS
<1>0. expired \in BOOLEAN
  BY DEF Init
<1>1. /\ asked \in Seq(Urls)
      /\ seen \subseteq Urls /\ current \in Urls /\ lookedUp \in Urls
  BY DEF Init
<1>2. /\ attempts \in 0 .. MaxAttempts /\ bytes \in 0 .. MaxTotal /\ hop \in 0 .. MaxRedirects
      /\ used \in 0 .. MaxResponse /\ body \in 0 .. MaxResponse
      /\ slots \in 0 .. DNSSlots /\ others \in 0 .. DNSSlots
      /\ body <= used
  BY DEF Init
<1>3. pc = "idle" /\ status = "none" /\ answer = "none" /\ framing = "close"
      /\ declared = 0 /\ kind = "other" /\ lookup = "none"
  BY DEF Init
<1>. QED  BY <1>0, <1>1, <1>2, <1>3 DEF BudgetInv, TypeOK

LEMMA SlotRange ==
    ASSUME NEW s \in Nat, NEW o \in Nat, NEW h \in {0, 1}, s + o + h = DNSSlots
    PROVE  s \in 0 .. DNSSlots /\ o \in 0 .. DNSSlots
  OBVIOUS

\* What one read may take.
LEMMA ReadWithinBudget ==
    ASSUME BudgetInv, NEW n \in Nat, Receive(n)
    PROVE  /\ used' = used + n /\ used' \in 0 .. MaxResponse
           /\ bytes' \in 0 .. MaxTotal
  BY DEF BudgetInv, TypeOK, Receive, Allowance, Min2

LEMMA BudgetStep ==
    SlotInv /\ SlotInv' /\ HopInv /\ HopInv' /\ BudgetInv /\ [Next]_vars => BudgetInv'
<1>. SUFFICES ASSUME SlotInv, SlotInv', HopInv, HopInv', BudgetInv, [Next]_vars
              PROVE  BudgetInv'
  OBVIOUS
<1>0. slots' \in 0 .. DNSSlots /\ others' \in 0 .. DNSSlots /\ hop' \in 0 .. MaxRedirects
      /\ asked' \in Seq(Urls) /\ current' \in Urls
  <2>1. Held' \in {0, 1}
    BY DEF Held
  <2>2. slots' \in Nat /\ others' \in Nat /\ slots' + others' + Held' = DNSSlots
    BY DEF SlotInv
  <2>3. slots' \in 0 .. DNSSlots /\ others' \in 0 .. DNSSlots
    BY <2>1, <2>2, SlotRange
  <2>4. hop' \in 0 .. MaxRedirects /\ asked' \in Seq(Urls) /\ current' \in Urls
    OBVIOUS
  <2>. QED  BY <2>3, <2>4
<1>. USE <1>0 DEF BudgetInv, TypeOK
<1>1. CASE Fetch \/ UnsafeUrl \/ OutOfTime \/ OutOfBudget \/ RedirectLoop
           \/ NumericHost \/ LookUp \/ DNSBusy \/ ThreadFails
  BY <1>1 DEF Fetch, UnsafeUrl, OutOfTime, OutOfBudget, RedirectLoop, NumericHost, LookUp,
              DNSBusy, ThreadFails, Spent
<1>2. CASE Resolved \/ WaitTimesOut \/ UnsafeAnswer
  BY <1>2 DEF Resolved, WaitTimesOut, UnsafeAnswer
<1>3. CASE Connect
  BY <1>3 DEF Connect
<1>4. CASE Headers \/ BadHeaders
  <2>1. Receive(1)
    BY <1>4 DEF Headers, BadHeaders
  <2>2. used' = used + 1 /\ used' \in 0 .. MaxResponse /\ bytes' \in 0 .. MaxTotal
    BY <2>1, ReadWithinBudget
  <2>3. CASE Headers
    BY <2>2, <2>3 DEF Headers
  <2>4. CASE BadHeaders
    BY <2>2, <2>4 DEF BadHeaders
  <2>. QED  BY <1>4, <2>3, <2>4
<1>5. CASE Body
  <2>1. PICK n \in 1 .. MaxResponse : Receive(n) /\ body' = body + n
    BY <1>5 DEF Body
  <2>2. used' = used + n /\ used' \in 0 .. MaxResponse /\ bytes' \in 0 .. MaxTotal
    BY <2>1, ReadWithinBudget
  <2>. QED  BY <1>5, <2>1, <2>2 DEF Body
<1>6. CASE LastChunk
  <2>1. Receive(1)
    BY <1>6 DEF LastChunk
  <2>2. used' = used + 1 /\ used' \in 0 .. MaxResponse /\ bytes' \in 0 .. MaxTotal
    BY <2>1, ReadWithinBudget
  <2>. QED  BY <1>6, <2>2 DEF LastChunk
<1>7. CASE Connected \/ NetworkFails \/ DeclaredLength \/ Closed \/ OutOfBytes
  BY <1>7 DEF Connected, NetworkFails, DeclaredLength, Closed, OutOfBytes
<1>8. CASE Page \/ NoPage \/ Redirect \/ RedirectRefused
  BY <1>8 DEF Page, NoPage, Redirect, RedirectRefused
<1>9. CASE LookupEnds \/ LookupTells
  BY <1>9 DEF LookupEnds, LookupTells
<1>10. CASE Expire
  BY <1>10 DEF Expire
<1>11. CASE OtherStarts \/ OtherEnds
  BY <1>11 DEF OtherStarts, OtherEnds
<1>12. CASE UNCHANGED vars
  BY <1>12 DEF vars
<1>. QED
  BY <1>1, <1>2, <1>3, <1>4, <1>5, <1>6, <1>7, <1>8, <1>9, <1>10, <1>11, <1>12 DEF Next, Step

\* The wire bytes of a response, those of the run and its connections never exceed
\* their budgets, through redirects, failures and any number of fetches.
THEOREM TypeCorrect == Spec => []TypeOK
<1>1. BudgetInv => TypeOK
  BY DEF BudgetInv
<1>. QED  BY <1>1, AlwaysSlots, AlwaysHops, BudgetInit, BudgetStep, PTL DEF Spec

-----------------------------------------------------------------------------
(* The length of a fetch.                                                   *)

HIDE FetchConfigOK DEF fetch, response, dns, Goto, Return, Enter, Resolving, HopInv

Rank ==
    CASE pc = "hop" -> 7
      [] pc = "waiting" -> 6
      [] pc = "resolved" -> 5
      [] pc = "connecting" -> 4
      [] pc = "headers" -> 3
      [] pc = "body" -> 2
      [] pc = "whole" -> 1
      [] OTHER -> 0

\* The steps that a fetch can still make, at most: a hop has seven places, and in a
\* body each step reads a byte or leaves it.
StepsLeft ==
    IF pc = "idle" THEN 0
    ELSE 7 * (MaxRedirects - hop) + (MaxTotal - bytes) + Rank

LEMMA Counters ==
    ASSUME TypeOK
    PROVE  /\ MaxRedirects \in Nat /\ MaxTotal \in Nat
           /\ hop \in Nat /\ hop <= MaxRedirects
           /\ bytes \in Nat /\ bytes <= MaxTotal
           /\ Rank \in 0 .. 7
           /\ pc # "idle" => Rank > 0
<1>1. /\ MaxRedirects \in Nat /\ MaxTotal \in Nat
      /\ hop \in 0 .. MaxRedirects /\ bytes \in 0 .. MaxTotal
  BY FetchConfigOK DEF TypeOK
<1>2. pc \in {"idle", "hop", "waiting", "resolved", "connecting", "headers", "body", "whole"}
  BY DEF TypeOK
<1>3. Rank \in 0 .. 7 /\ (pc # "idle" => Rank > 0)
  BY <1>2 DEF Rank
<1>. QED  BY <1>1, <1>3

LEMMA StepsLeftIsCount ==
    ASSUME TypeOK
    PROVE  /\ StepsLeft \in 0 .. 7 * (MaxRedirects + 1) + MaxTotal
           /\ pc # "idle" => StepsLeft > 0
<1>. DEFINE left == 7 * (MaxRedirects - hop) + (MaxTotal - bytes) + Rank
<1>1. left \in 0 .. 7 * (MaxRedirects + 1) + MaxTotal /\ (pc # "idle" => left > 0)
  BY Counters
<1>2. 0 \in 0 .. 7 * (MaxRedirects + 1) + MaxTotal
  BY Counters
<1>. QED  BY <1>1, <1>2 DEF StepsLeft

LEMMA StepsTaken ==
    ASSUME TypeOK, TypeOK', Step
    PROVE  StepsLeft' < StepsLeft
<1>left. StepsLeft \in Nat /\ (pc # "idle" => StepsLeft > 0)
  <2>1. MaxRedirects \in Nat /\ MaxTotal \in Nat
    BY Counters
  <2>. QED  BY <2>1, StepsLeftIsCount
<1>rank. (Rank \in 0 .. 7)'
  <2>1. (TypeOK => Rank \in 0 .. 7)'
    BY DEF TypeOK, Rank
  <2>. QED  BY <2>1
\* The steps that return.
<1>1. ASSUME pc # "idle", pc' = "idle"
      PROVE  StepsLeft' < StepsLeft
  BY <1>left, <1>1 DEF StepsLeft
<1>2. CASE OutOfTime \/ OutOfBudget \/ RedirectLoop \/ DNSBusy \/ ThreadFails \/ WaitTimesOut
           \/ UnsafeAnswer \/ NetworkFails \/ BadHeaders \/ OutOfBytes \/ Page \/ NoPage
           \/ RedirectRefused
  BY <1>1, <1>2 DEF OutOfTime, OutOfBudget, RedirectLoop, DNSBusy, ThreadFails, WaitTimesOut,
                    UnsafeAnswer, NetworkFails, BadHeaders, OutOfBytes, Page, NoPage,
                    RedirectRefused, Return, Goto, Enter
\* The steps on the way, by what they change.
<1>3. ASSUME pc # "idle", pc' # "idle", hop' = hop, bytes' \in Nat,
             bytes' - Rank' > bytes - Rank
      PROVE  StepsLeft' < StepsLeft
  BY <1>rank, <1>3, Counters DEF StepsLeft
<1>4. CASE NumericHost \/ LookUp \/ Connect \/ Connected \/ DeclaredLength
  <2>1. hop' = hop /\ bytes' = bytes
    BY <1>4 DEF NumericHost, LookUp, Connect, Connected, DeclaredLength, Enter, fetch
  <2>2. pc # "idle" /\ pc' # "idle" /\ Rank' < Rank
    BY <1>4 DEF NumericHost, LookUp, Connect, Connected, DeclaredLength, Enter, Goto, Rank
  <2>. QED  BY <1>rank, <1>3, <2>1, <2>2, Counters
<1>5. CASE Resolved \/ Closed
  <2>1. CASE pc' = "idle"
    BY <1>1, <1>5, <2>1 DEF Resolved, Closed
  <2>2. CASE pc' # "idle"
    <3>1. hop' = hop /\ bytes' = bytes
      BY <1>5 DEF Resolved, Closed, Return
    <3>2. pc # "idle" /\ Rank' < Rank
      BY <1>5, <2>2 DEF Resolved, Closed, Return, Goto, Rank
    <3>. QED  BY <1>rank, <1>3, <2>2, <3>1, <3>2, Counters
  <2>. QED  BY <2>1, <2>2
<1>6. CASE Headers \/ LastChunk
  <2>1. hop' = hop /\ bytes' = bytes + 1
    BY <1>6 DEF Headers, LastChunk, Receive, fetch
  <2>2. pc # "idle" /\ pc' # "idle" /\ Rank' < Rank
    BY <1>6 DEF Headers, LastChunk, Goto, Rank
  <2>. QED  BY <1>rank, <1>3, <2>1, <2>2, Counters
<1>7. CASE Body
  <2>1. PICK n \in 1 .. MaxResponse : bytes' = bytes + n
    BY <1>7 DEF Body, Receive
  <2>2. pc = "body" /\ pc' = pc /\ hop' = hop
    BY <1>7 DEF Body, fetch
  <2>3. Rank' = Rank
    BY <2>2 DEF Rank
  <2>4. n \in Nat /\ n > 0
    BY FetchConfigOK
  <2>. QED  BY <1>rank, <1>3, <2>1, <2>2, <2>3, <2>4, Counters
<1>8. CASE Redirect
  <2>1. pc = "whole" /\ pc' = "hop" /\ hop' = hop + 1 /\ bytes' = bytes
    BY <1>8 DEF Redirect, Goto
  <2>2. Rank = 1 /\ Rank' = 7
    BY <2>1 DEF Rank
  <2>. QED  BY <2>1, <2>2, Counters DEF StepsLeft
<1>. QED  BY <1>2, <1>4, <1>5, <1>6, <1>7, <1>8 DEF Step

LEMMA StepsOfOthers ==
    ASSUME LookupEnds \/ LookupTells \/ Expire \/ OtherStarts \/ OtherEnds
    PROVE  StepsLeft' = StepsLeft
  BY DEF LookupEnds, LookupTells, Expire, OtherStarts, OtherEnds, fetch, StepsLeft, Rank

\* A fetch takes at most 7 * (MaxRedirects + 1) + MaxTotal steps of its own, whatever
\* servers and lookups do meanwhile: each of its steps lowers a count that no one else
\* touches.  That it takes them is what fairness adds (FetchEnds).
THEOREM FetchesAreBounded ==
    Spec => /\ [](StepsLeft \in 0 .. 7 * (MaxRedirects + 1) + MaxTotal)
            /\ [][pc # "idle" => \/ Step /\ StepsLeft' < StepsLeft
                                 \/ UNCHANGED StepsLeft]_vars
<1>1. TypeOK => StepsLeft \in 0 .. 7 * (MaxRedirects + 1) + MaxTotal
  BY StepsLeftIsCount
<1>2. TypeOK /\ TypeOK' /\ [Next]_vars =>
        [pc # "idle" => \/ Step /\ StepsLeft' < StepsLeft
                        \/ UNCHANGED StepsLeft]_vars
  BY StepsTaken, StepsOfOthers DEF Next, Fetch, UnsafeUrl
<1>. QED  BY <1>1, <1>2, TypeCorrect, PTL DEF Spec

-----------------------------------------------------------------------------
(* What opportunities are offered.                                          *)

\* What the searches of a run have offered, and what they have spent.
LeadInv ==
    /\ offered \in Seq(SUBSET CandidateUrls)
    /\ leads \in Seq(CandidateUrls)
    /\ leadUrls \subseteq CandidateUrls
    /\ IsFiniteSet(leadUrls)
    /\ Cardinality(leadUrls) <= MaxCandidates
    /\ queries \in 0 .. MaxQueries
    /\ Len(offered) <= queries
    /\ \A i \in DOMAIN offered : offered[i] \subseteq leadUrls
    /\ \A i, j \in DOMAIN offered : i # j => offered[i] \cap offered[j] = {}

LEMMA LeadsAreNew ==
    ASSUME LeadInv, NEW list \in Responses, ~SearchSpent
    PROVE  /\ Leads(list) \in Seq(CandidateUrls)
           /\ ToSet(Leads(list)) \subseteq CandidateUrls \ leadUrls
           /\ IsFiniteSet(ToSet(Leads(list)))
           /\ Cardinality(leadUrls \cup ToSet(Leads(list))) <= MaxCandidates
<1>. DEFINE new == {i \in Considered(list) : FirstIn(list, i) /\ list[i] \notin leadUrls}
            room == MaxCandidates - Cardinality(leadUrls)
            order == Ascending(new)
            length == Min({Cardinality(new), room})
            found == Leads(list)
<1>1. list \in Seq(CandidateUrls \cup {Absent}) /\ Len(list) \in Nat /\ MaxResults \in Nat
  BY IntelligenceConfigOK
<1>2. Considered(list) \subseteq 1 .. Len(list)
  <2>. DEFINE n == Len(list)
  <2>1. n \in Int /\ MaxResults \in Int
    BY <1>1
  <2>. HIDE DEF n
  <2>2. Min({n, MaxResults}) \in Int /\ Min({n, MaxResults}) <= n
    BY <2>1, Smaller
  <2>. QED  BY <2>1, <2>2 DEF Considered, n
<1>3. new \subseteq 1 .. Len(list)
  BY <1>2
<1>4. \A i \in new : list[i] \in CandidateUrls \ leadUrls
  BY <1>1, <1>3 DEF FirstIn
<1>5. found = [k \in 1 .. length |-> list[order[k]]]
  BY DEF Leads
<1>. HIDE DEF new, order
<1>6. Cardinality(new) \in Nat /\ order \in [1 .. Cardinality(new) -> new]
  <2>. DEFINE n == Len(list)
  <2>1. n \in Nat /\ new \subseteq 1 .. n
    BY <1>1, <1>3
  <2>. HIDE DEF n
  <2>. QED  BY <2>1, Ascends DEF order
<1>7. Cardinality(leadUrls) \in Nat /\ MaxCandidates \in Nat
  BY IntelligenceConfigOK, FS_CardinalityType DEF LeadInv
<1>8. room \in Nat
  BY <1>7 DEF LeadInv
<1>9. length \in Nat /\ length <= Cardinality(new) /\ length <= room
  <2>. DEFINE n == Cardinality(new)
  <2>1. n \in Nat
    BY <1>6
  <2>. HIDE DEF n, room
  <2>2. Min({n, room}) \in {n, room} /\ Min({n, room}) <= n /\ Min({n, room}) <= room
    BY <1>8, <2>1, Smaller
  <2>. QED  BY <1>8, <2>1, <2>2 DEF n
<1>. HIDE DEF length, room, found
<1>10. \A k \in 1 .. length : found[k] \in CandidateUrls \ leadUrls
  <2>1. \A k \in 1 .. length : order[k] \in new
    BY <1>6, <1>9
  <2>. QED  BY <1>4, <1>5, <2>1
<1>11. found \in Seq(CandidateUrls \ leadUrls) /\ Len(found) = length
  BY <1>5, <1>9, <1>10
<1>12. found \in Seq(CandidateUrls) /\ ToSet(found) \subseteq CandidateUrls \ leadUrls
  BY <1>11, InSequence
<1>13. /\ IsFiniteSet(ToSet(found)) /\ Cardinality(ToSet(found)) \in Nat
       /\ Cardinality(ToSet(found)) <= room
  <2>1. /\ IsFiniteSet(ToSet(found)) /\ Cardinality(ToSet(found)) \in Nat
        /\ Cardinality(ToSet(found)) <= Len(found)
    BY <1>12, FewMembers
  <2>. QED  BY <1>8, <1>9, <1>11, <2>1
<1>14. Cardinality(leadUrls \cup ToSet(found)) =
           Cardinality(leadUrls) + Cardinality(ToSet(found))
  <2>1. leadUrls \cap ToSet(found) = {}
    BY <1>12
  <2>2. Cardinality(leadUrls \cap ToSet(found)) = 0
    BY <2>1, FS_EmptySet
  <2>3. IsFiniteSet(leadUrls) /\ IsFiniteSet(ToSet(found))
    BY <1>13 DEF LeadInv
  <2>4. Cardinality(leadUrls \cup ToSet(found)) =
            Cardinality(leadUrls) + Cardinality(ToSet(found))
                - Cardinality(leadUrls \cap ToSet(found))
    BY <2>3, FS_Union
  <2>. QED  BY <1>7, <1>13, <2>2, <2>4
<1>. QED  BY <1>7, <1>12, <1>13, <1>14 DEF found, room

LEMMA LeadInit == IntelligenceInit => LeadInv
  BY IntelligenceConfigOK, FS_EmptySet DEF IntelligenceInit, LeadInv

LEMMA LeadStep == LeadInv /\ [IntelligenceNext]_intelligence => LeadInv'
<1>. SUFFICES ASSUME LeadInv, [IntelligenceNext]_intelligence PROVE LeadInv'
  OBVIOUS
<1>. USE DEF shared, resolution, loop
<1>1. CASE \E list \in Responses : Finds(list)
  <2>1. PICK list \in Responses : Finds(list)
    BY <1>1
  <2>2. /\ ~SearchSpent
        /\ queries' = queries + 1
        /\ leads' = Leads(list)
        /\ leadUrls' = leadUrls \cup ToSet(leads')
        /\ offered' = Append(offered, ToSet(leads'))
    BY <2>1 DEF Finds
  <2>3. /\ leads' \in Seq(CandidateUrls)
        /\ ToSet(leads') \subseteq CandidateUrls \ leadUrls
        /\ IsFiniteSet(leadUrls')
        /\ Cardinality(leadUrls') <= MaxCandidates
    BY <2>2, LeadsAreNew, FS_Union DEF LeadInv
  <2>4. queries' \in 0 .. MaxQueries
    BY <2>2, IntelligenceConfigOK DEF LeadInv, SearchSpent
  <2>. DEFINE new == ToSet(leads')
  <2>5. new \in SUBSET CandidateUrls
    BY <2>3
  <2>. HIDE DEF new
  <2>6. /\ offered' = Append(offered, new)
        /\ offered' \in Seq(SUBSET CandidateUrls)
        /\ Len(offered') = Len(offered) + 1
        /\ \A i \in DOMAIN offered' :
              \/ i \in DOMAIN offered /\ offered'[i] = offered[i]
              \/ i = Len(offered) + 1 /\ offered'[i] = new
    BY <2>2, <2>5 DEF LeadInv, new
  <2>7. \A i \in DOMAIN offered' : offered'[i] \subseteq leadUrls'
    BY <2>2, <2>6 DEF LeadInv, new
  <2>8. \A i, j \in DOMAIN offered' : i # j => offered'[i] \cap offered'[j] = {}
    BY <2>3, <2>6 DEF LeadInv, new
  <2>9. Len(offered') <= queries'
    BY <2>2, <2>4, <2>6 DEF LeadInv
  <2>10. leadUrls' \subseteq CandidateUrls
    BY <2>2, <2>3 DEF LeadInv
  <2>. QED  BY <2>3, <2>4, <2>6, <2>7, <2>8, <2>9, <2>10 DEF LeadInv
<1>2. CASE SearchFails \/ Raises
  <2>1. /\ UNCHANGED <<leads, leadUrls, offered>>
        /\ queries' = queries \/ (~SearchSpent /\ queries' = queries + 1)
    BY <1>2 DEF SearchFails, Raises
  <2>2. Len(offered) \in Nat /\ queries' \in 0 .. MaxQueries /\ queries <= queries'
    BY <2>1, IntelligenceConfigOK DEF LeadInv, SearchSpent
  <2>. QED  BY <2>1, <2>2 DEF LeadInv
<1>3. CASE RefuseIdentity \/ WithoutResolver \/ Resolve
  <2>1. UNCHANGED <<queries, leadUrls, offered>> /\ leads' = <<>>
    BY <1>3 DEF RefuseIdentity, WithoutResolver, Resolve, Forget
  <2>2. leads' \in Seq(CandidateUrls)
    BY <2>1
  <2>. QED  BY <2>1, <2>2 DEF LeadInv
<1>4. CASE \/ Publish \/ NoSearch \/ CareersFail \/ CareersRead \/ Skip \/ FetchFails
           \/ RedirectedAway
           \/ \E final \in CandidateUrls, content \in Contents, apply \in BOOLEAN :
                  Fetched(final, content, apply)
           \/ AllTried \/ Conclude \/ Ended \/ UNCHANGED intelligence
  <2>1. UNCHANGED <<queries, leadUrls, offered, leads>>
    BY <1>4 DEF Publish, NoSearch, CareersFail, CareersRead, Skip, FetchFails, RedirectedAway,
                Fetched, Moves, AllTried, Conclude, Ended, intelligence
  <2>. QED  BY <2>1 DEF LeadInv
<1>. QED  BY <1>1, <1>2, <1>3, <1>4 DEF IntelligenceNext, Loop, Ask

LEMMA AlwaysLeads == IntelligenceSpec => []LeadInv
  BY LeadInit, LeadStep, PTL DEF IntelligenceSpec

\* No URL is offered twice and the budgets hold, for any shortlists, any results and
\* any failures of the searches (BravePublicSearchAdapter.search).
THEOREM LeadsAreOffered == IntelligenceSpec => []LeadsOnce
<1>1. LeadInv => LeadsOnce
  <2>. SUFFICES ASSUME LeadInv PROVE Cardinality(UNION ToSet(offered)) <= MaxCandidates
    BY DEF LeadInv, LeadsOnce
  <2>1. \A urls \in ToSet(offered) : urls \subseteq leadUrls
    BY InSequence DEF LeadInv
  <2>2. UNION ToSet(offered) \in SUBSET leadUrls
    BY <2>1
  <2>3. /\ Cardinality(UNION ToSet(offered)) <= Cardinality(leadUrls)
        /\ Cardinality(UNION ToSet(offered)) \in Nat
        /\ Cardinality(leadUrls) \in Nat
    BY <2>2, FS_Subset, FS_CardinalityType DEF LeadInv
  <2>. QED  BY <2>3, IntelligenceConfigOK DEF LeadInv
<1>. QED  BY <1>1, AlwaysLeads, PTL

-----------------------------------------------------------------------------
(* The verdict on an opportunity.                                           *)

\* What has been read of the opportunity in hand; it contains the types.
EvidenceInv ==
    /\ results \in Seq(Statuses)
    /\ resolver \in {"ready", "unavailable", "invalid_configuration"}
    /\ stage \in UnderWay \cup {"next", "done"}
    /\ leads \in Seq(CandidateUrls)
    /\ evidence \in Seq(Evidence)
    /\ outcome \in Seq(Outcomes)
    /\ at = Len(outcome) + 1
    /\ at <= Len(leads) + 1
    /\ partial \in {"none", "budget_exhausted", "fetch_failed", "unverified"}
    /\ stage \in {"search", "careers"} => evidence = <<>> /\ outcome = <<>>
    /\ stage = "conclude" => at = Len(leads) + 1
    /\ \A i \in DOMAIN evidence : Delegated(evidence[i].final)
    /\ partial = "none" =>
          \A i \in DOMAIN outcome : Tries(leads[i]) => outcome[i] \in {"read", "moved"}

AuthorityInv ==
    /\ EvidenceInv
    /\ stage \in UnderWay => official = Absent
    /\ VerdictHasAuthority

LEMMA LastGiven ==
    ASSUME EvidenceInv, NEW given \in Statuses, Gives(given)
    PROVE  /\ results' \in Seq(Statuses)
           /\ results' # <<>>
           /\ Last(results') = given
           /\ stage' = "next"
<1>1. results \in Seq(Statuses)
  BY DEF EvidenceInv
<1>2. results' = Append(results, given) /\ stage' = "next"
  BY DEF Gives
<1>3. /\ results' \in Seq(Statuses) /\ Len(results') = Len(results) + 1
      /\ results'[Len(results) + 1] = given
  BY <1>1, <1>2
<1>4. Len(results) \in Nat
  BY <1>1
<1>. QED  BY <1>2, <1>3, <1>4 DEF Last

LEMMA EvidenceInit == IntelligenceInit => EvidenceInv
  BY DEF IntelligenceInit, EvidenceInv, UnderWay, Evidence

LEMMA UnclearIsNoVerdict ==
    ASSUME EvidenceInv
    PROVE  Unclear \in Unanswered
<1>1. partial \in {"none", "budget_exhausted", "fetch_failed", "unverified"}
  BY DEF EvidenceInv
<1>2. Unclear = "ambiguous" \/ Unclear = "unverified" \/ (Unclear = partial /\ partial # "none")
  BY DEF Unclear
<1>. QED  BY <1>1, <1>2 DEF Unanswered

LEMMA ActivityIsStatus ==
    ASSUME NEW final, NEW r
    PROVE  Activity(final, r) \in {"unverified", "closed", "verified"}
  BY DEF Activity

\* What the moves from one lead to the next leave alone, and what they add.
LEMMA LeadTried ==
    ASSUME EvidenceInv, NEW what \in Outcomes, Moves(what)
    PROVE  /\ UNCHANGED <<results, resolver, stage, leads, links, overlong, official>>
           /\ stage = "candidates"
           /\ outcome' \in Seq(Outcomes)
           /\ at' = Len(outcome') + 1
           /\ at' <= Len(leads') + 1
           /\ DOMAIN outcome' = DOMAIN outcome \cup {at}
           /\ outcome'[at] = what
           /\ \A i \in DOMAIN outcome : outcome'[i] = outcome[i] /\ i # at
<1>1. /\ UNCHANGED <<results, resolver, stage, leads, links, overlong, official>>
      /\ stage = "candidates" /\ at <= Len(leads)
      /\ at' = at + 1 /\ outcome' = Append(outcome, what)
  BY DEF Moves, loop
<1>2. /\ outcome \in Seq(Outcomes) /\ at = Len(outcome) + 1 /\ leads \in Seq(CandidateUrls)
  BY DEF EvidenceInv
<1>3. Len(leads) \in Nat /\ Len(outcome) \in Nat
  BY <1>2
<1>4. /\ outcome' \in Seq(Outcomes) /\ Len(outcome') = Len(outcome) + 1
      /\ outcome'[Len(outcome) + 1] = what
      /\ \A i \in 1 .. Len(outcome) : outcome'[i] = outcome[i]
  BY <1>1, <1>2
<1>5. DOMAIN outcome = 1 .. Len(outcome) /\ DOMAIN outcome' = 1 .. Len(outcome')
  BY <1>2, <1>4
<1>. QED  BY <1>1, <1>2, <1>3, <1>4, <1>5

LEMMA EvidenceStep ==
    EvidenceInv /\ LeadInv /\ [IntelligenceNext]_intelligence /\ LeadInv' => EvidenceInv'
<1>. SUFFICES ASSUME EvidenceInv, LeadInv, [IntelligenceNext]_intelligence, LeadInv'
              PROVE  EvidenceInv'
  OBVIOUS
\* The steps that forget what was read of the opportunity before.
<1>1. CASE RefuseIdentity \/ WithoutResolver \/ Resolve
  <2>1. Forget /\ resolver' = resolver
    BY <1>1 DEF RefuseIdentity, WithoutResolver, Resolve, loop
  <2>2. results' \in Seq(Statuses) /\ stage' \in {"next", "search"}
    BY <1>1, LastGiven
       DEF RefuseIdentity, WithoutResolver, Resolve, EvidenceInv, Statuses, Unanswered
  <2>3. leads' = <<>> /\ outcome' = <<>> /\ evidence' = <<>> /\ at' = 1 /\ partial' = "none"
    BY <2>1 DEF Forget
  <2>. QED  BY <2>1, <2>2, <2>3 DEF EvidenceInv, UnderWay, Evidence
\* The steps that leave alone all that was read.
<1>2. ASSUME UNCHANGED <<resolver, leads, links, overlong, at, partial, evidence, outcome>>,
             results' \in Seq(Statuses),
             \/ stage' \in {"next", "done"}
             \/ stage' = "conclude" /\ at > Len(leads)
             \/ stage' = stage
      PROVE  EvidenceInv'
  <2>1. Len(leads) \in Nat /\ at \in Nat
    BY DEF EvidenceInv
  <2>. QED  BY <1>2, <2>1 DEF EvidenceInv, UnderWay, Delegated, Tries
<1>3. CASE Publish \/ AllTried \/ Ended \/ UNCHANGED intelligence
  BY <1>2, <1>3 DEF Publish, AllTried, Ended, intelligence, loop, resolution, EvidenceInv
<1>4. CASE Raises \/ NoSearch \/ SearchFails \/ CareersFail
  <2>1. \E given \in Statuses : Gives(given)
    BY <1>4 DEF Raises, NoSearch, SearchFails, CareersFail, Statuses, Unanswered
  <2>2. results' \in Seq(Statuses) /\ stage' = "next"
    BY <2>1, LastGiven
  <2>3. UNCHANGED <<resolver, leads, links, overlong, at, partial, evidence, outcome>>
    BY <1>4 DEF Raises, NoSearch, SearchFails, CareersFail, loop, resolution
  <2>. QED  BY <1>2, <2>2, <2>3
<1>5. CASE Conclude
  <2>1. UNCHANGED <<resolver, leads, links, overlong, at, partial, evidence, outcome>>
    BY <1>5 DEF Conclude, loop
  <2>2. \E given \in Statuses : Gives(given)
    BY <1>5, UnclearIsNoVerdict, ActivityIsStatus DEF Conclude, Statuses, Unanswered
  <2>3. results' \in Seq(Statuses) /\ stage' = "next"
    BY <2>2, LastGiven
  <2>. QED  BY <1>2, <2>1, <2>3
<1>6. CASE \E list \in Responses : Finds(list)
  <2>1. /\ stage = "search"
        /\ UNCHANGED <<resolver, links, at, partial, evidence, outcome>>
    BY <1>6 DEF Finds, loop
  <2>2. leads' \in Seq(CandidateUrls)
    BY DEF LeadInv
  <2>3. results' \in Seq(Statuses) /\ stage' \in {"next", "careers"}
    BY <1>6, LastGiven DEF Finds, EvidenceInv, Statuses, Unanswered
  <2>4. evidence = <<>> /\ outcome = <<>> /\ at = Len(outcome) + 1
    BY <2>1 DEF EvidenceInv
  <2>5. at = 1 /\ Len(leads') \in Nat
    BY <2>2, <2>4
  <2>. QED  BY <2>1, <2>2, <2>3, <2>4, <2>5 DEF EvidenceInv, UnderWay, Evidence
<1>7. CASE CareersRead
  <2>1. /\ stage = "careers" /\ stage' = "candidates"
        /\ UNCHANGED <<results, resolver, leads, at, partial, evidence, outcome>>
    BY <1>7 DEF CareersRead, loop
  <2>2. evidence = <<>> /\ outcome = <<>>
    BY <2>1 DEF EvidenceInv
  <2>. QED  BY <2>1, <2>2 DEF EvidenceInv, UnderWay
\* The candidates, one by one.
<1>8. ASSUME NEW what \in Outcomes, Moves(what),
             evidence' \in Seq(Evidence),
             \A i \in DOMAIN evidence' : Delegated(evidence'[i].final),
             partial' \in {"none", "budget_exhausted", "fetch_failed", "unverified"},
             partial' = "none" =>
                 /\ partial = "none"
                 /\ Tries(Candidate) => what \in {"read", "moved"}
      PROVE  EvidenceInv'
  <2>1. /\ UNCHANGED <<results, resolver, stage, leads, links, overlong, official>>
        /\ stage = "candidates"
        /\ outcome' \in Seq(Outcomes)
        /\ at' = Len(outcome') + 1
        /\ at' <= Len(leads') + 1
    BY <1>8, LeadTried
  <2>3. (\A i \in DOMAIN evidence : Delegated(evidence[i].final))'
    BY <1>8, <2>1 DEF Delegated
  <2>4. ASSUME partial' = "none", NEW i \in DOMAIN outcome', Tries(leads[i])
        PROVE  outcome'[i] \in {"read", "moved"}
    <3>1. CASE i = at
      BY <1>8, <2>4, <3>1, LeadTried DEF Candidate
    <3>2. CASE i # at
      <4>1. i \in DOMAIN outcome /\ outcome'[i] = outcome[i]
        BY <1>8, <2>4, <3>2, LeadTried
      <4>. QED  BY <1>8, <2>4, <4>1 DEF EvidenceInv
    <3>. QED  BY <3>1, <3>2
  <2>5. (partial = "none" =>
           \A i \in DOMAIN outcome : Tries(leads[i]) => outcome[i] \in {"read", "moved"})'
    BY <2>1, <2>4 DEF Delegated, Tries
  <2>. QED  BY <1>8, <2>1, <2>3, <2>5 DEF EvidenceInv, UnderWay
<1>9. CASE Skip \/ FetchFails \/ RedirectedAway
  <2>1. evidence' = evidence
    BY <1>9 DEF Skip, FetchFails, RedirectedAway
  <2>2. PICK what \in {"skipped", "unread", "moved"} :
          /\ Moves(what)
          /\ partial' \in {"none", "budget_exhausted", "fetch_failed", "unverified"}
          /\ partial' = "none" =>
                 /\ partial = "none"
                 /\ Tries(Candidate) => what \in {"read", "moved"}
    <3>1. CASE Skip
      BY <3>1 DEF Skip, EvidenceInv
    <3>2. CASE FetchFails
      BY <3>2 DEF FetchFails, EvidenceInv
    <3>3. CASE RedirectedAway
      BY <3>3 DEF RedirectedAway, EvidenceInv
    <3>. QED  BY <1>9, <3>1, <3>2, <3>3
  <2>3. evidence' \in Seq(Evidence) /\ \A i \in DOMAIN evidence' : Delegated(evidence'[i].final)
    BY <2>1 DEF EvidenceInv
  <2>4. what \in Outcomes
    BY <2>2 DEF Outcomes
  <2>. QED  BY <1>8, <2>2, <2>3, <2>4
<1>10. ASSUME NEW final \in CandidateUrls, NEW content \in Contents, NEW apply \in BOOLEAN,
              Fetched(final, content, apply)
       PROVE  EvidenceInv'
  <2>. DEFINE page == [final |-> final, records |-> content, apply |-> apply]
  <2>1. /\ Moves("read") /\ Delegated(final) /\ partial' = partial
        /\ evidence' = Append(evidence, page)
    BY <1>10 DEF Fetched, Accepts
  <2>2. page \in Evidence /\ page.final = final
    BY IntelligenceConfigOK DEF Evidence
  <2>. HIDE DEF page
  <2>3. evidence \in Seq(Evidence) /\ \A i \in DOMAIN evidence : Delegated(evidence[i].final)
    BY DEF EvidenceInv
  <2>4. evidence' \in Seq(Evidence)
    BY <2>1, <2>2, <2>3
  <2>5. \A i \in DOMAIN evidence' :
           evidence'[i] = page \/ (i \in DOMAIN evidence /\ evidence'[i] = evidence[i])
    BY <2>1, <2>2, <2>3
  <2>6. \A i \in DOMAIN evidence' : Delegated(evidence'[i].final)
    BY <2>1, <2>2, <2>3, <2>5
  <2>7. "read" \in Outcomes
    BY DEF Outcomes
  <2>8. partial' \in {"none", "budget_exhausted", "fetch_failed", "unverified"}
    BY <2>1 DEF EvidenceInv
  <2>. QED  BY <1>8, <2>1, <2>4, <2>6, <2>7, <2>8
<1>. QED  BY <1>1, <1>3, <1>4, <1>5, <1>6, <1>7, <1>9, <1>10 DEF IntelligenceNext, Loop, Ask

\* The page that decides whether a vacancy can be applied for.
LEMMA LastPage ==
    ASSUME EvidenceInv, NEW final, NEW r,
           \E p \in Pages : p.final = final /\ r \in p.records
    PROVE  \E p \in Pages : /\ p.final = final /\ r \in p.records
                            /\ p.apply = Applies(final, r)
<1>. DEFINE Names(i) == evidence[i].final = final /\ r \in evidence[i].records
            named == {i \in 1 .. Len(evidence) : Names(i)}
<1>1. Len(evidence) \in Nat /\ DOMAIN evidence = 1 .. Len(evidence)
  BY DEF EvidenceInv
<1>2. \A p : p \in Pages <=> \E i \in 1 .. Len(evidence) : evidence[i] = p
  <2>1. evidence \in Seq(Evidence)
    BY DEF EvidenceInv
  <2>2. \A p : p \in ToSet(evidence) <=> \E i \in DOMAIN evidence : evidence[i] = p
    BY <2>1, InSequence
  <2>. QED  BY <1>1, <2>2 DEF Pages
<1>3. named # {} /\ named \subseteq 1 .. Len(evidence)
  BY <1>2
<1>4. PICK i \in named : \A j \in named : j <= i
  <2>. HIDE DEF named
  <2>. QED  BY <1>1, <1>3, HasGreatest
<1>. DEFINE last == CHOOSE k \in DOMAIN evidence :
            /\ evidence[k].final = final /\ r \in evidence[k].records
            /\ \A j \in DOMAIN evidence :
                  evidence[j].final = final /\ r \in evidence[j].records => j <= k
<1>5. \E k \in DOMAIN evidence :
            /\ evidence[k].final = final /\ r \in evidence[k].records
            /\ \A j \in DOMAIN evidence :
                  evidence[j].final = final /\ r \in evidence[j].records => j <= k
  BY <1>1, <1>4
<1>6. last \in DOMAIN evidence /\ evidence[last].final = final /\ r \in evidence[last].records
  BY <1>5
<1>7. Applies(final, r) = evidence[last].apply
  BY DEF Applies
<1>8. evidence[last] \in Pages
  BY <1>1, <1>2, <1>6
<1>. QED  BY <1>6, <1>7, <1>8

\* What Conclude may say with a verdict, of the state it is taken in.
Backed(p, r) ==
    /\ r.job
    /\ Delegated(p.final)
    /\ \A q \in Pages, s \in Records :
          s \in q.records =>
             /\ Keys(p, r) \cap Keys(q, s) # {} => s = r
             /\ IsMatch(q, s) => s = r /\ q.final = p.final
    /\ \A i \in DOMAIN leads : Tries(leads[i]) => outcome[i] \in {"read", "moved"}

LEMMA VerdictIsBacked ==
    ASSUME EvidenceInv, stage = "conclude", ~Conflict, partial = "none",
           NEW m \in Matches, Matches = {m},
           Activity(m[1], m[2]) \in {"verified", "closed"}
    PROVE  \E p \in Pages : \E r \in p.records :
              /\ Backed(p, r)
              /\ Activity(m[1], m[2]) = "verified" =>
                     r.expiry = "open" /\ p.apply /\ p.final = m[1]
<1>0. PICK p0 \in Pages : \E r \in p0.records : IsMatch(p0, r) /\ m = <<p0.final, r>>
  <2>1. PICK found \in {{<<p.final, r>> : r \in {x \in p.records : IsMatch(p, x)}} : p \in Pages} :
          m \in found
    BY DEF Matches
  <2>2. PICK p \in Pages : found = {<<p.final, r>> : r \in {x \in p.records : IsMatch(p, x)}}
    BY <2>1
  <2>3. \E r \in p.records : IsMatch(p, r) /\ m = <<p.final, r>>
    BY <2>1, <2>2
  <2>. QED  BY <2>3
<1>1. PICK r \in p0.records : IsMatch(p0, r) /\ m = <<p0.final, r>>
  BY <1>0
<1>2. m[1] = p0.final /\ m[2] = r
  BY <1>1
<1>3. PICK p \in Pages : /\ p.final = p0.final /\ r \in p.records
                         /\ p.apply = Applies(p0.final, r)
  BY <1>1, LastPage
<1>4. evidence \in Seq(Evidence) /\ Len(evidence) \in Nat /\ DOMAIN evidence = 1 .. Len(evidence)
  BY DEF EvidenceInv
<1>5. PICK k \in DOMAIN evidence : p = evidence[k]
  BY <1>4, InSequence DEF Pages
<1>6. Delegated(p.final) /\ p \in Evidence
  BY <1>4, <1>5 DEF EvidenceInv
<1>7. r \in Records
  BY <1>3, <1>6 DEF Evidence
<1>8. r.expiry \in {"open", "expired", "undated"} /\ r.job
  BY <1>1, <1>7, IntelligenceConfigOK DEF IsMatch
<1>9. Activity(m[1], m[2]) = "verified" => r.expiry = "open" /\ p.apply
  BY <1>2, <1>3, <1>8 DEF Activity
<1>10. ASSUME NEW q \in Pages, NEW s \in Records, s \in q.records
       PROVE  /\ Keys(p, r) \cap Keys(q, s) # {} => s = r
              /\ IsMatch(q, s) => s = r /\ q.final = p.final
  <2>1. Keys(p, r) \cap Keys(q, s) # {} => s = r
    BY <1>3, <1>10 DEF Conflict
  <2>2. IsMatch(q, s) => <<q.final, s>> \in Matches
    BY <1>10 DEF Matches
  <2>3. IsMatch(q, s) => <<q.final, s>> = <<p0.final, r>>
    BY <1>1, <2>2
  <2>. QED  BY <1>3, <2>1, <2>3
<1>11. ASSUME NEW i \in DOMAIN leads, Tries(leads[i])
       PROVE  outcome[i] \in {"read", "moved"}
  <2>1. leads \in Seq(CandidateUrls) /\ outcome \in Seq(Outcomes)
        /\ at = Len(leads) + 1 /\ at = Len(outcome) + 1
    BY DEF EvidenceInv
  <2>2. Len(leads) \in Nat /\ Len(outcome) \in Nat
    BY <2>1
  <2>3. DOMAIN leads = 1 .. Len(leads) /\ DOMAIN outcome = 1 .. Len(outcome)
    BY <2>1
  <2>4. i \in DOMAIN outcome
    BY <1>11, <2>1, <2>2, <2>3
  <2>. QED  BY <1>11, <2>4 DEF EvidenceInv
<1>12. Backed(p, r)
  BY <1>6, <1>8, <1>10, <1>11 DEF Backed
<1>. QED  BY <1>2, <1>3, <1>9, <1>12

LEMMA AuthorityInit == IntelligenceInit => AuthorityInv
<1>. SUFFICES ASSUME IntelligenceInit PROVE AuthorityInv
  OBVIOUS
<1>1. results = <<>> /\ official = Absent
  BY DEF IntelligenceInit
<1>2. \A given : ~Concluded(given)
  BY <1>1 DEF Concluded
<1>. QED  BY <1>1, <1>2, EvidenceInit DEF AuthorityInv, VerdictHasAuthority

LEMMA AuthorityStep ==
    AuthorityInv /\ [IntelligenceNext]_intelligence /\ EvidenceInv' => AuthorityInv'
<1>. SUFFICES ASSUME AuthorityInv, [IntelligenceNext]_intelligence, EvidenceInv'
              PROVE  AuthorityInv'
  OBVIOUS
<1>. USE DEF AuthorityInv
\* Without a verdict there is nothing to show but that there is no official URL.
<1>1. ASSUME ~Concluded("verified")', ~Concluded("closed")', official' = Absent
      PROVE  AuthorityInv'
  BY <1>1 DEF VerdictHasAuthority
<1>2. ASSUME NEW given \in Unanswered, Gives(given), official' = Absent
      PROVE  AuthorityInv'
  <2>1. given \in Statuses
    BY DEF Statuses
  <2>2. Last(results') = given
    BY <1>2, <2>1, LastGiven
  <2>3. ~Concluded("verified")' /\ ~Concluded("closed")'
    BY <2>2 DEF Concluded, Unanswered
  <2>. QED  BY <1>1, <1>2, <2>3
<1>3. ASSUME stage' \in UnderWay, official' = Absent
      PROVE  AuthorityInv'
  <2>1. ~Concluded("verified")' /\ ~Concluded("closed")'
    BY <1>3 DEF Concluded, UnderWay
  <2>. QED  BY <1>1, <1>3, <2>1
<1>4. CASE RefuseIdentity \/ WithoutResolver \/ Resolve
  <2>1. official' = Absent
    BY <1>4 DEF RefuseIdentity, WithoutResolver, Resolve, Forget
  <2>2. (\E given \in Unanswered : Gives(given)) \/ stage' = "search"
    BY <1>4 DEF RefuseIdentity, WithoutResolver, Resolve, EvidenceInv, Unanswered
  <2>. QED  BY <1>2, <1>3, <2>1, <2>2 DEF UnderWay
<1>5. CASE Raises \/ NoSearch \/ SearchFails \/ CareersFail
  <2>1. stage \in UnderWay /\ official' = official
    BY <1>5 DEF Raises, NoSearch, SearchFails, CareersFail, resolution, UnderWay
  <2>2. \E given \in Unanswered : Gives(given)
    BY <1>5 DEF Raises, NoSearch, SearchFails, CareersFail, Unanswered
  <2>. QED  BY <1>2, <2>1, <2>2
<1>6. CASE \E list \in Responses : Finds(list)
  <2>1. stage = "search" /\ official' = official
    BY <1>6 DEF Finds
  <2>2. (\E given \in Unanswered : Gives(given)) \/ stage' = "careers"
    BY <1>6 DEF Finds, Unanswered
  <2>. QED  BY <1>2, <1>3, <2>1, <2>2 DEF UnderWay
<1>7. CASE CareersRead \/ AllTried
  BY <1>3, <1>7 DEF CareersRead, AllTried, resolution, UnderWay
<1>8. ASSUME NEW what, Moves(what) PROVE AuthorityInv'
  BY <1>3, <1>8 DEF Moves, UnderWay
<1>9. CASE \/ Skip \/ FetchFails \/ RedirectedAway
           \/ \E final \in CandidateUrls, content \in Contents, apply \in BOOLEAN :
                  Fetched(final, content, apply)
  BY <1>8, <1>9 DEF Skip, FetchFails, RedirectedAway, Fetched
<1>10. CASE Publish \/ Ended \/ UNCHANGED intelligence
  <2>1. UNCHANGED <<results, leads, links, overlong, evidence, outcome, official>>
    BY <1>10 DEF Publish, Ended, intelligence, resolution
  <2>2. stage' = stage \/ (stage = "next" /\ stage' = "done")
    BY <1>10 DEF Publish, Ended, intelligence
  <2>3. \A given : Concluded(given)' <=> Concluded(given)
    BY <2>1, <2>2 DEF Concluded
  <2>4. VerdictHasAuthority'
    BY <2>1, <2>3 DEF VerdictHasAuthority, Pages, Delegated
  <2>5. stage' \in UnderWay => official' = Absent
    BY <2>1, <2>2 DEF UnderWay
  <2>. QED  BY <2>4, <2>5
<1>11. CASE Conclude
  <2>1. /\ stage = "conclude" /\ official = Absent
        /\ UNCHANGED <<leads, links, overlong, evidence, outcome>>
    BY <1>11 DEF Conclude, UnderWay
  <2>2. CASE Gives(Unclear) /\ official' = official
    BY <1>2, <2>1, <2>2, UnclearIsNoVerdict
  <2>3. ASSUME ~Conflict, partial = "none", NEW m \in Matches, Matches = {m},
               Gives(Activity(m[1], m[2])),
               official' = IF Activity(m[1], m[2]) = "verified" THEN m[1] ELSE Absent
        PROVE  AuthorityInv'
    <3>. DEFINE given == Activity(m[1], m[2])
    <3>1. given \in {"unverified", "verified", "closed"}
      BY ActivityIsStatus
    <3>2. given \in Statuses
      BY <3>1 DEF Statuses, Unanswered
    <3>3. CASE given = "unverified"
      BY <1>2, <2>3, <3>3 DEF Unanswered
    <3>4. CASE given \in {"verified", "closed"}
      <4>0. PICK p \in Pages : \E r \in p.records :
              /\ Backed(p, r)
              /\ given = "verified" => r.expiry = "open" /\ p.apply /\ p.final = m[1]
        BY <2>1, <2>3, <3>4, VerdictIsBacked
      <4>1. PICK r \in p.records :
              /\ Backed(p, r)
              /\ given = "verified" => r.expiry = "open" /\ p.apply /\ p.final = m[1]
        BY <4>0
      <4>2. Last(results') = given /\ stage' = "next"
        BY <2>3, <3>2, LastGiven
      <4>3. Concluded("verified")' => given = "verified"
        BY <4>2 DEF Concluded
      <4>4. ~Concluded("verified")' => official' = Absent
        <5>1. results' # <<>>
          BY <2>3, <3>2, LastGiven
        <5>. QED  BY <2>3, <4>2, <5>1 DEF Concluded
      <4>5. Concluded("verified")' => r.expiry = "open" /\ p.apply /\ official' = p.final
        BY <2>3, <4>1, <4>3
      <4>6. Backed(p, r)'
        BY <2>1, <4>1 DEF Backed, Pages, Delegated, Tries
      <4>7. Pages' = Pages
        BY <2>1 DEF Pages
      <4>8. VerdictHasAuthority'
        BY <4>1, <4>4, <4>5, <4>6, <4>7 DEF VerdictHasAuthority, Backed, Tries
      <4>9. stage' \notin UnderWay
        BY <4>2 DEF UnderWay
      <4>. QED  BY <4>8, <4>9
    <3>. QED  BY <3>1, <3>3, <3>4
  <2>. QED  BY <1>11, <2>2, <2>3 DEF Conclude
<1>. QED  BY <1>4, <1>5, <1>6, <1>7, <1>9, <1>10, <1>11 DEF IntelligenceNext, Loop, Ask

\* A vacancy is called open or closed on the word of the employer only, for any
\* pages, any links and any failures of the requests (OpportunityIntelligence.resolve).
THEOREM VerdictsHaveAuthority == IntelligenceSpec => []VerdictHasAuthority
<1>1. EvidenceInv /\ LeadInv /\ AuthorityInv /\ [IntelligenceNext]_intelligence /\ LeadInv'
        => EvidenceInv' /\ AuthorityInv'
  BY EvidenceStep, AuthorityStep
<1>2. AuthorityInv => VerdictHasAuthority
  BY DEF AuthorityInv
<1>. QED  BY <1>1, <1>2, EvidenceInit, AuthorityInit, AlwaysLeads, PTL DEF IntelligenceSpec

-----------------------------------------------------------------------------
(* The answers.                                                             *)

AnswerTo(i) ==
    \/ shortlist[i] = "invalid" /\ results[i] = "invalid_input"
    \/ \E n \in DOMAIN inputs : inputs[n] = <<i, results[i]>>

\* An input of the cards is the answer to an opportunity that was not refused.
FromAnswer(input) ==
    \E i \in DOMAIN results : shortlist[i] # "invalid" /\ input = <<i, results[i]>>

\* One more opportunity is to be shown, and its identity was not refused.
Enriched == Current <= Len(shortlist) /\ Current <= Shown /\ Kind # "invalid"

\* Every opportunity that the loop has passed is answered, and the one in hand is the
\* next one, with an identity that was not refused; the loop only stops where it should.
AnswerInv ==
    /\ shortlist \in Shortlists
    /\ Len(results) <= Len(shortlist) /\ Len(results) <= Shown
    /\ stage \in UnderWay => Enriched
    /\ stage = "done" => Len(results) = Len(shortlist) \/ Len(results) = Shown
    /\ inputs \in Seq(Cards)
    /\ \A n \in DOMAIN inputs : FromAnswer(inputs[n])
    /\ \A i \in DOMAIN results : AnswerTo(i)
    /\ opportunities \in Nat
    /\ opportunities <= Len(results) + (IF stage \in UnderWay THEN 1 ELSE 0)

LEMMA AnswerInit == IntelligenceInit => AnswerInv
<1>. SUFFICES ASSUME IntelligenceInit PROVE AnswerInv
  OBVIOUS
<1>1. /\ results = <<>> /\ inputs = <<>> /\ opportunities = 0 /\ stage = "next"
      /\ shortlist \in Shortlists
  BY DEF IntelligenceInit
<1>2. shortlist \in Seq(Kinds) /\ Shown \in Nat /\ Len(shortlist) \in Nat
  BY <1>1, IntelligenceConfigOK
<1>. QED  BY <1>1, <1>2 DEF AnswerInv, UnderWay

\* What it takes to give an answer: the opportunity in hand gets it, and nothing that was
\* given before changes.
LEMMA AnswerGiven ==
    ASSUME EvidenceInv, AnswerInv, Enriched \/ Enriching, NEW given \in Statuses, Gives(given),
           Kind = "invalid" => given = "invalid_input",
           shortlist' = shortlist,
           opportunities' \in Nat, opportunities' <= Len(results) + 1
    PROVE  AnswerInv'
<1>. DEFINE n == Len(results)
            entry == <<n + 1, given>>
<1>1. /\ results \in Seq(Statuses) /\ shortlist \in Seq(Kinds) /\ Shown \in Nat
      /\ inputs \in Seq(Cards)
  BY IntelligenceConfigOK DEF EvidenceInv, AnswerInv
<1>2. n \in Nat /\ n + 1 <= Len(shortlist) /\ n + 1 <= Shown /\ n + 1 \in 1 .. Shown
      /\ Len(shortlist) \in Nat
  BY <1>1 DEF Enriched, Enriching, Current
<1>3. /\ results' = Append(results, given) /\ stage' = "next"
      /\ inputs' = IF Kind = "invalid" THEN inputs ELSE Append(inputs, entry)
  BY DEF Gives, Current
<1>4. /\ results' \in Seq(Statuses) /\ Len(results') = n + 1 /\ results'[n + 1] = given
      /\ DOMAIN results' = 1 .. n + 1 /\ DOMAIN results = 1 .. n
      /\ \A i \in 1 .. n : results'[i] = results[i]
  BY <1>1, <1>3
<1>5. entry \in Cards
  BY <1>2 DEF Cards
<1>. HIDE DEF entry
<1>6. /\ inputs' \in Seq(Cards)
      /\ DOMAIN inputs \subseteq DOMAIN inputs'
      /\ \A k \in DOMAIN inputs : inputs'[k] = inputs[k]
      /\ \A k \in DOMAIN inputs' :
            k \in DOMAIN inputs \/ (k = Len(inputs) + 1 /\ inputs'[k] = entry)
      /\ Kind # "invalid" => \E k \in DOMAIN inputs' : inputs'[k] = entry
  <2>1. CASE Kind = "invalid"
    BY <1>1, <1>3, <2>1
  <2>2. CASE Kind # "invalid"
    <3>1. inputs' = Append(inputs, entry)
      BY <1>3, <2>2
    <3>2. Len(inputs) + 1 \in DOMAIN inputs' /\ inputs'[Len(inputs) + 1] = entry
      BY <1>1, <1>5, <3>1
    <3>3. inputs' \in Seq(Cards) /\ Len(inputs') = Len(inputs) + 1
      BY <1>1, <1>5, <3>1
    <3>4. /\ Len(inputs) \in Nat /\ DOMAIN inputs = 1 .. Len(inputs)
          /\ DOMAIN inputs' = 1 .. Len(inputs')
      BY <1>1, <3>3
    <3>5. \A k \in 1 .. Len(inputs) : inputs'[k] = inputs[k]
      BY <1>1, <1>5, <3>1
    <3>. QED  BY <3>2, <3>3, <3>4, <3>5
  <2>. QED  BY <2>1, <2>2
<1>7. (\A k \in DOMAIN inputs : FromAnswer(inputs[k]))'
  <2>. SUFFICES ASSUME NEW k \in DOMAIN inputs' PROVE FromAnswer(inputs[k])'
    OBVIOUS
  <2>1. CASE k \in DOMAIN inputs
    <3>1. PICK i \in DOMAIN results : shortlist[i] # "invalid" /\ inputs[k] = <<i, results[i]>>
      BY <2>1 DEF AnswerInv, FromAnswer
    <3>2. i \in DOMAIN results' /\ results'[i] = results[i] /\ inputs'[k] = inputs[k]
      BY <1>2, <1>4, <1>6, <2>1, <3>1
    <3>. QED  BY <3>1, <3>2 DEF FromAnswer
  <2>2. CASE k \notin DOMAIN inputs
    <3>1. inputs'[k] = <<n + 1, results'[n + 1]>> /\ n + 1 \in DOMAIN results'
      BY <1>2, <1>4, <1>6, <2>2 DEF entry
    <3>2. shortlist'[n + 1] # "invalid"
      <4>1. Kind # "invalid"
        <5>1. inputs' # inputs
          BY <2>2
        <5>. QED  BY <1>3, <5>1
      <4>. QED  BY <4>1 DEF Kind, Current
    <3>. QED  BY <3>1, <3>2 DEF FromAnswer
  <2>. QED  BY <2>1, <2>2
<1>8. \A i \in DOMAIN results' : AnswerTo(i)'
  <2>. SUFFICES ASSUME NEW i \in DOMAIN results' PROVE AnswerTo(i)'
    OBVIOUS
  <2>1. CASE i \in DOMAIN results
    <3>1. AnswerTo(i) /\ results'[i] = results[i]
      BY <1>4, <2>1 DEF AnswerInv
    <3>. QED  BY <1>6, <3>1 DEF AnswerTo
  <2>2. CASE i \notin DOMAIN results
    <3>1. i = n + 1 /\ results'[i] = given
      BY <1>2, <1>4, <2>2
    <3>2. Kind = shortlist'[i]
      BY <3>1 DEF Kind, Current
    <3>3. entry = <<i, results'[i]>>
      BY <3>1 DEF entry
    <3>. QED  BY <1>6, <3>1, <3>2, <3>3 DEF AnswerTo
  <2>. QED  BY <2>1, <2>2
<1>9. opportunities' <= Len(results') + (IF stage' \in UnderWay THEN 1 ELSE 0)
  BY <1>2, <1>3, <1>4 DEF UnderWay
<1>. QED
  BY <1>2, <1>3, <1>4, <1>6, <1>7, <1>8, <1>9 DEF AnswerInv, UnderWay

LEMMA AnswerStep ==
    EvidenceInv /\ AnswerInv /\ [IntelligenceNext]_intelligence => AnswerInv'
<1>. SUFFICES ASSUME EvidenceInv, AnswerInv, [IntelligenceNext]_intelligence
              PROVE  AnswerInv'
  OBVIOUS
<1>. USE DEF loop, shared
<1>1. /\ results \in Seq(Statuses) /\ Len(results) \in Nat /\ Shown \in Nat
      /\ shortlist \in Seq(Kinds) /\ Len(shortlist) \in Nat
      /\ opportunities \in Nat
      /\ opportunities <= Len(results) + (IF stage \in UnderWay THEN 1 ELSE 0)
      /\ opportunities <= Len(results) + 1
  BY IntelligenceConfigOK DEF EvidenceInv, AnswerInv
\* The steps that give no answer and stay with the opportunity in hand.
<1>2. ASSUME UNCHANGED <<shortlist, results, inputs, opportunities>>,
             stage \in UnderWay, stage' \in UnderWay
      PROVE  AnswerInv'
  BY <1>2, <1>1 DEF AnswerInv, AnswerTo, FromAnswer, Enriched, Current, Kind, UnderWay
<1>3. CASE RefuseIdentity \/ WithoutResolver
  <2>1. Enriching /\ opportunities' = opportunities /\ shortlist' = shortlist
    BY <1>3 DEF RefuseIdentity, WithoutResolver
  <2>2. CASE RefuseIdentity
    BY <1>1, <2>1, <2>2, AnswerGiven DEF RefuseIdentity, Statuses, Unanswered
  <2>3. CASE WithoutResolver
    <3>1. resolver \in Statuses /\ Gives(resolver) /\ Kind # "invalid"
      BY <2>3 DEF WithoutResolver, EvidenceInv, Statuses, Unanswered
    <3>. QED  BY <1>1, <2>1, <3>1, AnswerGiven
  <2>. QED  BY <1>3, <2>2, <2>3
<1>4. CASE Resolve
  <2>1. /\ Enriching /\ Kind # "invalid" /\ opportunities' = opportunities + 1
        /\ shortlist' = shortlist /\ stage = "next"
    BY <1>4 DEF Resolve, Enriching
  <2>2. opportunities' \in Nat /\ opportunities' <= Len(results) + 1
    BY <1>1, <2>1 DEF UnderWay
  <2>3. CASE Kind = "unnamed"
    BY <1>4, <2>1, <2>2, <2>3, AnswerGiven DEF Resolve, Statuses, Unanswered
  <2>4. CASE Kind # "unnamed"
    <3>1. stage' = "search" /\ UNCHANGED <<results, inputs>>
      BY <1>4, <2>4 DEF Resolve
    <3>2. Enriched'
      BY <2>1, <3>1 DEF Enriched, Enriching, Current, Kind
    <3>. QED  BY <1>1, <2>1, <2>2, <3>1, <3>2 DEF AnswerInv, AnswerTo, FromAnswer, UnderWay
  <2>. QED  BY <2>3, <2>4
<1>5. CASE Publish
  <2>1. /\ stage = "next" /\ stage' = "done" /\ ~Enriching
        /\ UNCHANGED <<shortlist, results, inputs, opportunities>>
    BY <1>5 DEF Publish
  <2>2. Len(results) = Len(shortlist) \/ Len(results) = Shown
    BY <1>1, <2>1 DEF AnswerInv, Enriching, Current
  <2>. QED  BY <1>1, <2>1, <2>2 DEF AnswerInv, AnswerTo, FromAnswer, UnderWay
\* The steps that answer the opportunity in hand.
<1>6. ASSUME stage \in UnderWay, NEW given \in Statuses, Gives(given),
             UNCHANGED <<shortlist, opportunities>>
      PROVE  AnswerInv'
  <2>1. Enriched /\ Kind # "invalid"
    BY <1>6 DEF AnswerInv, Enriched
  <2>. QED  BY <1>1, <1>6, <2>1, AnswerGiven
<1>7. CASE Raises \/ NoSearch \/ SearchFails \/ CareersFail
  BY <1>6, <1>7 DEF Raises, NoSearch, SearchFails, CareersFail, UnderWay, Statuses, Unanswered
<1>8. CASE Conclude
  <2>1. stage \in UnderWay /\ UNCHANGED <<shortlist, opportunities>>
    BY <1>8 DEF Conclude, UnderWay
  <2>2. \E given \in Statuses : Gives(given)
    BY <1>8, UnclearIsNoVerdict, ActivityIsStatus DEF Conclude, Statuses, Unanswered
  <2>. QED  BY <1>6, <2>1, <2>2
<1>9. CASE \E list \in Responses : Finds(list)
  <2>1. stage \in UnderWay /\ UNCHANGED <<shortlist, opportunities>>
    BY <1>9 DEF Finds, UnderWay
  <2>2. CASE \E given \in Statuses : Gives(given)
    BY <1>6, <2>1, <2>2
  <2>3. CASE stage' = "careers" /\ UNCHANGED <<results, inputs>>
    BY <1>2, <2>1, <2>3 DEF UnderWay
  <2>4. \/ \E given \in Statuses : Gives(given)
        \/ stage' = "careers" /\ UNCHANGED <<results, inputs>>
    BY <1>9 DEF Finds, Statuses, Unanswered
  <2>. QED  BY <2>2, <2>3, <2>4
<1>10. CASE CareersRead \/ AllTried
  BY <1>2, <1>10 DEF CareersRead, AllTried, UnderWay
<1>11. CASE \E what \in Outcomes : Moves(what)
  BY <1>2, <1>11 DEF Moves, UnderWay
<1>12. CASE \/ Skip \/ FetchFails \/ RedirectedAway
            \/ \E final \in CandidateUrls, content \in Contents, apply \in BOOLEAN :
                   Fetched(final, content, apply)
  BY <1>11, <1>12 DEF Skip, FetchFails, RedirectedAway, Fetched, Outcomes
<1>13. CASE Ended \/ UNCHANGED intelligence
  <2>1. UNCHANGED <<shortlist, results, inputs, opportunities, stage>>
    BY <1>13 DEF Ended, intelligence
  <2>. QED  BY <2>1 DEF AnswerInv, AnswerTo, FromAnswer, Enriched, Current, Kind
<1>. QED
  BY <1>3, <1>4, <1>5, <1>7, <1>8, <1>9, <1>10, <1>12, <1>13 DEF IntelligenceNext, Loop, Ask

LEMMA AlwaysRead == IntelligenceSpec => [](EvidenceInv /\ AnswerInv)
<1>1. EvidenceInv /\ AnswerInv /\ LeadInv /\ [IntelligenceNext]_intelligence /\ LeadInv'
        => EvidenceInv' /\ AnswerInv'
  BY EvidenceStep, AnswerStep
<1>. QED  BY <1>1, EvidenceInit, AnswerInit, AlwaysLeads, PTL DEF IntelligenceSpec

\* The cards that are published are the answers.
CardsAnswer ==
    /\ {card[1] : card \in envelope} = {i \in DOMAIN results : Printable(i)}
    /\ \A c, d \in envelope : c[1] = d[1] => c = d
    /\ \A card \in envelope : Truthful(card)
    /\ message = IF \E i \in DOMAIN results : shortlist[i] \in {"unnamed", "unprintable"}
              THEN {}
              ELSE envelope

CardsInv ==
    /\ message \subseteq Cards
    /\ envelope \subseteq Cards
    /\ stage = "done" => CardsAnswer

\* All inputs can be shown unless an opportunity that was accepted cannot.
LEMMA WholeOrNone ==
    ASSUME EvidenceInv, AnswerInv
    PROVE  (\A n \in DOMAIN inputs : Printable(inputs[n][1]))
               <=> ~\E i \in DOMAIN results : shortlist[i] \in {"unnamed", "unprintable"}
<1>1. \A i \in DOMAIN results : shortlist[i] \in Kinds
  <2>1. /\ results \in Seq(Statuses) /\ shortlist \in Seq(Kinds)
        /\ Len(results) \in Nat /\ Len(shortlist) \in Nat /\ Len(results) <= Len(shortlist)
    BY IntelligenceConfigOK DEF EvidenceInv, AnswerInv
  <2>. QED  BY <2>1
<1>2. ASSUME \A n \in DOMAIN inputs : Printable(inputs[n][1]),
             NEW i \in DOMAIN results, shortlist[i] \in {"unnamed", "unprintable"}
      PROVE  FALSE
  <2>1. PICK n \in DOMAIN inputs : inputs[n] = <<i, results[i]>>
    BY <1>2 DEF AnswerInv, AnswerTo
  <2>2. Printable(i)
    BY <1>2, <2>1
  <2>. QED  BY <1>2, <2>2 DEF Printable
<1>3. ASSUME ~\E i \in DOMAIN results : shortlist[i] \in {"unnamed", "unprintable"},
             NEW n \in DOMAIN inputs
      PROVE  Printable(inputs[n][1])
  <2>1. PICK i \in DOMAIN results : shortlist[i] # "invalid" /\ inputs[n] = <<i, results[i]>>
    BY <1>3 DEF AnswerInv, FromAnswer
  <2>. QED  BY <1>1, <1>3, <2>1 DEF Printable, Kinds
<1>. QED  BY <1>2, <1>3

LEMMA PublishesAnswers ==
    ASSUME EvidenceInv, AnswerInv, Publish
    PROVE  CardsInv'
<1>0. PICK lowered \in SUBSET {i \in DOMAIN results : results[i] = "verified"} :
          /\ message' = IF \A n \in DOMAIN inputs : Printable(inputs[n][1])
                     THEN {<<inputs[n][1], IF inputs[n][1] \in lowered THEN "unavailable"
                                           ELSE inputs[n][2]>> : n \in DOMAIN inputs}
                     ELSE {}
          /\ envelope' = {<<i, IF i \in lowered THEN "unavailable" ELSE results[i]>> :
                              i \in {k \in DOMAIN results : Printable(k)}}
  BY DEF Publish
<1>. DEFINE Card(i) == <<i, IF i \in lowered THEN "unavailable" ELSE results[i]>>
            Shows == {k \in DOMAIN results : Printable(k)}
<1>1. UNCHANGED <<results, inputs, shortlist>>
  BY DEF Publish, loop
<1>2. envelope' = {Card(i) : i \in Shows}
  BY <1>0
<1>3. ASSUME \A n \in DOMAIN inputs : Printable(inputs[n][1])
      PROVE  message' = envelope'
  <2>1. message' = {<<inputs[n][1], IF inputs[n][1] \in lowered THEN "unavailable"
                                 ELSE inputs[n][2]>> : n \in DOMAIN inputs}
    BY <1>0, <1>3
  <2>2. \A n \in DOMAIN inputs : \E i \in Shows : inputs[n] = <<i, results[i]>>
    <3>. SUFFICES ASSUME NEW n \in DOMAIN inputs
                  PROVE  \E i \in Shows : inputs[n] = <<i, results[i]>>
      OBVIOUS
    <3>1. PICK i \in DOMAIN results : inputs[n] = <<i, results[i]>>
      BY DEF AnswerInv, FromAnswer
    <3>2. Printable(i)
      BY <1>3, <3>1
    <3>. QED  BY <3>1, <3>2
  <2>3. \A i \in Shows : \E n \in DOMAIN inputs : inputs[n] = <<i, results[i]>>
    BY DEF AnswerInv, AnswerTo, Printable
  <2>4. ASSUME NEW card \in message' PROVE card \in envelope'
    <3>1. PICK n \in DOMAIN inputs :
            card = <<inputs[n][1], IF inputs[n][1] \in lowered THEN "unavailable"
                                   ELSE inputs[n][2]>>
      BY <2>1, <2>4
    <3>2. PICK i \in Shows : inputs[n] = <<i, results[i]>>
      BY <2>2
    <3>3. card = Card(i)
      BY <3>1, <3>2
    <3>. QED  BY <1>2, <3>3
  <2>5. ASSUME NEW card \in envelope' PROVE card \in message'
    <3>1. PICK i \in Shows : card = Card(i)
      BY <1>2, <2>5
    <3>2. PICK n \in DOMAIN inputs : inputs[n] = <<i, results[i]>>
      BY <2>3
    <3>3. card = <<inputs[n][1], IF inputs[n][1] \in lowered THEN "unavailable"
                                 ELSE inputs[n][2]>>
      BY <3>1, <3>2
    <3>. QED  BY <2>1, <3>3
  <2>. QED  BY <2>4, <2>5
<1>4. message' = IF \E i \in DOMAIN results : shortlist[i] \in {"unnamed", "unprintable"}
              THEN {}
              ELSE envelope'
  BY <1>0, <1>3, WholeOrNone
<1>5. envelope' \subseteq Cards
  <2>1. \A i \in DOMAIN results : i \in 1 .. Shown /\ results[i] \in Statuses
    <3>1. /\ results \in Seq(Statuses) /\ Len(results) \in Nat /\ Shown \in Nat
          /\ Len(results) <= Shown
      BY IntelligenceConfigOK DEF EvidenceInv, AnswerInv
    <3>. QED  BY <3>1
  <2>2. "unavailable" \in Statuses
    BY DEF Statuses, Unanswered
  <2>3. \A i \in Shows : Card(i) \in Cards
    BY <2>1, <2>2 DEF Cards
  <2>. QED  BY <1>2, <2>3
<1>6. message' \subseteq Cards
  BY <1>4, <1>5
<1>7. {card[1] : card \in envelope'} = Shows
  <2>1. \A i : Card(i)[1] = i
    OBVIOUS
  <2>. QED  BY <1>2, <2>1
<1>8. \A c, d \in envelope' : c[1] = d[1] => c = d
  <2>. SUFFICES ASSUME NEW c \in envelope', NEW d \in envelope', c[1] = d[1]
                PROVE  c = d
    OBVIOUS
  <2>1. PICK i \in Shows : c = Card(i)
    BY <1>2
  <2>2. PICK k \in Shows : d = Card(k)
    BY <1>2
  <2>3. c[1] = i /\ d[1] = k
    BY <2>1, <2>2
  <2>. QED  BY <2>1, <2>2, <2>3
<1>9. \A card \in envelope' : Truthful(card)'
  <2>. SUFFICES ASSUME NEW card \in envelope' PROVE Truthful(card)'
    OBVIOUS
  <2>0. PICK i \in Shows : card = Card(i)
    BY <1>2
  <2>1. card[1] = i /\ card = Card(i)
    BY <2>0
  <2>2. \/ card[2] = results[i]
        \/ card[2] = "unavailable" /\ results[i] = "verified"
    BY <1>0, <2>0
  <2>. QED  BY <1>1, <2>1, <2>2 DEF Truthful
<1>10. CardsAnswer'
  BY <1>1, <1>4, <1>7, <1>8, <1>9 DEF CardsAnswer, Printable
<1>. QED  BY <1>5, <1>6, <1>10 DEF CardsInv

LEMMA CardsStep ==
    EvidenceInv /\ AnswerInv /\ CardsInv /\ [IntelligenceNext]_intelligence => CardsInv'
<1>. SUFFICES ASSUME EvidenceInv, AnswerInv, CardsInv, [IntelligenceNext]_intelligence
              PROVE  CardsInv'
  OBVIOUS
\* The steps that leave the cards alone and do not end.
<1>1. ASSUME UNCHANGED published, stage' # "done" PROVE CardsInv'
  BY <1>1 DEF CardsInv, published
<1>2. ASSUME NEW given, Gives(given) PROVE CardsInv'
  BY <1>1, <1>2 DEF Gives
<1>3. CASE RefuseIdentity \/ WithoutResolver \/ Resolve
  BY <1>1, <1>2, <1>3 DEF RefuseIdentity, WithoutResolver, Resolve
<1>4. CASE Raises \/ NoSearch \/ SearchFails \/ CareersFail \/ Conclude
  BY <1>2, <1>4 DEF Raises, NoSearch, SearchFails, CareersFail, Conclude
<1>5. CASE \E list \in Responses : Finds(list)
  BY <1>1, <1>2, <1>5 DEF Finds
<1>6. CASE CareersRead \/ AllTried
  BY <1>1, <1>6 DEF CareersRead, AllTried
<1>7. CASE \/ Skip \/ FetchFails \/ RedirectedAway
           \/ \E final \in CandidateUrls, content \in Contents, apply \in BOOLEAN :
                  Fetched(final, content, apply)
  BY <1>1, <1>7 DEF Skip, FetchFails, RedirectedAway, Fetched, Moves
<1>8. CASE Ended \/ UNCHANGED intelligence
  <2>1. UNCHANGED <<shortlist, results, stage, message, envelope>>
    BY <1>8 DEF Ended, intelligence, loop, published
  <2>. QED  BY <2>1 DEF CardsInv, CardsAnswer, Printable, Truthful
<1>. QED
  BY <1>3, <1>4, <1>5, <1>6, <1>7, <1>8, PublishesAnswers DEF IntelligenceNext, Loop, Ask

LEMMA AlwaysCards == IntelligenceSpec => []CardsInv
<1>1. IntelligenceInit => CardsInv
  BY DEF IntelligenceInit, CardsInv
<1>2. EvidenceInv /\ AnswerInv /\ CardsInv /\ [IntelligenceNext]_intelligence => CardsInv'
  BY CardsStep
<1>. QED  BY <1>1, <1>2, AlwaysRead, PTL DEF IntelligenceSpec

\* Wherever the loop of run() ends, and whatever was refused, failed or raised before,
\* every opportunity it shows has its result, and the cards of the envelope and of the
\* message are as Answered says: all that can be shown, and all or none; that it ends is
\* left to TLC.
THEOREM EndsWithAnswers == IntelligenceSpec => [](stage = "done" => Answered)
<1>1. EvidenceInv /\ AnswerInv /\ CardsInv => (stage = "done" => Answered)
  <2>. SUFFICES ASSUME EvidenceInv, AnswerInv, CardsInv, stage = "done" PROVE Answered
    OBVIOUS
  <2>. DEFINE m == Len(shortlist)
  <2>1. m \in Nat /\ Shown \in Nat /\ Len(results) <= m /\ Len(results) <= Shown
        /\ (Len(results) = m \/ Len(results) = Shown) /\ Len(results) \in Nat
    BY IntelligenceConfigOK DEF EvidenceInv, AnswerInv
  <2>. HIDE DEF m
  <2>2. m \in Int /\ Shown \in Int
    BY <2>1
  <2>3. Len(results) = Min({m, Shown})
    <3>1. Min({m, Shown}) \in {m, Shown} /\ Min({m, Shown}) <= m /\ Min({m, Shown}) <= Shown
      BY <2>2, Smaller
    <3>. QED  BY <2>1, <3>1
  <2>4. \A i \in DOMAIN results : shortlist[i] = "invalid" => results[i] = "invalid_input"
    <3>. SUFFICES ASSUME NEW i \in DOMAIN results, shortlist[i] = "invalid"
                  PROVE  results[i] = "invalid_input"
      OBVIOUS
    <3>1. CASE \E n \in DOMAIN inputs : inputs[n] = <<i, results[i]>>
      BY <3>1 DEF AnswerInv, FromAnswer
    <3>. QED  BY <3>1 DEF AnswerInv, AnswerTo
  <2>5. CardsAnswer
    BY DEF CardsInv
  <2>. QED  BY <2>3, <2>4, <2>5 DEF Answered, CardsAnswer, m
<1>. QED  BY <1>1, AlwaysRead, AlwaysCards, PTL

\* The limit on opportunities that resolve itself enforces is never what ends an
\* opportunity: the loop stops before it (Shown <= MaxResolved).
THEOREM LimitNeverReached == IntelligenceSpec => [](Enriching => opportunities < MaxResolved)
<1>1. EvidenceInv /\ AnswerInv => (Enriching => opportunities < MaxResolved)
  <2>. SUFFICES ASSUME EvidenceInv, AnswerInv, Enriching PROVE opportunities < MaxResolved
    OBVIOUS
  <2>1. opportunities \in Nat /\ opportunities <= Len(results) /\ Len(results) \in Nat
    BY DEF EvidenceInv, AnswerInv, Enriching, UnderWay
  <2>. QED  BY <2>1, IntelligenceConfigOK DEF Enriching, Current
<1>. QED  BY <1>1, AlwaysRead, PTL

-----------------------------------------------------------------------------
(* The types of the enrichment.                                             *)

UrlsTyped ==
    /\ links \subseteq CandidateUrls
    /\ overlong \subseteq CandidateUrls
    /\ official \in CandidateUrls \cup {Absent}

LEMMA MatchesAreCandidates ==
    ASSUME EvidenceInv, NEW m \in Matches
    PROVE  m[1] \in CandidateUrls
<1>1. evidence \in Seq(Evidence)
  BY DEF EvidenceInv
<1>2. PICK p \in Pages : \E r \in p.records : m = <<p.final, r>>
  BY DEF Matches
<1>3. p \in Evidence
  BY <1>1, <1>2, InSequence DEF Pages
<1>. QED  BY <1>2, <1>3 DEF Evidence

LEMMA UrlsStep ==
    EvidenceInv /\ UrlsTyped /\ [IntelligenceNext]_intelligence => UrlsTyped'
<1>. SUFFICES ASSUME EvidenceInv, UrlsTyped, [IntelligenceNext]_intelligence
              PROVE  UrlsTyped'
  OBVIOUS
<1>. USE DEF UrlsTyped, loop, resolution
<1>1. CASE RefuseIdentity \/ WithoutResolver \/ Resolve
  BY <1>1 DEF RefuseIdentity, WithoutResolver, Resolve, Forget
<1>2. CASE CareersRead
  BY <1>2, IntelligenceConfigOK DEF CareersRead
<1>3. CASE Conclude
  BY <1>3, MatchesAreCandidates DEF Conclude
<1>4. CASE \/ Skip \/ FetchFails \/ RedirectedAway
           \/ \E final \in CandidateUrls, content \in Contents, apply \in BOOLEAN :
                  Fetched(final, content, apply)
  BY <1>4 DEF Skip, FetchFails, RedirectedAway, Fetched, Moves
<1>5. CASE Raises \/ NoSearch \/ SearchFails \/ CareersFail \/ AllTried \/ Publish
           \/ \E list \in Responses : Finds(list)
  BY <1>5 DEF Raises, NoSearch, SearchFails, CareersFail, AllTried, Publish, Finds
<1>6. CASE Ended \/ UNCHANGED intelligence
  BY <1>6 DEF Ended, intelligence
<1>. QED  BY <1>1, <1>2, <1>3, <1>4, <1>5, <1>6 DEF IntelligenceNext, Loop, Ask

\* Type correctness of the enrichment, with its budgets as ranges, for any shortlist,
\* any answers of searches and pages, and any failures (JobTrailAutomation.run, resolve).
THEOREM IntelligenceTypeCorrect == IntelligenceSpec => []IntelligenceTypeOK
<1>1. IntelligenceInit => UrlsTyped
  BY DEF IntelligenceInit, UrlsTyped
<1>2. EvidenceInv /\ AnswerInv /\ CardsInv /\ LeadInv /\ UrlsTyped => IntelligenceTypeOK
  <2>. SUFFICES ASSUME EvidenceInv, AnswerInv, CardsInv, LeadInv, UrlsTyped
                PROVE  IntelligenceTypeOK
    OBVIOUS
  <2>1. opportunities \in 0 .. MaxResolved
    <3>1. Len(results) \in Nat /\ Shown \in Nat /\ MaxResolved \in Nat /\ Shown <= MaxResolved
      BY IntelligenceConfigOK DEF EvidenceInv
    <3>2. stage \in UnderWay => Len(results) + 1 <= Shown
      BY DEF AnswerInv, Enriched, Current
    <3>. QED  BY <3>1, <3>2 DEF AnswerInv
  <2>2. at \in 1 .. Len(leads) + 1
    BY DEF EvidenceInv
  <2>. QED
    BY <2>1, <2>2
       DEF IntelligenceTypeOK, EvidenceInv, AnswerInv, CardsInv, LeadInv, UrlsTyped
<1>3. IntelligenceSpec => [](EvidenceInv /\ AnswerInv /\ LeadInv /\ UrlsTyped)
  <2>1. EvidenceInv /\ UrlsTyped /\ [IntelligenceNext]_intelligence => UrlsTyped'
    BY UrlsStep
  <2>. QED  BY <1>1, <2>1, AlwaysRead, AlwaysLeads, PTL DEF IntelligenceSpec
<1>. QED  BY <1>2, <1>3, AlwaysCards, PTL
=============================================================================
