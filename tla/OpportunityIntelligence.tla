----------------------- MODULE OpportunityIntelligence -----------------------
(****************************************************************************)
(* The enrichment of the first opportunities of a shortlist: the loop of    *)
(* JobTrailAutomation.run, OpportunityIntelligence.resolve and the search   *)
(* adapter whose budgets and memory of leads all opportunities share.  One  *)
(* search, one careers page and the candidates it vouches for make up what  *)
(* is known of an opportunity.                                              *)
(*                                                                          *)
(* A URL is known by its site: a host, or a tenant of a board.  A page is   *)
(* the set of its JobPosting records and whether it has the link to apply;  *)
(* a record is what the comparisons of resolve can tell apart.              *)
(****************************************************************************)
EXTENDS Integers, SequencesExt, Ordering

CONSTANTS
    CandidateUrls,  \* the URLs that pass _candidate_url
    Site,           \* the site of each
    EmployerSites,  \* hosts of the trusted employer context
    Boards,         \* tenants of the boards that are supported
    Absent,         \* no URL, no requisition, no page
    Original,       \* the URL an opportunity was imported from
    Shortlists,     \* the shortlists a run may have
    Responses,      \* result lists the search may answer with
    LinkSets,       \* links the careers page may have
    Records,        \* JobPosting records a page may have
    Contents,       \* the sets of them on one page
    Shown,          \* the opportunities that are enriched
    MaxResolved, MaxQueries, MaxResults, MaxCandidates

\* What an opportunity is to PublicJobIdentity, the cards and the contexts: refused;
\* accepted, but without an employer's name or with a URL that no card may show; and
\* one that can be shown, without a context or with one.
Kinds == {"invalid", "unnamed", "unprintable", "stranger", "known"}

ASSUME IntelligenceConfigOK ==
    /\ Site \in [CandidateUrls -> STRING]
    /\ {Absent, Original} \cap CandidateUrls = {}
    /\ Shortlists \subseteq Seq(Kinds)
    /\ Responses \subseteq Seq(CandidateUrls \cup {Absent})
    /\ LinkSets \subseteq SUBSET CandidateUrls
    /\ Records \subseteq
          [job : BOOLEAN, url : CandidateUrls \cup {Absent, Original},
           requisition : STRING \cup {Absent},
           expiry : {"open", "expired", "undated"}]
    /\ Contents \subseteq SUBSET Records
    /\ {Shown, MaxResolved, MaxQueries, MaxResults, MaxCandidates} \subseteq Nat
    /\ Shown <= MaxResolved   \* the loop stops before the limit of resolve

VARIABLES
    shortlist,  \* the kind of each opportunity
    resolver,   \* "ready", or the status given when there is none
    stage,
    results,    \* the statuses so far
    inputs,     \* card_inputs: the accepted opportunities, with their status
    message,    \* the cards appended to the message of the notifier
    envelope,   \* the cards handed to n8n
    \* The resolver and its search adapter, for the whole run.
    opportunities, queries, leadUrls,
    \* The opportunity that is resolved, or the last one.
    leads, links, overlong, at, partial, evidence, official,
    \* History, read by the properties only.
    offered,    \* the leads of each search that found some
    outcome     \* what became of each lead

Unanswered == {"invalid_input", "unavailable", "invalid_configuration", "budget_exhausted",
               "search_failed", "fetch_failed", "unverified", "ambiguous"}
Statuses == Unanswered \cup {"verified", "closed"}
Outcomes == {"skipped", "unread", "moved", "read"}
UnderWay == {"search", "careers", "candidates", "conclude"}
Cards == (1 .. Shown) \X Statuses
Evidence == [final : CandidateUrls, records : SUBSET Records, apply : BOOLEAN]

IntelligenceTypeOK ==
    /\ shortlist \in Shortlists
    /\ resolver \in {"ready", "unavailable", "invalid_configuration"}
    /\ stage \in UnderWay \cup {"next", "done"}
    /\ results \in Seq(Statuses)
    /\ inputs \in Seq(Cards)
    /\ message \subseteq Cards
    /\ envelope \subseteq Cards
    /\ opportunities \in 0 .. MaxResolved
    /\ queries \in 0 .. MaxQueries
    /\ leadUrls \subseteq CandidateUrls
    /\ leads \in Seq(CandidateUrls)
    /\ links \subseteq CandidateUrls
    /\ overlong \subseteq CandidateUrls
    /\ at \in 1 .. Len(leads) + 1
    /\ partial \in {"none", "budget_exhausted", "fetch_failed", "unverified"}
    /\ evidence \in Seq(Evidence)
    /\ official \in CandidateUrls \cup {Absent}
    /\ outcome \in Seq(Outcomes)
    /\ offered \in Seq(SUBSET CandidateUrls)

loop == <<shortlist, resolver>>
shared == <<opportunities, queries, leadUrls>>
published == <<message, envelope>>
resolution == <<leads, links, overlong, at, partial, evidence, official, outcome>>
intelligence == <<loop, stage, results, inputs, published, shared, resolution, offered>>

IntelligenceInit ==
    /\ shortlist \in Shortlists
    /\ resolver \in {"ready", "unavailable", "invalid_configuration"}
    /\ stage = "next"
    /\ results = <<>>
    /\ inputs = <<>>
    /\ message = {}
    /\ envelope = {}
    /\ opportunities = 0
    /\ queries = 0
    /\ leadUrls = {}
    /\ leads = <<>>
    /\ links = {}
    /\ overlong = {}
    /\ at = 1
    /\ partial = "none"
    /\ evidence = <<>>
    /\ official = Absent
    /\ outcome = <<>>
    /\ offered = <<>>

Current == Len(results) + 1
Kind == shortlist[Current]

\* Deviation: an opportunity whose resolve raises is no input of the cards.
GivesToAnswered(status) ==
    /\ results' = Append(results, status)
    /\ inputs' = IF status \in {"invalid_input", "unavailable"} THEN inputs
                 ELSE Append(inputs, <<Current, status>>)
    /\ stage' = "next"
    /\ UNCHANGED published

\* Every opportunity has a result; one that is refused is no input of the cards.
Gives(status) ==
    /\ results' = Append(results, status)
    /\ inputs' = IF Kind = "invalid" THEN inputs
                 ELSE Append(inputs, <<Current, status>>)
    /\ stage' = "next"
    /\ UNCHANGED published

-----------------------------------------------------------------------------
(* The loop of run(). *)

Enriching ==
    /\ stage = "next"
    /\ Current <= Len(shortlist)
    /\ Current <= Shown

Forget ==
    /\ leads' = <<>>
    /\ links' = {}
    /\ overlong' = {}
    /\ at' = 1
    /\ partial' = "none"
    /\ evidence' = <<>>
    /\ official' = Absent
    /\ outcome' = <<>>

RefuseIdentity ==
    /\ Enriching
    /\ Kind = "invalid"
    /\ Gives("invalid_input")
    /\ Forget
    /\ UNCHANGED <<loop, shared, offered>>

WithoutResolver ==
    /\ Enriching
    /\ Kind # "invalid"
    /\ resolver # "ready"
    /\ Gives(resolver)
    /\ Forget
    /\ UNCHANGED <<loop, shared, offered>>

\* resolve counts the opportunity before it asks; without the name of an
\* employer there is no request, and what that raises becomes "unavailable".
Resolve ==
    /\ Enriching
    /\ Kind # "invalid"
    /\ resolver = "ready"
    /\ opportunities < MaxResolved
    /\ opportunities' = opportunities + 1
    /\ IF Kind = "unnamed"
       THEN Gives("unavailable")
       ELSE stage' = "search" /\ UNCHANGED <<results, inputs, published>>
    /\ Forget
    /\ UNCHANGED <<loop, queries, leadUrls, offered>>

\* serialize_cards accepts it.
Printable(i) == shortlist[i] \in {"stranger", "known"}

\* The message has the cards of all inputs, or of none if one of them raises; the
\* envelope leaves out just the opportunities that do.  A verified one whose official
\* URL no card may show is lowered to "unavailable".
Publish ==
    /\ stage = "next"
    /\ ~Enriching
    /\ stage' = "done"
    /\ \E lowered \in SUBSET {i \in DOMAIN results : results[i] = "verified"} :
          LET Card(i, status) == <<i, IF i \in lowered THEN "unavailable" ELSE status>>
          IN  /\ message' = IF \A n \in DOMAIN inputs : Printable(inputs[n][1])
                            THEN {Card(inputs[n][1], inputs[n][2]) : n \in DOMAIN inputs}
                            ELSE {}
              /\ envelope' = {Card(i, results[i]) : i \in {k \in DOMAIN results : Printable(k)}}
    /\ UNCHANGED <<loop, results, inputs, shared, resolution, offered>>

-----------------------------------------------------------------------------
(* BravePublicSearchAdapter.search *)

SearchSpent == queries >= MaxQueries \/ Cardinality(leadUrls) >= MaxCandidates

\* Whatever a search or a fetch raises, and a citation that is refused; a search
\* that raises may have been counted.
Raises ==
    /\ stage \in {"search", "careers", "candidates", "conclude"}
    /\ Gives("unavailable")
    /\ queries' \in {queries} \cup
           (IF stage = "search" /\ ~SearchSpent THEN {queries + 1} ELSE {})
    /\ UNCHANGED <<loop, opportunities, leadUrls, resolution, offered>>

NoSearch ==
    /\ stage = "search"
    /\ SearchSpent
    /\ Gives("budget_exhausted")
    /\ UNCHANGED <<loop, shared, resolution, offered>>

SearchFails ==
    /\ stage = "search"
    /\ ~SearchSpent
    /\ queries' = queries + 1
    /\ Gives("search_failed")
    /\ UNCHANGED <<loop, opportunities, leadUrls, resolution, offered>>

FirstIn(response, i) ==
    /\ response[i] # Absent
    /\ \A j \in 1 .. i - 1 : response[j] # response[i]

Considered(response) == 1 .. Min({Len(response), MaxResults})

\* Deviation: only the leads of one response are compared.
FreshLeads(response) ==
    LET new == {i \in Considered(response) : FirstIn(response, i)}
    IN  [k \in 1 .. Cardinality(new) |-> response[Ascending(new)[k]]]

\* A URL is a lead the first time that any opportunity is offered it, as long
\* as there is room.
Leads(response) ==
    LET new == {i \in Considered(response) :
                   FirstIn(response, i) /\ response[i] \notin leadUrls}
        room == MaxCandidates - Cardinality(leadUrls)
    IN  [k \in 1 .. Min({Cardinality(new), room}) |-> response[Ascending(new)[k]]]

Finds(response) ==
    /\ stage = "search"
    /\ ~SearchSpent
    /\ queries' = queries + 1
    /\ leads' = Leads(response)
    /\ leadUrls' = leadUrls \cup ToSet(leads')
    /\ offered' = Append(offered, ToSet(leads'))
    /\ \/ /\ leads' = <<>>
          /\ Gives(IF response = <<>> THEN "unverified" ELSE "search_failed")
       \/ /\ leads' # <<>>
          /\ Kind \in {"stranger", "unprintable"}
          /\ Gives("unverified")
       \/ /\ leads' # <<>>
          /\ Kind \in {"known", "unprintable"}
          /\ stage' = "careers"
          /\ UNCHANGED <<results, inputs, published>>
    /\ UNCHANGED <<loop, opportunities, links, overlong, at, partial, evidence, official, outcome>>

-----------------------------------------------------------------------------
(* The careers page and the candidates. *)

\* No answer; a page that is stale, cannot be parsed or is of another host.
CareersFail ==
    /\ stage = "careers"
    /\ \E status \in {"budget_exhausted", "fetch_failed", "unverified"} : Gives(status)
    /\ UNCHANGED <<loop, shared, resolution, offered>>

\* _delegation: the exact link, or any link to the same tenant.
Delegated(url) ==
    \/ url \in links /\ Site[url] \in EmployerSites \cup Boards
    \/ Site[url] \in Boards /\ \E l \in links : Site[l] = Site[url]

\* The link that vouches for a URL is the first one on the page that does, the same
\* one for all of a tenant; overlong has the URLs for which it is longer than 1000
\* characters.
CareersRead ==
    /\ stage = "careers"
    /\ links' \in LinkSets
    /\ overlong' \in SUBSET {url \in CandidateUrls : Delegated(url)'}
    /\ \A url \in CandidateUrls, long \in overlong' :
          Site[url] = Site[long] /\ Site[url] \in Boards => url \in overlong'
    /\ stage' = "candidates"
    /\ UNCHANGED <<loop, results, inputs, published, shared, leads, at, partial, evidence,
                   official, outcome, offered>>

Candidate == leads[at]

Moves(what) ==
    /\ stage = "candidates"
    /\ at <= Len(leads)
    /\ at' = at + 1
    /\ outcome' = Append(outcome, what)
    /\ UNCHANGED <<loop, stage, results, inputs, published, shared, leads, links, overlong,
                   official, offered>>

Tries(url) == Delegated(url) /\ url \notin overlong

\* Nothing records that a candidate was skipped, be it for want of a link or for its
\* length.
Skip ==
    /\ Moves("skipped")
    /\ ~Tries(Candidate)
    /\ UNCHANGED <<partial, evidence>>

FetchFails ==
    /\ Moves("unread")
    /\ Tries(Candidate)
    /\ \/ partial' = "budget_exhausted"
       \/ \E status \in {"fetch_failed", "unverified"} :
              partial' = IF partial = "none" THEN status ELSE partial
    /\ UNCHANGED evidence

\* A redirect leads to nothing but what the careers page vouches for as well.
Accepts(final) ==
    /\ Site[final] = Site[Candidate]
    /\ Delegated(final)

RedirectedAway ==
    /\ Moves("moved")
    /\ Tries(Candidate)
    /\ \E final \in CandidateUrls : ~Accepts(final)
    /\ UNCHANGED <<partial, evidence>>

Fetched(final, content, apply) ==
    /\ Moves("read")
    /\ Tries(Candidate)
    /\ Accepts(final)
    /\ evidence' = Append(evidence, [final |-> final, records |-> content, apply |-> apply])
    /\ UNCHANGED partial

AllTried ==
    /\ stage = "candidates"
    /\ at > Len(leads)
    /\ stage' = "conclude"
    /\ UNCHANGED <<loop, results, inputs, published, shared, resolution, offered>>

-----------------------------------------------------------------------------
(* The verdict. *)

\* _vacancy_keys: a record without a URL is about the page it is on.
Keys(page, r) ==
    {<<"url", IF r.url = Absent THEN page.final ELSE r.url>>}
        \cup (IF r.requisition = Absent THEN {}
              ELSE {<<"requisition", r.requisition>>})

Pages == ToSet(evidence)

\* Deviation: records about other jobs are left out first.
ConflictOfMatches ==
    \E p, q \in Pages : \E r \in p.records, s \in q.records :
        /\ r.job /\ s.job
        /\ r # s
        /\ Keys(p, r) \cap Keys(q, s) # {}

\* _conflicts: two records with one key in common that differ.
Conflict ==
    \E p, q \in Pages : \E r \in p.records, s \in q.records :
        /\ r # s
        /\ Keys(p, r) \cap Keys(q, s) # {}

\* A record that names another URL is not about its page.
IsMatch(page, r) == r.job /\ r.url \in {Absent, page.final, Original}

Matches ==
    UNION {{<<p.final, r>> : r \in {x \in p.records : IsMatch(p, x)}} : p \in Pages}

\* The last page with a match decides whether it can be applied for.
Applies(final, r) ==
    LET last == CHOOSE i \in DOMAIN evidence :
            /\ evidence[i].final = final /\ r \in evidence[i].records
            /\ \A j \in DOMAIN evidence :
                  evidence[j].final = final /\ r \in evidence[j].records => j <= i
    IN  evidence[last].apply

Activity(final, r) ==
    CASE r.expiry = "undated" -> "unverified"
      [] r.expiry = "expired" -> "closed"
      [] OTHER -> IF Applies(final, r) THEN "verified" ELSE "unverified"

Unclear ==
    CASE Conflict \/ Cardinality(Matches) > 1 -> "ambiguous"
      [] partial # "none" -> partial
      [] OTHER -> "unverified"

Conclude ==
    /\ stage = "conclude"
    /\ \/ /\ Conflict \/ partial # "none" \/ Cardinality(Matches) # 1
          /\ Gives(Unclear)
          /\ UNCHANGED official
       \/ /\ ~Conflict /\ partial = "none"
          /\ \E m \in Matches :
                /\ Matches = {m}
                /\ Gives(Activity(m[1], m[2]))
                /\ official' = IF Activity(m[1], m[2]) = "verified" THEN m[1] ELSE Absent
    /\ UNCHANGED <<loop, shared, leads, links, overlong, at, partial, evidence, outcome,
                   offered>>

-----------------------------------------------------------------------------
Loop == RefuseIdentity \/ WithoutResolver \/ Resolve \/ Publish \/ Raises

Ask ==
    \/ NoSearch
    \/ SearchFails
    \/ \E response \in Responses : Finds(response)
    \/ CareersFail
    \/ CareersRead
    \/ Skip
    \/ FetchFails
    \/ RedirectedAway
    \/ \E final \in CandidateUrls, content \in Contents, apply \in BOOLEAN :
           Fetched(final, content, apply)
    \/ AllTried
    \/ Conclude

Ended ==
    /\ stage = "done"
    /\ UNCHANGED intelligence

IntelligenceNext == Loop \/ Ask \/ Ended

\* Every request has a timeout, so that the run comes back from each.
IntelligenceSpec ==
    /\ IntelligenceInit
    /\ [][IntelligenceNext]_intelligence
    /\ WF_intelligence(Loop \/ Ask)

-----------------------------------------------------------------------------
(* Properties. *)

Concluded(status) ==
    stage \in {"next", "done"} /\ results # <<>> /\ Last(results) = status

\* A vacancy is called open or closed only on the word of the employer: the
\* record is on a page that the careers page vouches for, after redirects too,
\* nothing that was read disagrees with it, no other vacancy could be meant,
\* and no page that the employer vouches for was left unread but those with a
\* link that is too long to be cited, which is not recorded.  The official URL
\* is that page, and there is none unless the vacancy is open.
VerdictHasAuthority ==
    /\ Concluded("verified") \/ Concluded("closed") =>
          \E p \in Pages : \E r \in p.records :
              /\ r.job
              /\ Delegated(p.final)
              /\ Concluded("verified") =>
                    r.expiry = "open" /\ p.apply /\ official = p.final
              /\ \A q \in Pages, s \in Records :
                    s \in q.records =>
                       /\ Keys(p, r) \cap Keys(q, s) # {} => s = r
                       /\ IsMatch(q, s) => s = r /\ q.final = p.final
              /\ \A i \in DOMAIN leads :
                    Delegated(leads[i]) =>
                       outcome[i] \in {"read", "moved"} \/ leads[i] \in overlong
    /\ ~Concluded("verified") => official = Absent

\* No URL is a lead of two opportunities of a run, and all searches together
\* stay within the budgets of queries and candidates, failed searches included.
LeadsOnce ==
    /\ \A i, j \in DOMAIN offered : i # j => offered[i] \cap offered[j] = {}
    /\ Cardinality(UNION ToSet(offered)) <= MaxCandidates
    /\ Len(offered) <= queries /\ queries <= MaxQueries

\* A card says what was found out, or less.
Truthful(card) ==
    \/ card[2] = results[card[1]]
    \/ card[2] = "unavailable" /\ results[card[1]] = "verified"

\* Each of the first opportunities has one result, in the order of the shortlist.
\* The envelope has one truthful card of each opportunity that can be shown, and the
\* message has the same cards, unless there is an opportunity that was accepted and
\* cannot be shown: then it has none at all.
Answered ==
    /\ Len(results) = Min({Len(shortlist), Shown})
    /\ \A i \in DOMAIN results : shortlist[i] = "invalid" => results[i] = "invalid_input"
    /\ {card[1] : card \in envelope} = {i \in DOMAIN results : Printable(i)}
    /\ \A c, d \in envelope : c[1] = d[1] => c = d
    /\ \A card \in envelope : Truthful(card)
    /\ message = IF \E i \in DOMAIN results : shortlist[i] \in {"unnamed", "unprintable"}
                 THEN {}
                 ELSE envelope

\* Whatever is refused, fails or raises on the way, the loop of run() comes to its
\* end and leaves every one of its opportunities answered, and the cards as they are
\* published are the answers.
EveryOpportunityAnswered == <>(stage = "done" /\ Answered)
=============================================================================
