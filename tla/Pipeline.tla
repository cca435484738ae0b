------------------------------- MODULE Pipeline -------------------------------
(****************************************************************************)
(* JobTrailAutomation.run, all stages of it, by one process again and       *)
(* again: the breaker's gate, preflight, the search requests, the imports,  *)
(* the scores, their reading back, the shortlist, the notification and what *)
(* the breaker is told.  Every boundary may fail, and a failure is kept on  *)
(* the run and stops nothing.                                               *)
(*                                                                          *)
(* An import with its check and mark is one step here (SeenCache has the    *)
(* interleavings), a scorer command too (Scoring), and the breaker is only  *)
(* asked and told (CircuitBreaker).                                         *)
(****************************************************************************)
EXTENDS Scores

CONSTANTS
    Offers,
    Anonymous,  \* offers without (source, sourceJobId): neither cached nor compared
    Jobs,
    NoJob,
    JobOf,      \* the id the backend answers for an offer; offers may share one
    Requests,   \* the profile of each search request, in order
    SearchResults,
    Readable,   \* payloads the notes of scored jobs may have
    MaxScore,   \* JOB_SEARCH_MAX_SCORE
    Threshold,  \* JOB_SCORE_THRESHOLD
    Configs,
    MaxItems,   \* labels in a failure summary
    MaxFaults   \* bound on the failures of one run

Profiles == ToSet(Requests)

ASSUME PipelineConfigOK ==
    /\ Anonymous \subseteq Offers
    /\ NoJob \notin Jobs
    /\ JobOf \in [Offers -> Jobs \cup {NoJob}]
    /\ Requests \in Seq(Profiles)
    /\ SearchResults \subseteq Seq(Offers)
    /\ Readable \subseteq Payloads
    /\ MaxScore \in Nat
    /\ MaxItems \in Nat
    /\ MaxFaults \in Nat
    /\ Configs \subseteq [notify : BOOLEAN,     \* WHATSAPP_NOTIFY_ENABLED
                          onFailure : BOOLEAN,  \* WHATSAPP_NOTIFY_ON_FAILURE
                          breaker : BOOLEAN,    \* BREAKER_STATE_PATH is set
                          profiled : BOOLEAN]   \* JOB_SEARCH_PROFILES is set

VARIABLES
    config,
    pc,
    seen,       \* offers the seen cache holds fresh
    at,         \* the current request
    found,      \* the rest of its result
    ids,        \* imported job ids, in order
    winners,    \* keys of imported_by_identity
    provenance, \* profiles_by_job_id, as pairs
    todo,       \* job ids left to score, or to read back
    scored,     \* scored_ids
    candidates,
    shortlist,
    labels,     \* the failures of the run, in order
    sent,       \* the message that was sent
    told,       \* what the breaker was told
    \* History, read by the properties only.
    fresh,      \* the cache when the run began
    hits,       \* <<request, offer>>: what the searches returned
    faults      \* failures that occurred in this run

searching == <<at, found, ids, winners, provenance, hits>>
scoring == <<todo, scored, candidates, shortlist>>
result == <<labels, sent, told, faults>>
vars == <<config, pc, seen, searching, scoring, result, fresh>>

-----------------------------------------------------------------------------

Named == Offers \ Anonymous

Failure(stage, request, subject) ==
    [stage |-> stage, at |-> request, subject |-> subject]

Failures ==
    [stage : {"breaker", "preflight", "search", "check", "import", "cache", "score", "read",
              "notify"},
     at : 0 .. Len(Requests),
     subject : Offers \cup Jobs \cup {NoJob}]

failures == ToSet(labels)

\* best: the announced job; empty: the "no matches" summary; count and first: the
\* failure summary.
Messages ==
    [best : Jobs \cup {NoJob}, empty : BOOLEAN, count : Nat, first : Seq(Failures)]

Nothing == [best |-> NoJob, empty |-> FALSE, count |-> 0, first |-> <<>>]

Candidate == [job : Jobs, payload : Payloads]

TypeOK ==
    /\ config \in Configs
    /\ pc \in {"idle", "gate", "preflight", "searching", "importing", "unchecked",
               "scoring", "reading", "notifying", "recording", "ended"}
    /\ seen \subseteq Named
    /\ at \in 0 .. Len(Requests) + 1
    /\ found \in Seq(Offers)
    /\ ids \in Seq(Jobs) /\ IsInjective(ids)
    /\ winners \subseteq Named
    /\ provenance \subseteq Jobs \X Profiles
    /\ todo \in Seq(Jobs)
    /\ scored \in Seq(Jobs)
    /\ candidates \in Seq(Candidate)
    /\ shortlist \in Seq(Candidate)
    /\ labels \in Seq(Failures)
    /\ sent \in Messages
    /\ told \in {"nothing", "failure", "success"}
    /\ fresh \subseteq Named
    /\ hits \subseteq (1 .. Len(Requests)) \X Offers
    /\ faults \in 0 .. MaxFaults

Init ==
    /\ config \in Configs
    /\ pc = "idle"
    /\ seen = {}
    /\ at = 0
    /\ found = <<>>
    /\ ids = <<>>
    /\ winners = {}
    /\ provenance = {}
    /\ todo = <<>>
    /\ scored = <<>>
    /\ candidates = <<>>
    /\ shortlist = <<>>
    /\ labels = <<>>
    /\ sent = Nothing
    /\ told = "nothing"
    /\ fresh = {}
    /\ hits = {}
    /\ faults = 0

Goto(stage) == pc' = stage

\* A boundary fails, and the run goes on with one failure more.
Fail(failure) ==
    /\ faults < MaxFaults
    /\ faults' = faults + 1
    /\ labels' = Append(labels, failure)
    /\ UNCHANGED <<sent, told>>

-----------------------------------------------------------------------------
(* The gates.                                                               *)

\* A run starts, some time after the last one: entries of the cache may have
\* expired.
Begin ==
    /\ pc \in {"idle", "ended"}
    /\ \E left \in SUBSET seen : seen' = left /\ fresh' = left
    /\ at' = 0
    /\ found' = <<>>
    /\ ids' = <<>>
    /\ winners' = {}
    /\ provenance' = {}
    /\ todo' = <<>>
    /\ scored' = <<>>
    /\ candidates' = <<>>
    /\ shortlist' = <<>>
    /\ labels' = <<>>
    /\ sent' = Nothing
    /\ told' = "nothing"
    /\ hits' = {}
    /\ faults' = 0
    /\ Goto("gate")
    /\ UNCHANGED config

\* No breaker, or should_attempt().
Attempt ==
    /\ pc = "gate"
    /\ Goto("preflight")
    /\ UNCHANGED <<config, seen, searching, scoring, result, fresh>>

\* _handle_breaker_open: the run fails at once and the breaker is told nothing.
\* The alert is due or not, is asked for or not, and may fail.
BreakerOpen ==
    /\ pc = "gate"
    /\ config.breaker
    /\ LET open == Failure("breaker", 0, NoJob)
       IN  \/ labels' = <<open>>
           \/ /\ config.notify \/ config.onFailure
              /\ labels' = <<open, Failure("notify", 0, NoJob)>>
    /\ Goto("ended")
    /\ UNCHANGED <<config, seen, searching, scoring, sent, told, faults, fresh>>

\* A required check is unavailable.
PreflightAborts ==
    /\ pc = "preflight"
    /\ faults < MaxFaults
    /\ faults' = faults + 1
    /\ labels' = <<Failure("preflight", 0, NoJob)>>
    /\ told' = IF config.breaker THEN "failure" ELSE "nothing"
    /\ Goto("ended")
    /\ UNCHANGED <<config, seen, searching, scoring, sent, fresh>>

PreflightPasses ==
    /\ pc = "preflight"
    /\ at' = 1
    /\ Goto("searching")
    /\ UNCHANGED <<config, seen, found, ids, winners, provenance, hits, scoring, result, fresh>>

-----------------------------------------------------------------------------
(* Searching and importing.                                                 *)

Search ==
    /\ pc = "searching"
    /\ at \in DOMAIN Requests
    /\ \E offers \in SearchResults :
          /\ found' = offers
          /\ hits' = hits \cup ({at} \X ToSet(offers))
    /\ Goto("importing")
    /\ UNCHANGED <<config, seen, at, ids, winners, provenance, scoring, result, fresh>>

SearchFails ==
    /\ pc = "searching"
    /\ at \in DOMAIN Requests
    /\ Fail(Failure("search", at, NoJob))
    /\ at' = at + 1
    /\ UNCHANGED <<config, pc, seen, found, ids, winners, provenance, hits, scoring, fresh>>

Searched ==
    /\ pc = "importing"
    /\ found = <<>>
    /\ at' = at + 1
    /\ Goto("searching")
    /\ UNCHANGED <<config, seen, found, ids, winners, provenance, hits, scoring, result, fresh>>

Duplicate(o) == config.profiled /\ o \in winners

WithProfile(job) == provenance \cup {<<job, Requests[at]>>}

\* The next offer of the result is o, and this step is done with it.
NextOffer(o) ==
    /\ found # <<>>
    /\ o = Head(found)
    /\ found' = Tail(found)
    /\ Goto("importing")
    /\ UNCHANGED <<config, at, hits, scoring, fresh>>

\* Deviation: a profile that finds an imported offer again is forgotten.
SkipDuplicateQuietly(o) ==
    /\ pc = "importing"
    /\ NextOffer(o)
    /\ Duplicate(o)
    /\ UNCHANGED <<seen, ids, winners, provenance, result>>

\* Another profile of this run has imported it.
SkipDuplicate(o) ==
    /\ pc = "importing"
    /\ NextOffer(o)
    /\ Duplicate(o)
    /\ provenance' = WithProfile(JobOf[o])
    /\ UNCHANGED <<seen, ids, winners, result>>

SkipCached(o) ==
    /\ pc = "importing"
    /\ NextOffer(o)
    /\ ~Duplicate(o)
    /\ o \in seen
    /\ UNCHANGED <<seen, ids, winners, provenance, result>>

\* The cache cannot tell whether it has the offer; it is imported then.
CheckFails(o) ==
    /\ pc = "importing"
    /\ found # <<>>
    /\ o = Head(found)
    /\ o \in Named
    /\ ~Duplicate(o)
    /\ Fail(Failure("check", at, o))
    /\ Goto("unchecked")
    /\ UNCHANGED <<config, seen, searching, scoring, fresh>>

\* The offer goes to the backend.
Post(o) ==
    /\ NextOffer(o)
    /\ \/ pc = "importing" /\ ~Duplicate(o) /\ o \notin seen
       \/ pc = "unchecked"

\* The backend answers; its job counts if it is new to this run.
Admit(o) ==
    LET job == JobOf[o]
        new == job # NoJob /\ job \notin ToSet(ids)
    IN  /\ ids' = IF new THEN Append(ids, job) ELSE ids
        /\ winners' = IF new /\ config.profiled THEN winners \cup ({o} \cap Named)
                                                ELSE winners
        /\ provenance' = IF new /\ config.profiled THEN WithProfile(job) ELSE provenance

Import(o) ==
    /\ Post(o)
    /\ Admit(o)
    /\ seen' = seen \cup ({o} \cap Named)
    /\ UNCHANGED result

\* The import succeeds, the mark does not.
ImportUnmarked(o) ==
    /\ Post(o)
    /\ o \in Named
    /\ Admit(o)
    /\ Fail(Failure("cache", at, o))
    /\ UNCHANGED seen

\* Deviation: the offer is entered as imported before the import is tried.
ImportFailsAsWinner(o) ==
    /\ Post(o)
    /\ Fail(Failure("import", at, o))
    /\ winners' = winners \cup ({o} \cap Named)
    /\ UNCHANGED <<seen, ids, provenance>>

\* The POST fails, or is answered and the answer lost; it is never retried.
ImportFails(o) ==
    /\ Post(o)
    /\ Fail(Failure("import", at, o))
    /\ UNCHANGED <<seen, ids, winners, provenance>>

-----------------------------------------------------------------------------
(* Scoring and reading back.                                                *)

\* All requests are done; the first MaxScore jobs are scored.
Imported ==
    /\ pc = "searching"
    /\ at \notin DOMAIN Requests
    /\ todo' = SubSeq(ids, 1, Shorter(MaxScore, Len(ids)))
    /\ Goto("scoring")
    /\ UNCHANGED <<config, seen, searching, scored, candidates, shortlist, result, fresh>>

Score ==
    /\ pc = "scoring"
    /\ todo # <<>>
    /\ scored' = Append(scored, Head(todo))
    /\ todo' = Tail(todo)
    /\ UNCHANGED <<config, pc, seen, searching, candidates, shortlist, result, fresh>>

\* Deviation: a job whose scorer failed is read back all the same.
ScoreFailsUnheeded ==
    /\ pc = "scoring"
    /\ todo # <<>>
    /\ Fail(Failure("score", 0, Head(todo)))
    /\ scored' = Append(scored, Head(todo))
    /\ todo' = Tail(todo)
    /\ UNCHANGED <<config, pc, seen, searching, candidates, shortlist, fresh>>

\* After its retries, or at once if the failure is terminal.
ScoreFails ==
    /\ pc = "scoring"
    /\ todo # <<>>
    /\ Fail(Failure("score", 0, Head(todo)))
    /\ todo' = Tail(todo)
    /\ UNCHANGED <<config, pc, seen, searching, scored, candidates, shortlist, fresh>>

Scored ==
    /\ pc = "scoring"
    /\ todo = <<>>
    /\ todo' = scored
    /\ Goto("reading")
    /\ UNCHANGED <<config, seen, searching, scored, candidates, shortlist, result, fresh>>

ReadBack ==
    /\ pc = "reading"
    /\ todo # <<>>
    /\ \E payload \in Readable :
          candidates' = Append(candidates, [job |-> Head(todo), payload |-> payload])
    /\ todo' = Tail(todo)
    /\ UNCHANGED <<config, pc, seen, searching, scored, shortlist, result, fresh>>

\* The job has no readable score, for instance because it has no description.
Unreadable ==
    /\ pc = "reading"
    /\ todo # <<>>
    /\ todo' = Tail(todo)
    /\ UNCHANGED <<config, pc, seen, searching, scored, candidates, shortlist, result, fresh>>

ReadFails ==
    /\ pc = "reading"
    /\ todo # <<>>
    /\ Fail(Failure("read", 0, Head(todo)))
    /\ todo' = Tail(todo)
    /\ UNCHANGED <<config, pc, seen, searching, scored, candidates, shortlist, fresh>>

Rank ==
    /\ pc = "reading"
    /\ todo = <<>>
    /\ shortlist' = BuildShortlist(candidates, Threshold)
    /\ Goto("notifying")
    /\ UNCHANGED <<config, seen, searching, todo, scored, candidates, result, fresh>>

-----------------------------------------------------------------------------
(* Telling the operator and the breaker.                                    *)

\* Deviation: a match hides the failures.
MatchOnly ==
    LET best == IF config.notify /\ shortlist # <<>> THEN shortlist[1].job ELSE NoJob
        shown == IF config.onFailure /\ best = NoJob THEN labels ELSE <<>>
    IN  [best |-> best,
         empty |-> config.notify /\ shortlist = <<>> /\ labels = <<>>,
         count |-> Len(shown),
         first |-> SubSeq(shown, 1, Shorter(MaxItems, Len(shown)))]

\* _compose_notification, with build_failure_summary: how many failures, and the
\* first of them.
Body ==
    [best |-> IF config.notify /\ shortlist # <<>> THEN shortlist[1].job ELSE NoJob,
     empty |-> config.notify /\ shortlist = <<>> /\ labels = <<>>,
     count |-> IF config.onFailure THEN Len(labels) ELSE 0,
     first |-> IF config.onFailure THEN SubSeq(labels, 1, Shorter(MaxItems, Len(labels)))
                                   ELSE <<>>]

Notify ==
    /\ pc = "notifying"
    /\ sent' = Body
    /\ Goto("recording")
    /\ UNCHANGED <<config, seen, searching, scoring, labels, told, faults, fresh>>

\* Deviation: the run does not know of it.
NotifyFailsQuietly ==
    /\ pc = "notifying"
    /\ Body # Nothing
    /\ faults < MaxFaults
    /\ faults' = faults + 1
    /\ Goto("recording")
    /\ UNCHANGED <<config, seen, searching, scoring, labels, sent, told, fresh>>

NotifyFails ==
    /\ pc = "notifying"
    /\ Body # Nothing
    /\ Fail(Failure("notify", 0, NoJob))
    /\ Goto("recording")
    /\ UNCHANGED <<config, seen, searching, scoring, fresh>>

\* The breaker learns the outcome, and the run is returned.
Record ==
    /\ pc = "recording"
    /\ told' = IF ~config.breaker THEN "nothing"
               ELSE IF labels # <<>> THEN "failure" ELSE "success"
    /\ Goto("ended")
    /\ UNCHANGED <<config, seen, searching, scoring, labels, sent, faults, fresh>>

\* The process dies, or an exception of the breaker or of a preflight runner
\* leaves run().
Dies ==
    /\ pc \notin {"idle", "ended"}
    /\ Goto("idle")
    /\ UNCHANGED <<config, seen, searching, scoring, result, fresh>>

-----------------------------------------------------------------------------

Next ==
    \/ Begin \/ Attempt \/ BreakerOpen \/ PreflightAborts \/ PreflightPasses
    \/ Search \/ SearchFails \/ Searched
    \/ \E o \in Offers :
          \/ SkipDuplicate(o) \/ SkipCached(o) \/ CheckFails(o)
          \/ Import(o) \/ ImportUnmarked(o) \/ ImportFails(o)
    \/ Imported \/ Score \/ ScoreFails \/ Scored
    \/ ReadBack \/ Unreadable \/ ReadFails \/ Rank
    \/ Notify \/ NotifyFails \/ Record
    \/ Dies

Spec == Init /\ [][Next]_vars

-----------------------------------------------------------------------------
(* Properties.                                                              *)

Gated == \E f \in failures : f.stage \in {"breaker", "preflight"}

\* No offer gets lost on the way: whatever a search has returned was fresh in the
\* cache, has no job, or its own import failed, or its job was scored, failed to be,
\* or lies beyond JOB_SEARCH_MAX_SCORE.
EveryOfferAccountedFor ==
    pc \in {"notifying", "recording", "ended"} =>
        \A hit \in hits :
            LET o == hit[2]
                job == JobOf[o]
            IN  \/ o \in fresh
                \/ job = NoJob
                \/ Failure("import", hit[1], o) \in failures
                \/ \E k \in DOMAIN ids :
                      /\ ids[k] = job
                      /\ \/ job \in ToSet(scored)
                         \/ Failure("score", 0, job) \in failures
                         \/ k > MaxScore

\* A job is announced only on a score of this very run, never on an old note
\* ("failed scorer cannot select or notify old high marker",
\* tests/test_automation.py:1486).
AnnouncedWasScored ==
    \A k \in DOMAIN shortlist :
        LET job == shortlist[k].job
        IN  /\ job \in ToSet(ids)
            /\ Failure("score", 0, job) \notin failures
            /\ Failure("read", 0, job) \notin failures

\* The breaker is told the truth: a run without any failure, the notifier's
\* included, is a success, another one is not, and each run that was let through
\* and returns is told.
VerdictIsTrue ==
    pc = "ended" =>
        /\ told = "success" => faults = 0
        /\ told = "failure" => faults > 0
        /\ config.breaker /\ told = "nothing" =>
              Failure("breaker", 0, NoJob) \in failures

\* Unless the notifier itself failed, the operator has learnt the best match, how
\* many failures the run had, and the first MaxItems of them in order, thus all of
\* them if they are no more, if these were asked for; runs stopped at a gate excepted
\* (docs/runtime-automation.md:637-640 and 814).
OperatorKnows ==
    /\ pc = "ended"
    /\ ~Gated
    /\ Failure("notify", 0, NoJob) \notin failures
    => /\ config.onFailure =>
             /\ sent.count = faults
             /\ sent.first = SubSeq(labels, 1, Shorter(MaxItems, faults))
             /\ faults <= MaxItems => ToSet(sent.first) = failures
       /\ config.notify /\ shortlist # <<>> => sent.best = shortlist[1].job

\* An offer that shares its job with no other one.
Alone(o) == \A p \in Offers \ {o} : JobOf[p] # JobOf[o]

\* A job names only profiles whose search returned it, and all of them but those
\* whose own import of it failed; jobs that the backend merges, or that have no
\* identity, may miss some.
ProvenanceExact ==
    /\ \A pair \in provenance : \E hit \in hits :
          Requests[hit[1]] = pair[2] /\ JobOf[hit[2]] = pair[1]
    /\ config.profiled /\ pc \in {"scoring", "reading", "notifying", "recording"} =>
          \A hit \in hits :
              LET o == hit[2]
              IN  \/ o \in Anonymous \/ o \in fresh \/ ~Alone(o)
                  \/ JobOf[o] = NoJob
                  \/ Failure("import", hit[1], o) \in failures
                  \/ <<JobOf[o], Requests[hit[1]]>> \in provenance
=============================================================================
