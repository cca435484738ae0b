# A TLA+ verification of jobtrail-ai-scorer

This directory models the JobTrail automation in TLA+, checks the models with
TLC on small instances and proves the main results with TLAPS for all
instances. Paths below are relative to the repository; modules are named
`automation.py` for `src/jobtrail_ai_scorer/automation.py`.

1. [The system](#1-the-system)
2. [What is hard](#2-what-is-hard)
3. [The models](#3-the-models)
4. [The runs](#4-the-runs)
5. [The proofs](#5-the-proofs)
6. [Disagreements between code and documentation](#6-disagreements-between-code-and-documentation)
7. [Not modelled](#7-not-modelled)

## 1. The system

A scheduler starts the launcher (`scripts/automated-job-search.example.py`)
once a day; an operator may start another one at any time, and a run may last
longer than the interval, so **launcher processes overlap**. They share files,
not memory: `seen.json`, `breaker.json` and `runs.jsonl`, each rewritten as a
whole by `tmp + os.replace`, each read with "unreadable means empty".

| Component | State it keeps | Operations | Talks to |
| --- | --- | --- | --- |
| Launcher (script) | none | reset the cache, run, record, deliver | all of the below |
| Pipeline (`automation.py`) | local lists of one run: ids, winners, failures | breaker gate, preflight, search, import, score, read back, shortlist, enrich, notify, record | sources, JobTrail API, scorer subprocess, notifier, cache, breaker, journal |
| Seen cache (`seen_cache.py`) | `seen.json`, entries in memory, flock on `seen.json.lock` | `transaction`, `should_skip`, `mark_seen`, `reset` | pipeline, launcher |
| Circuit breaker (`circuit_breaker.py`) | `breaker.json`, state in memory, no lock | `should_attempt`, `record_failure`, `record_success`, `try_alert` | pipeline |
| Run journal (`run_journal.py`) | `runs.jsonl`, flock on `runs.jsonl.lock` | `record_run`, `record_delivery`, `iter_runs` | pipeline, launcher, metrics |
| n8n handoff (`n8n_outbound.py`) | none | `build_envelope`, `send` with retries | launcher, the n8n webhook |
| Retry (`retry.py`) | none | `classify_retryable`, `retry_call` | scorer, API GETs, sources |
| Preflight (`preflight.py`) | a thread pool | probes with timeouts, `run_preflight` | pipeline, backends |
| Scoring (`scoring.py`, `shortlist.py`, `main.py`) | the note on a job in JobTrail | fingerprint, `should_score`, `score_jobs`, `classify_score` | JobTrail API, provider |
| Prompting (`prompt_*.py`, `matching_strategy.py`) | none | bound a prompt | scoring |
| Providers (`providers/`) | none | one completion | Hermes subprocess, HTTP API |
| Sources (`sources/`) | none | `search`, with paging and byte bounds | job boards |
| Opportunity intelligence (`opportunity_intelligence.py`, `opportunity_cards.py`) | budgets of one resolver | match an offer with public pages | public search and fetch |
| Public fetch and search (`public_http.py`, `public_search.py`) | DNS slots of the process, byte and time budgets | resolve, connect, read, redirect | the Internet |
| Notification (`notify.py`) | none | compose and send a message | WhatsApp helper |
| Metrics (`metrics.py`) | none | count a period of the journal | journal, seen cache, API |
| Discovery (`discover.py`) | none | find the backend's URL | Docker, HTTP |
| Dry run (`automation.py`) | none | plan instead of act | - |
| Runtime scripts (`scripts/runtime_*.py`) | files and backups of an installation | install, rotate, clean, purge | file system |

What makes each one correct:

* *Seen cache*: overlapping runs never import the same fresh offer twice, never
  drop each other's marks, and suppress only offers the backend has.
* *Breaker*: it is open exactly when it should be, alerts no more often than
  promised, and neither blocks nor stays silent for ever.
* *Journal and handoff*: no line is lost, the local outcome precedes the
  delivery, no acknowledgement is invented.
* *Pipeline*: every stage's failure is contained; counts agree; a marked offer is
  scored or reported.
* *Scoring*: an up-to-date job is not scored again, and what is announced is the
  score of the content that was scored.
* *Preflight*: the verdict follows from the probes, not from the order or the time in
  which they are awaited.
* *Sources*: a search returns all its boards answered, up to the limit, or fails; one
  that fails does not end the collection.
* *Intelligence and fetch*: bounds hold whatever the network does, and only the
  employer's own pages decide whether a vacancy is open.
* *Runtime scripts*: one failure or crash between two file operations loses neither the
  active install nor the last whole build.

## 2. What is hard

* **Overlap.** The cache and the journal take a lock around read-modify-write;
  the breaker takes none. The launcher's cache reset takes none either.
* **Degradation.** A lock that cannot be taken, a file that cannot be read or
  written "must never crash a run": each such failure silently weakens the
  guarantee of the component, for this run and for the ones it overlaps.
* **Partial effects.** Import then mark, stamp then alert, record then hand off
  then record: a process may die, or a call may fail, between any two. A lost
  response means an effect without an answer.
* **Answers that come late, from elsewhere or in part.** A probe answers after its
  limit, a DNS thread after its deadline; a page redirects away from where it was
  vouched for; a board fails after others have answered; a tree is half copied.
* **Time.** Windows, cooldowns and alert cooldowns are compared at their
  boundaries, against stamps that other processes write.

`PROJECT.json` lists every hazard at its line with the properties that cover it.

## 3. The models

### SeenCache (with OfferLedger)

`SeenCache` is the import loop of `JobTrailAutomation.run` over a `SeenCache`
object, one process per element of `Runs`.

| Model | Code |
| --- | --- |
| `file`, `mem[r]` | `seen.json` and `SeenCache._entries`: first-seen times per offer |
| `holder` | who holds the flock on `seen.json.lock` |
| `offer`, `hours`, `todo`, `winners` | the job, `request.hours_old`, the jobs left, `imported_by_identity` |
| `Start`, `StartWithReset` | `_build_seen_cache` in the launcher |
| `NextOffer`, `Acquire`, `LockFails`, `Release` | one iteration entering and leaving `transaction()` |
| `SkipDuplicate`, `SkipCached`, `Admit` | the two checks before the import |
| `ImportReturns`, `ImportRejected`, `ImportResponseLost` | `gateway.import_job` and its `except` |
| `Mark`, `MarkAnonymous` | `_record_seen`, `mark_seen`, `save` |
| `Crash`, `Tick` | the process dies (the kernel drops its flock); an hour passes |

An offer is a model value: the code only compares keys. Offers in `Anonymous`
have no key (`_cache_identity` is `None`). Hours are the unit of time because
windows are whole hours. `accepted` and `excused` are history
variables; no guard reads them. The clock does not run backwards.

`OfferLedger` is what `transaction()`'s docstring promises: one ledger, one
offer at a time in check/import/mark. `SerialLedger` says `SeenCache` implements
it under the refinement `ledger <- file`, `admitted <- Admitted`, where
`Admitted` is the offer the lock holder is importing or marking.

### CircuitBreaker

One breaker file, any number of run slots. A run loads (`Begin`), passes the
gate (`Attempt`) or is turned away (`Block`, or `BlockAndStamp` when an alert is
due), and a run that passed ends in `RunFails` or `RunSucceeds`; a preflight
abort is a `RunFails`. The notifier is called after the stamp (`SendAlert`). The
file is written from the run's own state, so an overlapping run's outcome is
overwritten, as in the code. `SaveFails` is the exception of `_save` leaving
`run()`.

A stamp is represented by its **age**, since the code computes nothing else from
it, and an age stops growing at the larger of the two cooldowns, where all
comparisons are decided. The counter stops at the threshold for the same reason.
So neither time nor the number of runs needs a bound. `streak`, `quiet`,
`lastAlert`, `sameOutage` and `disturbed` are history variables.

### RunJournal

The end of the launcher process. An append is `Lock` (or `LockFails`), `Read`
(or `ReadFails`, which the code treats as an empty file), `Replace` (or
`WriteFails`), `Unlock`. Each process goes through up to three of them: `run()`'s
own (`_journal_run`, errors swallowed, only with `JOBTRAIL_RUN_JOURNAL_PATH`
set: `PathSet`), the launcher's `record_run` and, after the handoff,
`record_delivery` (errors end the launcher). The handoff is
`N8nOutboundAdapter.send`, one action per outcome of one POST. n8n itself is
external: a 2xx means it has stored the event, a 4xx that it has not, everything
else says nothing. A line carries its run, its kind and the delivery outcome; its
counters are left out. `Step` is what a live launcher does by itself, `Fault` what may
befall it. Readers see whole files (`os.replace`), so the reader is
not a process of the model.

### Scoring

Scorer processes on the jobs of one backend. An element of `Scorers` is a slot that
runs `score` again and again over the listed jobs, or, if it is in `Automation`, the
scoring part of automation runs: one `score --job-id ID --force` per imported job,
restarted by `retry_call`, then the reads of `run()`. Nothing locks a job.

| Model | Code |
| --- | --- |
| `content[j]` | what `job_fingerprint` digests; `Blank`: no description |
| `notes[j].legacy`, `.last`, `.valid` | what `_contains_score_marker` and `parse_score_note` find in the notes |
| `got[s]` | the fingerprint and the prompt of a scorer's GET, used until its POST |
| `tries[s]`, `Failed` | the attempts of `retry_call`; for `score`, the next candidate |
| `ListJobs`, `Imported`, `Choose` | `_select_candidates`, or the imported ids |
| `GetJob`, `SkipJob`, `AddNote`, `ScoreFails` | one iteration of `score_jobs` |
| `NoteUnconfirmed` | the note is stored and the command fails nevertheless |
| `CommandMissing` | a terminal failure, which is not retried |
| `ReadBack`, `Finish`, `AllReadBack` | `get_job`, `parse_score_note` in `run()` |
| `Edit`, `Killed` | a user edits the job; the process dies |

Notes only grow and the code asks three questions about them, so a record of the
answers replaces the list. A digest stands for a content, so two contents never
collide. `noted` and `stored` are history variables. Custom markers, `--dry-run`
(which stores nothing), `score --force` from the command line and the delays of a
retry are left out; what becomes of the score itself is in `Scores`.

### Scores and Shortlist

`Scores` has no state: `Note` is what `_serialize_note` writes of a provider's answer
once `ScoreResult` has validated it, `Class` is `classify_score`, `Eligible` is
`eligible_score` on what `parse_score_note` reads, `BuildShortlist` is
`build_shortlist`. A list of evidence or gaps is represented by "absent", "empty" or
"some", the only questions these functions ask. `Results` are answers that pass the
field checks; others raise and store nothing. `Class` is `classify_score` as
`ScoreResult` calls it, after the lists that speak against a job have been looked at.

`build_shortlist` filters, sorts and cuts: `EligibleAt` are the indices that pass the
filter, `Ahead` is the order of the stable sort, and `InOrder` of `Ordering` lists a set
in an order. `Ordering` is what sorting a list, or picking some of its entries, comes to
wherever the code does it (`Sources` and `OpportunityIntelligence` use it too).

`Shortlist` reads up to `MaxCandidates` notes back (`ReadNote`) and ranks them
(`RankNotes`). `Better`,
`Recommended` and `Damaged` in its properties are written without the operators of the
code's order: by counting, from the answer, and field by field. A damaged note lacks one of
the fields that `eligible_score` reads, `recommendation` included; without a score it would
not be read at all.

### Pipeline

`Pipeline` is one process that calls `run()` again and again, every stage of it and a
failure at every boundary.

| Model | Code |
| --- | --- |
| `Begin`; `Attempt`, `BreakerOpen` | a later run, with some cache entries expired; `should_attempt` |
| `PreflightAborts`, `PreflightPasses` | the preflight runner's report |
| `Search`, `SearchFails`, `Searched` | one request of one adapter |
| `SkipDuplicate`, `SkipCached`, `CheckFails`, `Import`, `ImportUnmarked`, `ImportFails` | one iteration over the jobs of a result; after a failing check of the cache the offer is imported all the same (`Post`) |
| `ids`, `winners`, `provenance` | `ids`, `imported_by_identity`, `profiles_by_job_id` |
| `Score`, `ScoreFails`, `ReadBack`, `Unreadable`, `ReadFails`, `Rank` | the scoring and reading loops, `build_shortlist` |
| `labels`, `failures` | the list `failures`, and the set of its entries |
| `Body`, `MaxItems`, `Notify`, `NotifyFails` | `_compose_notification` and `build_failure_summary`, which sends the number of failures and the first `max_items` labels (5 in the code); the notifier |
| `Record`, `told` | `record_failure` or `record_success` |
| `Dies` | the process dies, or an exception leaves `run()` |

`JobOf` is the backend: the id it answers for an offer, the same for offers it merges,
`NoJob` for an answer without id. Here an import is one step, a scorer command with
its retries is one step, and the breaker is only asked and told; `SeenCache`,
`Scoring` and `CircuitBreaker` have what happens inside. The run has a cache. Left out:
the counters per profile and the fields of an opportunity. The enrichment between ranking
and notification, whose failures are contained in its own results, and the cards it adds
to the message are in `OpportunityIntelligence`, and the preflight and search stages are
in `Collection`. `fresh`, `hits` and `faults` are history variables.

### PublicFetch

One `PublicFetcher` that fetches pages one after the other, all of them and their
redirects on the same deadline, attempts and bytes; and `bounded_resolve`, whose
threads nobody can cancel and which share the DNS slots of the process.

| Model | Code |
| --- | --- |
| `expired`, `attempts`, `bytes` | `_deadline` has passed, `_attempts`, `_bytes` |
| `current`, `seen`, `hop`, `answer` | the locals of `fetch` |
| `used`, `body`, `framing`, `declared`, `kind` | `_ByteBudget.used`, the body so far, how its end is told, its `content-length`, what status and media type make of it |
| `slots`, `lookup`, `others` | `_DNS_SLOTS`, the thread `fetch` waits for, other threads |
| `Fetch` .. `Enter`, `NumericHost` | the call, and the start of each hop |
| `LookUp`, `DNSBusy`, `ThreadFails`, `LookupEnds`, `LookupTells`, `Resolved`, `WaitTimesOut` | `bounded_resolve`, with the release of the slot and `done.set()` as two steps |
| `Connect` .. `Closed` | the connection, its headers, its body in pieces |
| `Page`, `NoPage`, `Redirect`, `RedirectRefused` | what is made of a whole response |
| `OutOfTime`, `OutOfBytes`, `NetworkFails` | `_remaining`, `allowance` and the `except` clauses, wherever they bite |

A lookup that is not waited for, abandoned by this fetcher or started by another one,
is counted in `others` and nothing else: its answer goes nowhere. The checks of URLs
and addresses (`_safe_url`, `_public_ip`) are represented by their verdicts: `Urls`,
`Numeric` and `answer`. Bytes come in blocks; the headers are one block, and what the
reader fetches ahead counts where it is consumed. The bound on the decoded body
(`MAX_RESPONSE_BYTES - len(body)`) never bites before the one on the wire, which
counts headers and body. A thread that cannot be started raises `RuntimeError`, which
no `except` of `fetch` names: status `raised`. `asked` and `lookedUp` are history
variables.

### Collection (Preflight and Sources)

`Collection` composes the first two stages of `run()` with the threads that outlive the
first one. `Preflight` is `run_preflight` and its pool, `Sources` the loop over
adapters and requests with what happens inside `adapter.search`.

| Model | Code |
| --- | --- |
| `probe[c]`; `StartProbe`, `AskAgain`, `ProbeEnds` | a future of the pool; a free thread takes the next one, `GET` falls back to `HEAD`, the probe returns or raises |
| `next`, `waited`; `Collect`, `TimesOut`, `WaitOn` | the loop over the futures, `future.result(timeout=...)` |
| `report`, `verdict`; `Conclude` | the statuses, `should_abort`, and what `run()` does with it |
| `Calls`, `CallOrder`, `Searches`, `search` | the calls of `adapter.search`, one for each adapter, profile and location (`RequestsFor`: an ATS adapter gets one per profile); the order of the three loops; the adapter of each call, and the place in them |
| `answered`, `asked`, `jobs` | the boards that answered, the attempts at the current one, the rows so far |
| `Answer`, `Empty` | one response, what `normalize_*` keeps of it, `results_wanted` |
| `Retry`, `GiveUp`, `Refuse` | `retry_call` around a request: retryable, exhausted, terminal |
| `Stumble` | `AttributeError` of `normalize_jobspy_job` over a row that is no object |
| `Return`, `TakeResult`, `result` | the search returns or raises, `run()` goes on to the next |
| `Exit` | the interpreter joins the threads of the pool |

Time is in ticks. A tick (`WaitOn`) passes only while `run_preflight` waits and no thread is free
to start a probe: starting a submitted probe takes no time on the scale of the limits.
`ran` counts how long each probe has run; `ran`, and `answered` once a search has
ended, are read by properties only. A row is a job, a job without id, or no object;
what is in it is text. JobSpy and Adzuna are one request, Lever and Greenhouse one for
each board.

### OpportunityIntelligence

The loop of `run()` over the shortlist, `resolve`, and `BravePublicSearchAdapter.search`,
whose budgets and memory of leads live as long as the run.

| Model | Code |
| --- | --- |
| `shortlist`, `resolver`, `results`, `inputs` | each opportunity as `PublicJobIdentity`, the cards and the employer contexts see it (`Kinds`); whether there is a resolver; what the loop collects (`intelligence`, `card_inputs`) |
| `opportunities`, `queries`, `leadUrls` | `_opportunities`, `_attempts`, `_seen` |
| `RefuseIdentity`, `WithoutResolver`, `Resolve`, `Raises` | one iteration of the loop, and its `except` |
| `Publish`, `message`, `envelope`, `Printable` | the cards of the notifier's message (`render_cards(serialize_cards(card_inputs))` in one `try`) and those of the n8n envelope (`build_n8n_envelope`, a `try` for each); what `serialize_cards` accepts |
| `NoSearch`, `SearchFails`, `Finds`, `Leads` | the search adapter: budgets, failure, and of the results `Considered` those that are new to this response (`FirstIn`) and to the run |
| `CareersFail`, `CareersRead`, `links` | the careers page of the trusted context |
| `Skip`, `FetchFails`, `RedirectedAway`, `Fetched`, `Delegated`, `overlong`, `Tries` | one candidate: vouched for or not, by a link that can be cited or is longer than 1000 characters, fetched, where it led |
| `evidence`, `Keys`, `Conflict`, `Matches`, `Activity`, `Unclear`, `Conclude` | the records read, `_vacancy_keys`, `_conflicts`, `_match`, `_activity`, the verdict |

A URL is known by its site: an employer's host or a tenant of a supported board, which
is all `_delegation` compares. A page is the set of its `JobPosting` records and whether it has
the link to apply; a record is a title and employer that match or not (`job`), a URL, a
requisition id and the state of its expiry. Fetching is `PublicFetch` reduced to its
outcomes. `Raises`, the `except` of the loop, may
count a query, and only one the budget still had: the adapter counts before it asks.
An opportunity that is accepted may still have no card: `PublicJobIdentity` drops the name
of a job board from `company` ("unnamed"), and `_card_url` refuses some URLs that the
identity accepts ("unprintable"). `message` is what is appended when the message has a
match; whether there is such a message is in `Pipeline`. The company brief, the citations
and the text of cards are left out. `offered` and `outcome` are history variables.

### RuntimeRotate

The tools of the operator: `runtime_install.main`, `runtime_backup.rotate` and
`runtime_clean.clean` on three places of the disk.

| Model | Code |
| --- | --- |
| `target`, `previous`, `staged` | `--target`, its sibling `.previous`, and the staged tree, each the set of its files or `Absent` |
| `Build`, `Restore` | the operator builds a tree, or copies a whole backup back (external) |
| `InstallStaged`, `InstallPackage`, `PipInstalls`, `PipFails` | `--staged`, or a private directory filled by pip |
| `Refuse`, `FirstInstall`, `Identical`, `KeepPrevious`, `Supersede` | `_validate` and the decision of `rotate` |
| `DropTarget`, `DropPrevious`, `SetAside`, `Rename` | `_discard` and the renames |
| `MakeDirectory`, `CopyFile`, `Unstage` | `shutil.move` to another file system (`elsewhere`) |
| `Cleanup`, `Clean`, `CleanBackup` | the end of the install; `runtime_clean` |
| `MoveFails`, `Killed` | an `OSError`, or the death of the tool, at any file operation |

A digest tells two trees apart exactly when their files differ. `MaxRuns` and
`MaxFaults` bound the installs and the failures of a behaviour. `found`, `wanted` and
`installed` are history variables. Two tools at once, which no lock keeps apart, are
not modelled.

### Deviations

Definitions commented "Deviation:" are plausible bugs of the operator they stand
before. No specification uses them; each one, put in the place of its operator,
makes the run that checks the corresponding property fail (`"mutants"` in
`PROJECT.json`).

## 4. The runs

| Run | Instance | Result |
| --- | --- | --- |
| `seen_cache` | 2 runs, 2 offers, 2 imports each, 3 hours, window of 2; failing writes, lost responses, crashes | passes |
| `seen_cache_degraded` | as above plus failing locks and reads, one resetting run, one anonymous offer, profiles, windows of 0 and 2 | passes |
| `breaker` | 2 slots, threshold 2, cooldowns 2 and 3, every fault | passes |
| `journal` | 2 launchers, 2 attempts, every fault; one sets the path and hands off, the other neither | passes |
| `journal_unreadable` | only reads may fail | violates `PreviousLinesKept` |
| `scoring` | 2 commands and an automation on one job, contents x, y and blank, 2 attempts, every fault | passes |
| `shortlist` | up to 4 of 5 answers, 3 thresholds; 768 answers at the edges of all comparisons | passes |
| `pipeline` | 5 offers, 3 jobs, 2 profiles, limit 2, 2 sets of switches, 2 failures per run | passes |
| `public_fetch` | 3 URLs, one of them numeric, 2 slots, 4 attempts, 2 redirects, responses of 3 blocks, 5 in all | passes |
| `collection` | 4 probes with limits of 1, 2, 1 and 1 ticks; 4 adapters, one profile with 2 locations, hence 6 searches; 2 boards, 2 rows wanted, 2 attempts, responses of at most 2 rows | passes |
| `intelligence` | shortlists of 1 to 4 opportunities, 3 of them enriched; 5 URLs on 3 sites, responses of up to 3, 4 candidates and 2 queries in all, 3 kinds of records | passes |
| `rotation` | 3 builds of 2 files, 4 installs, 1 failure or crash, any number of restores and clean-ups | passes |

What the passing runs show:

* **`seen_cache`**. `TransactionIsolated`: the flock excludes, and until it marks, a
  run's entries are the file's. `NoFreshImport`: no POST for an offer the file
  holds fresh. `MarksPersist`: no whole-file rewrite drops or ages an entry.
  `StoredIsMarked`: every stored offer is in the file, or about to be marked, or a
  fault is to blame for exactly that offer. `SerialLedger`: the refinement.
  `EveryRunEnds`: nobody waits for ever for the lock.
* **`seen_cache_degraded`**. `SeenWasStored`: whatever fails, nothing is suppressed
  that the backend does not have.
* **`breaker`**. `GateIsExact`: without overlap and faults the gate is the documented
  one, computed from the history of outcomes alone. `OutageAlertsSpaced`: the
  alerts of one outage keep the alert cooldown. `ProbesForever` and
  `OutageIsAnnounced` hold with overlap and faults.
* **`journal`**. `AppendOnly`, `RecordedBeforeHandoff` and `OutcomesComplete` as long as no lock and no read has failed;
  `NoFalseAcknowledgement` and `EveryLauncherEnds` always.
* **`scoring`**. `AsksForNews`: a command asks the provider only if the job's notes
  say nothing about that content, or started to after its GET. `ScoredIsReadBack`: the
  automation's shortlist is made from the score of the content that was scored, also
  when a first attempt had stored a score of an older content. `Converges`: a stale
  score stored by an overlapping scorer is not the last word.
* **`shortlist`**. `BestFirst`: filter, stable sort and cut amount to "each eligible
  candidate is at the place that the number of better ones says".
  `VerdictSurvivesNote`: defaults, serialisation and the second evaluation on reading
  neither rescue nor lose a job. `FailsClosed`: no lost field makes a job eligible
  that its answer did not recommend; a lost `recommendation` is not missed (section 6), so
  that such a note is as good as its other fields with an APPLY, and no better.
* **`pipeline`**. `EveryOfferAccountedFor`: whatever fails, each offer of a search was
  cached, reported, scored or beyond the limit. `AnnouncedWasScored`: an old note
  never wins. `VerdictIsTrue`: the breaker learns what happened. `OperatorKnows`: so does
  the operator, the best match and how many failures there were, with the first of them in
  order, all of them if they are no more than `MaxItems`. `ProvenanceExact`: a job carries exactly the profiles that found it.
* **`public_fetch`**. `SlotsExact`: a timeout, a failed thread and a late answer neither
  leak a slot nor release it twice. `EachHopAnew`: no connection, after however many
  redirects, uses an address that was not looked up for its own URL. `CompleteOrNothing`:
  a truncated page is a failure. `FetchEnds`: every fetch returns. That no order of
  reads over several fetches exceeds the budgets is part of `TypeOK`, which is proved.
* **`collection`**. `VerdictOnEvidence`: nobody is reported down for the time that
  others took, a late answer changes nothing, and a run goes ahead only if each
  service it needs has answered. `SearchIsExact`: `results_wanted` over all boards, rows
  that are dropped, and empty answers neither lose, repeat nor reorder a job.
  `EveryRunEnds`: whatever hangs or fails, each source is asked and the process ends.
* **`intelligence`**. `VerdictHasAuthority`: "verified" and "closed" need a record on a
  page the employer vouches for, also after redirects, undisputed by every other record
  read, the only match, and no vouched page unread but those whose link is too long to be
  cited. `LeadsOnce`: the leads of one opportunity are never offered to another, and the
  budgets hold with failures. `EveryOpportunityAnswered`: each gets its result, in order;
  the envelope has one truthful card of each that can be shown, and the message has the
  same cards, or none at all if an accepted one cannot be shown.
* **`rotation`**. `ActiveSurvives`: at every moment the install a rotation found is whole
  as the active one or as the backup. `SuccessIsComplete`: exit code 0 is true.
  `WholeBuildSurvives`: from the first success on, one failure never leaves only
  partial trees, until the operator removes the backup.

Why the bounds are enough. Two processes show every interleaving of a pair, and
the shared state is one file and one lock, so a third process adds no new kind of
conflict; the proofs below cover any number. Two offers are needed for a rewrite
to drop *another* entry, two iterations for a run to meet its own mark, three
clock values for a window of two hours to be entered, left and re-entered. For
the breaker, threshold 2 distinguishes "one failure" from "open", cooldowns 2 and
3 distinguish the two windows and each side of both boundaries. Two POST attempts
show first, retried and last. Scorers treat jobs one after the other and no step
relates two jobs, so one job shows every conflict; two contents besides a blank one
are what a job changing between a read and a write takes. Four candidates are what
the cut at three takes, with scores on, below and above a threshold and two that are
equal; fits and coverages are 49, 50, 70 and absent, each side of every constant of
`classify_score`. In the pipeline two profiles can find the same offer, two offers (one
without identity) are one job to the backend, a third is answered without id, three jobs exceed the
limit of two, and with two failures one can hide another, or be the one that the summary
with `MaxItems = 1` leaves out. In `public_fetch` the
slots and the redirects are the code's own numbers; four attempts instead of twelve run
out within two fetches; five blocks in all against three per response make either
budget the one that ends a response; three URLs allow redirects to a new URL, back to an old one, and one too many.
In `collection` limits of one and two ticks let a probe end before, at and after its
limit while others wait; two rows of two boards against two wanted reach the limit
within a board, at its end and never; two attempts are a retry and the giving up; two
locations make the requests of the two kinds of adapters differ in number. In
`intelligence` an employer's page, two listings of one tenant and an unrelated site give
each way to be vouched for or not; four candidates run out in the second search; an open, an
expired and a foreign record conflict, match twice or not at all; the shortlists have each
kind of opportunity before and after others. In `rotation`
three builds make target, backup and staged tree differ, two files make a tree partial,
and four installs let a failure be followed by more of them than it takes to use the
backup up.

`CHECK_DEADLOCK` is on everywhere: the models state the end of all processes as an
explicit stuttering action (`AllDone`, `AllEnded`, `Ended`), so anything else that stops is
an error.

Fairness:

* `SeenCache`, `RunJournal`: weak fairness of each process's `Step`. A live process
  keeps executing, every HTTP call has a client timeout, and `flock` is granted
  when the lock stays free; the number of lock acquisitions of the others is
  finite. Crashes are never required.
* `CircuitBreaker`: weak fairness of time, of the scheduler (`Begin`) and of a
  run's progress; strong fairness of `Attempt` and `BlockAndStamp`, which says that
  neither a crash nor a failing disk hits every single run at that very point.
  Nothing is assumed about runs succeeding.
* `Scoring`: weak fairness of the command's `Step`, since it is scheduled again and
  again; strong fairness of `Choose`, `GetJob` and `AddNote` of each listed job, that
  is, no failure hits a job at the same point of every attempt. `Listed` is what
  `list_jobs()[:limit]` returns: the code promises nothing about jobs beyond the
  limit, and a job whose every provider call fails has no score.
* `PublicFetch`: weak fairness of the fetch's own `Step`: each of its waits, for an
  answer, a connection or a block, has a timeout. Nothing is assumed of lookups, of
  peers or of the deadline; the bytes a trickling peer sends are bounded by the budget.
* `Collection`: weak fairness of the launcher's own steps, and of the start and the end
  of each probe, since every probe has a time limit of its own, in `httpx` or
  `subprocess`, beside that of the wait. How it ends is left open.
* `OpportunityIntelligence`: weak fairness of the one thread: each request has a timeout.
* `RuntimeRotate` states no liveness: an operator may stop at any time.

## 5. The proofs

The eight `*Proofs.tla` modules prove, with `tlapm`, for all values of the constants
that satisfy the assumptions the modules name (`ConstantsOK`, `BreakerConfigOK`,
`JournalConfigOK`, `ScoringConfigOK`, `ShortlistConfigOK`, `PipelineConfigOK`,
`FetchConfigOK`, `PreflightConfigOK`, `SourcesConfigOK`, `IntelligenceConfigOK`,
`RotateConfigOK`). Every safety property of the passing runs is the statement of one of
the theorems. `PipelineProofs` is about `Pipeline` and `Shortlist`, `CollectionProofs`
about the gate and the first stages (`CircuitBreaker` and `Collection`),
`PublicResearchProofs` about `PublicFetch` and `OpportunityIntelligence`, and
`OrderingProofs` has the lemmas on sequences and orders that these three cite.

* `TypeCorrect` for cache, breaker, journal, scorers, pipeline, fetcher and rotation, and
  `ShortlistTypeCorrect`, `CollectionTypeCorrect` and `IntelligenceTypeCorrect` for the
  others; budgets are ranges in them. In the journal it needs `AttemptsLeft` and
  `Unsent`: a handoff in progress has an attempt left; in the scorers `Engaged`: a busy
  scorer has a job, and one of its attempts; in the pipeline (`Typed`) that an offer
  without an id never wins, so that a duplicate always has a job; in the collection
  (`StagesTyped`) that a wait ends with the last check and that no more boards answer than
  there are.
* `TransactionsIsolated`, `NoFreshImports`, `MarksPersistent` and `RunsAreSerial`,
  under `Isolating`: locks and reads do not fail and no run resets the cache. That
  hypothesis is necessary: section 6 shows how a reset is undone. The argument
  is one inductive invariant, `IsolationInv`: `TransactionIsolated`, plus what
  makes it inductive and useful: the offer a run is importing was found expired in
  the entries it loaded under the lock, which still are the file's. `FreshWindow`
  turns the code's `max` formula into the plain `2 * hours_old` window of
  `OfferLedger`; `LocalStep` and `CachedFrame` dispose of the steps that touch
  neither the file nor the lock. `LedgerInit` and `LedgerStep` map the initial
  states and every step to `OfferLedger`.
* `StoredAreMarked`, under `Isolating`, from `MarkInv`: besides `IsolationInv`, no offer
  was stored later than the clock says (`AcceptedPast`), so that the stamp of the mark is
  as late. A run's mark writes the file's own entries back, which is why another offer's
  mark survives it.
* `SeenWereStored`, whatever fails and whoever resets, from `SeenInv`: a run about to mark
  has had its offer stored (`MarkingStored`). No lock is needed: stale entries that are
  written back are stale, but true.
* `GateExactness` and `AlertSpacing`, from `TruthfulInv`: while undisturbed, at most one
  run is active, its state is the file, the file's counter is the streak of
  failures, an open breaker's stamp is the age of the last failure, and within an
  outage the alert stamp is the age of the last alert. The gate properties mention
  only history, so they are not inductive without this link.
* `AppendsOnly`, from `LockedInv`: while no lock and no read has failed, whoever is
  between reading and unlocking is the holder, and what it has read still is the
  journal; so the whole-file replacement is an append.
* `RecordsFirst` and `CompleteOutcomes`, from `KeptInv`, which says for each stage of
  a launcher which of its lines the journal must already hold. It rests on
  `LockedInv`, because another launcher's replacement keeps every line.
* `NoFalseAcknowledgements`, from `AcknowledgedInv`: an acceptance is genuine in the
  launcher's memory, in the journal and in every copy of it that an append has read.
  This one assumes nothing about locks, reads, writes or crashes.
* `NoRedundantScores`, for any number of scorers, jobs and faults: `AsksForNews` is
  inductive once types are known, because whoever stores a note under another
  scorer's eyes makes that scorer `noted` (`NewsUnderStore`).
* `ReadsItsOwnScores`, from `Once`: a job an automation is still to treat, or is
  treating, is not among those it has scored. Without it a later attempt could
  replace the score of an entry of its own. `SoundUnderStore` and `SoundElsewhere`
  deal with the steps of the others.
* `VerdictsSurvive` and `StaysClosed`, from lemmas about one answer: `RoundTrip` (what
  is eligible when read is what was recommended when written), `DamageHelpsNobody` for the
  losses that the reader notices, and `RestIsJudged` for that of the recommendation, which it
  does not; and `ClassMonotone`, for all integers. They need no invariant but the type of the
  threshold.
* `BestComeFirst`, for any list of notes, from `RankInv`: candidates are numbered as they
  were read, and the shortlist is `BuildShortlist` of them. `StableOrder` says that `Ahead`
  is a strict total order, `Ordered` (of `OrderingProofs`) that `InOrder` then puts each
  member at the place which the number of those before it says, and `BetterAreAhead` counts
  `Better` by the indices ahead.
* `VerdictsAreTrue`, from `Counted`: while a run is on its way the breaker has been told
  nothing and there is one label for each failure. `InnerStep` states it once for
  all steps that neither start nor end a run.
* `OperatorLearns`, from `MessageInv`: once notified, either the notifier's failure is
  kept or the message is the one composed of the final labels and shortlist; `Counted` makes
  their number that of the failures.
* `NoOfferLost`, from `AccountInv`: each hit is handled or still in the rest of the
  current result, later each imported id is settled or still to be scored; what is in
  the cache or in `winners` is known (`Known`), which is what the two skips rely on.
* `ProvenanceIsExact`, from `ProvenanceInv`: a pair of job and profile has a hit behind it,
  and each hit that has been dealt with is `Credited`. That a cached offer may go without
  credit needs the other half: an imported job has the offer that won it, so an offer
  cached in this run is in `winners`, where its profile is added.
* `OnlyScoredAnnounced`, from `AnnounceInv`: a job is scored once and read once, so one
  that failed is not among the candidates any more, and none that is there can still fail.
* `SlotsConserved`, from `SlotInv`: the sum, and that a running lookup of the fetcher's
  own is one it waits for, so that giving up and the answer never both count a slot.
* `PagesComplete`, from `PageInv`: a fetch has no status before it returns, and a body
  taken for whole has its declared length.
* `HopsAnew`, from `HopInv`: what was asked is in `seen`, a URL past the loop check was
  not asked yet, and the last lookup was for it.
* For the fetcher `TypeCorrect` rests on `BudgetInv`: an attempt is left wherever a
  connection may follow, and a body never outgrows its wire bytes.
* `VerdictsHaveEvidence`, for any limits, from `ProbeInv`: the time waited for the check in
  hand is at most the time its probe has run. This is where the size of the pool counts: no
  tick passes while a submitted probe has no thread (`NoneWaitsForAThread`), so a wait never
  outlasts a probe that had not begun.
* `SearchesAreExact`, for any adapters, profiles, boards, pages and `results_wanted`, from
  `ExactRows`: the rows so far are all the good ones of the pages read, in order, or an ATS
  search has exactly as many as it wants and what it lacks comes later. `PageRead` carries it
  over one more page, through what `Kept` drops and `Capped` cuts off.
* `EndsAllOrNone`, the safety half of the collection's `EveryRunEnds`, from `PathInv`: the
  searches with a result are those before the current one, and there is none before the
  verdict.
* `FetchesAreBounded`, the half of `FetchEnds` that needs no fairness: `StepsLeft` counts
  the places left in the hop, the redirects and the bytes; every step of a fetch lowers it
  and no lookup, no deadline and no other fetch raises it.
* `LeadsAreOffered`, from `LeadInv`: all leads offered so far are in the memory of the search
  adapter, and what it counts is at least what was offered.
* `VerdictsHaveAuthority`, for any shortlist, leads, links, redirects and pages, from
  `EvidenceInv`: each record kept comes from a page that the employer vouches for, and unless
  the search is marked partial no vouched lead that is tried (`Tries`) went unread.
  `VerdictIsBacked` derives the
  verdict's authority from that at the moment it is given, and `AuthorityStep` keeps it until
  the next one.
* `EndsWithAnswers`, the safety half of `EveryOpportunityAnswered`, and `LimitNeverReached`,
  from `AnswerInv`: every opportunity passed is answered, the inputs of the cards are the
  answers of those accepted and nothing else, and `resolve` has counted at most the
  opportunities passed and the one in hand. `AnswerGiven` carries it over whatever gives an
  answer. `WholeOrNone` and `PublishesAnswers` turn it into the cards (`CardsInv`).
* `ActiveInstallSurvives` and `SuccessIsTrue`, for any trees, installs, failures and
  crashes, from one inductive invariant: `AtWork` says which places hold a tree at each
  step; `Kept` says which of the two holds the install that was found, so that only the
  other one is ever dropped; `Progress` follows the staged tree to the active place, so that
  a status of success belongs to a rotation that has made its last move.
* `SomeBuildSurvives`, if at most one tool fails or is killed (`MaxFaults <= 1`; section 6
  says what two can do), from `WholeInv`: before the fault no place holds a partial tree but
  the one that is being filled (`Undamaged`); after it, one of the places holds a whole build
  at rest (`AtRest`) and at every step of a later rotation (`Underway`).

Model-checked only: the liveness properties (`EveryRunEnds` of the cache and of
`collection`, `ProbesForever`, `OutageIsAnnounced`, `EveryLauncherEnds`, `Converges`,
`FetchEnds`, `EveryOpportunityAnswered`). They rest on fairness, whose enabling conditions
these provers cannot expand. What two of them say of the end, and what bounds a fetch, is
proved (`EndsAllOrNone`, `EndsWithAnswers`, `FetchesAreBounded`).

## 6. Disagreements between code and documentation

* *History lost on a read error* (`journal_unreadable`, violated `PreviousLinesKept`). The
  append treats an unreadable journal as an empty one and replaces it.

Seen while modelling, and not stated as runs:

* `--reset-seen-cache` "clears the cache ... so every offer is re-imported", but the
  reset is written outside the transaction lock. A run that loaded before the reset
  writes the old entries back with its next mark; the resetting run reloads them and
  skips the offers.
* With `JOBTRAIL_RUN_JOURNAL_PATH` set, the pipeline and the launcher journal the same
  run, and a reader counts it twice.
* "Retries are also skipped for operations that could produce duplicate side effects
  (`POST /api/jobs/.../notes`)": the POST itself is not retried, but the command around it
  is, with `--force`, so a lost response leads to a second note.
* The alert cooldown holds within one outage only, since a successful probe clears the
  stamp (documented, and the reason why `OutageAlertsSpaced` says "of one outage").
* `_save` errors leave `run()` although `try_alert`'s docstring says it never raises on
  storage failure (modelled as `SaveFails` and `RunRaises`); overlapping runs overwrite
  each other's breaker outcomes.
* `send` lets exceptions other than timeouts and transport errors out (modelled as
  `SendRaises`), so a handoff may leave no delivery line.
* docs/runtime-automation.md:1189-1191 says of a second run with the same cache that "no
  WhatsApp message is captured", while with notifications enabled
  `_compose_notification` sends its "no matches" summary, which
  tests/test_automation_e2e.py:402-403 expects.
* A comment in `build_n8n_envelope` (automation.py:657) calls its `except` the "same drop/deny
  boundary as public notification presentation". The envelope drops just the opportunity
  whose card cannot be made; the message loses the cards of all of them, for one accepted
  job whose company is the name of a job board, or whose URL no card may show.
* shortlist.py says of its eligibility that it is fail-closed, but `eligible_score` looks at
  `recommendation` only if the note has it (scoring.py:322): a note with SKIP that lost the
  field is judged by its classification and lists alone.
* A candidate that the careers page vouches for with a link of more than 1000 characters is
  passed over without marking the search partial (opportunity_intelligence.py:526), so a
  vacancy may be called verified or closed while that page is unread.
* Two failures of a rotation in a row can lose every whole build: a tree half copied
  across file systems is the active install of the next rotation, which discards the
  good `.previous` for it.

## 7. Not modelled

* The wording and layout of prompts, notes, notifications, cards and logs, field
  mappings of job boards, the text of the n8n envelope and its feedback actions, file
  modes, and the bytes of the JSON files: no property here tells them apart.
* Prompt budgets and matching strategies: pure functions on text.
* Providers: one call to a subprocess or an API; their outcomes are inputs of `Scoring`.
* The dry run, metrics and backend discovery: a plan, a report and a choice between two
  URLs, with no state, no concurrency and nothing to recover.
* The purge script, one removal behind a confirmation, and the shell and container
  wrappers.
* A backward clock jump, and two of the operator's tools running at once.
