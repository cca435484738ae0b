------------------------------ MODULE Preflight ------------------------------
(****************************************************************************)
(* preflight.run_preflight: every probe is submitted to a pool of threads,  *)
(* then the results are awaited one after the other, each for its own time  *)
(* limit.  A thread cannot be cancelled: a probe that is not waited for any *)
(* longer goes on, and its answer, if one comes, is not read.               *)
(*                                                                          *)
(* Time is in ticks and passes only while run_preflight waits for a probe   *)
(* and no thread of the pool is free to start another.                      *)
(****************************************************************************)
EXTENDS Naturals, Sequences, FiniteSets

CONSTANTS
    NotifyEnabled,  \* a notification command is configured
    ShortLimit,     \* the time limits of the probes, in ticks: of a health
    SearchLimit,    \* check or of `hermes --help`, of a search, and of the
    AccessLimit     \* access() on the notification command

ASSUME PreflightConfigOK ==
    /\ NotifyEnabled \in BOOLEAN
    /\ {ShortLimit, SearchLimit, AccessLimit} \subseteq Nat \ {0}

\* default_preflight_checks: the order is that of the waits.
Checks ==
    <<"jobtrail_api", "jobspy_search", "hermes_provider">>
        \o (IF NotifyEnabled THEN <<"whatsapp">> ELSE <<>>)

Names == {Checks[i] : i \in DOMAIN Checks}

Limit(c) ==
    CASE c = "jobspy_search" -> SearchLimit
      [] c = "whatsapp" -> AccessLimit
      [] OTHER -> ShortLimit

Required(c) == c # "whatsapp"

\* How a probe can end: a normal return, an HTTP 4xx, anything else it raises.
Answers == {"ok", "rejected", "outage"}

\* A process and access() have no 4xx.
AnswersOf(c) ==
    IF c \in {"jobtrail_api", "jobspy_search"}
    THEN Answers ELSE Answers \ {"rejected"}

\* _classify_exception
Status(answer) ==
    CASE answer = "ok" -> "healthy"
      [] answer = "rejected" -> "degraded"
      [] OTHER -> "unavailable"

VARIABLES
    probe,    \* what the thread of each check does, or how it ended
    next,     \* the check that is awaited
    waited,   \* ticks of this wait
    report,   \* the statuses that have been collected
    verdict,  \* what run() makes of the report
    \* History, read by the property only.
    ran       \* ticks each probe has run, up to its limit

preflight == <<probe, next, waited, ran, report, verdict>>

Running(c) == probe[c] \in {"running", "again"}
Answered(c) == probe[c] \in Answers

PreflightTypeOK ==
    /\ probe \in [Names -> Answers \cup {"queued", "running", "again"}]
    /\ next \in 1..Len(Checks) + 1
    /\ waited \in 0..ShortLimit + SearchLimit + AccessLimit
    /\ ran \in [Names -> Nat]
    /\ report \in [Names -> {"none", "healthy", "degraded", "unavailable"}]
    /\ verdict \in {"none", "abort", "pass"}

PreflightInit ==
    /\ probe = [c \in Names |-> "queued"]
    /\ next = 1
    /\ waited = 0
    /\ ran = [c \in Names |-> 0]
    /\ report = [c \in Names |-> "none"]
    /\ verdict = "none"

-----------------------------------------------------------------------------
(* The threads. *)

\* Deviation: one thread runs the probes one after the other.
OneWorker == 1

\* _create_default_executor: a thread for each check.
MaxWorkers == IF Len(Checks) = 0 THEN 1 ELSE Len(Checks)

\* The queue of the pool is first in, first out.
CanStart(i) ==
    /\ probe[Checks[i]] = "queued"
    /\ \A j \in 1..i-1 : probe[Checks[j]] # "queued"
    /\ Cardinality({c \in Names : Running(c)}) < MaxWorkers

StartProbe(i) ==
    /\ CanStart(i)
    /\ probe' = [probe EXCEPT ![Checks[i]] = "running"]
    /\ UNCHANGED <<next, waited, ran, report, verdict>>

\* A 404 to GET /api/health: the same probe asks again with HEAD.
AskAgain ==
    /\ probe["jobtrail_api"] = "running"
    /\ probe' = [probe EXCEPT !["jobtrail_api"] = "again"]
    /\ UNCHANGED <<next, waited, ran, report, verdict>>

ProbeEnds(c) ==
    /\ Running(c)
    /\ \E answer \in AnswersOf(c) : probe' = [probe EXCEPT ![c] = answer]
    /\ UNCHANGED <<next, waited, ran, report, verdict>>

-----------------------------------------------------------------------------
(* run_preflight *)

Waiting == verdict = "none" /\ next <= Len(Checks)

Collects(status) ==
    /\ report' = [report EXCEPT ![Checks[next]] = status]
    /\ next' = next + 1
    /\ waited' = 0
    /\ UNCHANGED <<probe, ran, verdict>>

Collect ==
    /\ Waiting
    /\ Answered(Checks[next])
    /\ Collects(Status(probe[Checks[next]]))

TimesOut ==
    /\ Waiting
    /\ ~Answered(Checks[next])
    /\ waited = Limit(Checks[next])
    /\ Collects("unavailable")

WaitOn ==
    /\ Waiting
    /\ ~Answered(Checks[next])
    /\ waited < Limit(Checks[next])
    /\ \A i \in DOMAIN Checks : ~CanStart(i)
    /\ waited' = waited + 1
    /\ ran' = [c \in Names |->
                  IF Running(c) /\ ran[c] < Limit(c) THEN ran[c] + 1
                  ELSE ran[c]]
    /\ UNCHANGED <<probe, next, report, verdict>>

\* PreflightReport.should_abort
ShouldAbort == \E c \in Names : Required(c) /\ report[c] = "unavailable"

\* The pool is shut down without waiting for its threads.
Conclude ==
    /\ verdict = "none"
    /\ next > Len(Checks)
    /\ verdict' = IF ShouldAbort THEN "abort" ELSE "pass"
    /\ UNCHANGED <<probe, next, waited, ran, report>>

RunPreflight == Collect \/ TimesOut \/ WaitOn \/ Conclude

Threads ==
    \/ \E i \in DOMAIN Checks : StartProbe(i)
    \/ AskAgain
    \/ \E c \in Names : ProbeEnds(c)

-----------------------------------------------------------------------------
\* A service is reported down only when its probe has failed, or was left
\* without an answer for the whole of its own limit, counted from the moment
\* the probe was started, however long the others took; a run is given up for a
\* service it needs, and goes ahead only when each of those has answered,
\* whatever the optional one and the late answers say.
VerdictOnEvidence ==
    /\ \A c \in Names : report[c] = "unavailable" =>
           probe[c] = "outage" \/ ran[c] = Limit(c)
    /\ verdict = "abort" =>
           \E c \in Names : c # "whatsapp" /\ report[c] = "unavailable"
    /\ verdict = "pass" =>
           \A c \in Names : c = "whatsapp" \/ probe[c] \in {"ok", "rejected"}
=============================================================================
