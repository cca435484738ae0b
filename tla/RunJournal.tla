------------------------------ MODULE RunJournal ------------------------------
(****************************************************************************)
(* The end of a launcher process (automated-job-search.example.py): the     *)
(* pipeline's outcome is appended to the run journal (run_journal.py), then *)
(* offered to n8n (n8n_outbound.py), then the delivery's outcome is         *)
(* appended.  An append reads the whole file, and replaces it by what was   *)
(* read plus one line, under an advisory flock.                             *)
(*                                                                          *)
(* When JOBTRAIL_RUN_JOURNAL_PATH is set the pipeline itself also appends   *)
(* the run (JobTrailAutomation._journal_run), swallowing every exception.   *)
(* Each element of Runs is one launcher process; processes may overlap.     *)
(****************************************************************************)
EXTENDS Integers, Sequences

CONSTANTS
    Runs,        \* executions of the launcher
    PathSet,     \* runs whose environment sets JOBTRAIL_RUN_JOURNAL_PATH
    Handoffs,    \* runs with N8N_ENABLED and an endpoint
    MaxAttempts, \* N8N_RETRY_ATTEMPTS
    Faults,      \* "lock", "read", "write", "crash", "pipeline", "send"
    NoRun        \* the holder of a free lock

ASSUME JournalConfigOK ==
    /\ PathSet \subseteq Runs
    /\ Handoffs \subseteq Runs
    /\ MaxAttempts \in Nat \ {0}
    /\ Faults \subseteq {"lock", "read", "write", "crash", "pipeline", "send"}
    /\ NoRun \notin Runs

VARIABLES
    journal,   \* the lines of runs.jsonl
    holder,    \* the run that holds the flock on runs.jsonl.lock
    pc,        \* where each launcher is
    line,      \* the line being appended: run()'s own, the launcher's, delivery
    buf,       \* the content the append in progress has read
    attempts,  \* POSTs made to n8n
    outcome,   \* DeliveryResult: its classification, or its status
    \* History, read by the properties only.
    reached,   \* runs whose event n8n has stored
    disturbed  \* a lock could not be taken or the file could not be read

vars == <<journal, holder, pc, line, buf, attempts, outcome, reached, disturbed>>

-----------------------------------------------------------------------------

LineKinds == {"own", "run", "delivery"}
Outcomes == {"none", "accepted", "terminal", "exhausted", "uncertain",
             "disabled"}
Stages == {"pipeline", "locking", "reading", "replacing", "unlocking",
           "sending", "done", "stopped"}
Line == [run : Runs, kind : LineKinds, outcome : Outcomes]

TypeOK ==
    /\ journal \in Seq(Line)
    /\ holder \in Runs \cup {NoRun}
    /\ pc \in [Runs -> Stages]
    /\ line \in [Runs -> LineKinds]
    /\ buf \in [Runs -> Seq(Line)]
    /\ attempts \in [Runs -> 0 .. MaxAttempts]
    /\ outcome \in [Runs -> Outcomes]
    /\ reached \subseteq Runs
    /\ disturbed \in BOOLEAN

Init ==
    /\ journal = <<>>
    /\ holder = NoRun
    /\ pc = [r \in Runs |-> "pipeline"]
    /\ line = [r \in Runs |-> "own"]
    /\ buf = [r \in Runs |-> <<>>]
    /\ attempts = [r \in Runs |-> 0]
    /\ outcome = [r \in Runs |-> "none"]
    /\ reached = {}
    /\ disturbed = FALSE

-----------------------------------------------------------------------------

Goto(r, stage) == pc' = [pc EXCEPT ![r] = stage]

\* Deviation: the lock is kept when the append ends.
KeptLocked(r) == UNCHANGED holder

\* The flock is dropped, by LOCK_UN or by the end of the process.
Freed(r) == holder' = IF holder = r THEN NoRun ELSE holder

\* record_run or record_delivery is called.
Appends(r, kind) == Goto(r, "locking") /\ line' = [line EXCEPT ![r] = kind]

\* Deviation: the handoff comes before the launcher's record_run.
RunReturnsThenSends(r) ==
    /\ pc[r] = "pipeline"
    /\ Goto(r, "sending")
    /\ UNCHANGED <<journal, holder, line, buf, attempts, outcome, reached,
                   disturbed>>

\* The pipeline's outcome is known, and run() journals it if it has a path.
RunReturns(r) ==
    /\ pc[r] = "pipeline"
    /\ Appends(r, IF r \in PathSet THEN "own" ELSE "run")
    /\ UNCHANGED <<journal, holder, buf, attempts, outcome, reached, disturbed>>

\* run() raises: the launcher ends without journaling.
RunRaises(r) ==
    /\ "pipeline" \in Faults
    /\ pc[r] = "pipeline"
    /\ Goto(r, "stopped")
    /\ UNCHANGED <<journal, holder, line, buf, attempts, outcome, reached,
                   disturbed>>

-----------------------------------------------------------------------------
(* _append_jsonl_line under _maybe_lock.                                    *)

\* Deviation: the lock is shared.
LockShared(r) ==
    /\ pc[r] = "locking"
    /\ holder' = r
    /\ Goto(r, "reading")
    /\ UNCHANGED <<journal, line, buf, attempts, outcome, reached, disturbed>>

Lock(r) ==
    /\ pc[r] = "locking"
    /\ holder = NoRun
    /\ holder' = r
    /\ Goto(r, "reading")
    /\ UNCHANGED <<journal, line, buf, attempts, outcome, reached, disturbed>>

\* Opening or locking the lock file raised OSError: the append is unlocked.
LockFails(r) ==
    /\ "lock" \in Faults
    /\ pc[r] = "locking"
    /\ Goto(r, "reading")
    /\ disturbed' = TRUE
    /\ UNCHANGED <<journal, holder, line, buf, attempts, outcome, reached>>

Read(r) ==
    /\ pc[r] = "reading"
    /\ buf' = [buf EXCEPT ![r] = journal]
    /\ Goto(r, "replacing")
    /\ UNCHANGED <<journal, holder, line, attempts, outcome, reached, disturbed>>

\* read_text raised OSError: the existing content counts as empty.
ReadFails(r) ==
    /\ "read" \in Faults
    /\ pc[r] = "reading"
    /\ buf' = [buf EXCEPT ![r] = <<>>]
    /\ Goto(r, "replacing")
    /\ disturbed' = TRUE
    /\ UNCHANGED <<journal, holder, line, attempts, outcome, reached>>

\* os.replace installs what was read, plus the line.
Replace(r) ==
    /\ pc[r] = "replacing"
    /\ journal' = Append(buf[r], [run |-> r, kind |-> line[r],
                                  outcome |-> outcome[r]])
    /\ Goto(r, "unlocking")
    /\ UNCHANGED <<holder, line, buf, attempts, outcome, reached, disturbed>>

\* Writing or replacing raised.  _journal_run swallows that; the launcher does
\* not, and ends.
WriteFails(r) ==
    /\ "write" \in Faults
    /\ pc[r] = "replacing"
    /\ Freed(r)
    /\ \/ line[r] = "own" /\ Appends(r, "run")
       \/ line[r] # "own" /\ Goto(r, "stopped") /\ UNCHANGED line
    /\ UNCHANGED <<journal, buf, attempts, outcome, reached, disturbed>>

\* run() returns to the launcher, which appends the run; then comes the
\* handoff; after the delivery line the launcher ends.
Unlock(r) ==
    /\ pc[r] = "unlocking"
    /\ Freed(r)
    /\ \/ line[r] = "own" /\ Appends(r, "run")
       \/ line[r] = "run" /\ Goto(r, "sending") /\ UNCHANGED line
       \/ line[r] = "delivery" /\ Goto(r, "done") /\ UNCHANGED line
    /\ UNCHANGED <<journal, buf, attempts, outcome, reached, disturbed>>

-----------------------------------------------------------------------------
(* N8nOutboundAdapter.send.                                                 *)

\* send returns, and record_delivery is called.
Delivered(r, result) ==
    /\ outcome' = [outcome EXCEPT ![r] = result]
    /\ Appends(r, "delivery")
    /\ UNCHANGED <<journal, holder, buf, disturbed>>

\* Validation refused the envelope: nothing is sent.
EnvelopeRefused(r) ==
    /\ pc[r] = "sending"
    /\ attempts[r] = 0
    /\ Delivered(r, "terminal")
    /\ UNCHANGED <<attempts, reached>>

\* Deviation: a disabled handoff leaves no line.
DisabledUnrecorded(r) ==
    /\ pc[r] = "sending"
    /\ r \notin Handoffs
    /\ Goto(r, "done")
    /\ UNCHANGED <<journal, holder, line, buf, attempts, outcome, reached,
                   disturbed>>

\* No endpoint, or not enabled: nothing is sent.
Disabled(r) ==
    /\ pc[r] = "sending"
    /\ r \notin Handoffs
    /\ Delivered(r, "disabled")
    /\ UNCHANGED <<attempts, reached>>

Post(r) ==
    /\ pc[r] = "sending"
    /\ r \in Handoffs
    /\ attempts' = [attempts EXCEPT ![r] = @ + 1]

\* 2xx.
PostAccepted(r) ==
    /\ Post(r)
    /\ reached' = reached \cup {r}
    /\ Delivered(r, "accepted")

\* 4xx.
PostRejected(r) ==
    /\ Post(r)
    /\ Delivered(r, "terminal")
    /\ UNCHANGED reached

\* A 3xx, a 5xx, a timeout or a transport error says nothing about whether n8n
\* stored the event.
Unanswered(r) == reached' \in {reached, reached \cup {r}}

\* It is retried at once while attempts remain.
PostRetried(r) ==
    /\ Post(r)
    /\ attempts[r] + 1 < MaxAttempts
    /\ Unanswered(r)
    /\ UNCHANGED <<journal, holder, pc, line, buf, outcome, disturbed>>

\* Deviation: a timeout counts as an acceptance.
PostGivenUpAsAccepted(r) ==
    /\ Post(r)
    /\ attempts[r] + 1 = MaxAttempts
    /\ Unanswered(r)
    /\ Delivered(r, "accepted")

\* The last attempt decides: "exhausted" after a response, else "uncertain".
PostGivenUp(r) ==
    /\ Post(r)
    /\ attempts[r] + 1 = MaxAttempts
    /\ Unanswered(r)
    /\ \E result \in {"exhausted", "uncertain"} : Delivered(r, result)

\* An exception of another kind (httpx.InvalidURL, httpx.DecodingError) escapes
\* send and ends the launcher.
SendRaises(r) ==
    /\ "send" \in Faults
    /\ Post(r)
    /\ Unanswered(r)
    /\ Goto(r, "stopped")
    /\ UNCHANGED <<journal, holder, line, buf, outcome, disturbed>>

-----------------------------------------------------------------------------

\* The process dies; the kernel drops its flock.
Crash(r) ==
    /\ "crash" \in Faults
    /\ pc[r] \notin {"done", "stopped"}
    /\ Freed(r)
    /\ Goto(r, "stopped")
    /\ UNCHANGED <<journal, line, buf, attempts, outcome, reached, disturbed>>

\* Every launcher has ended.
AllEnded ==
    /\ \A r \in Runs : pc[r] \in {"done", "stopped"}
    /\ UNCHANGED vars

Appending(r) ==
    \/ Lock(r)
    \/ Read(r)
    \/ Replace(r)
    \/ Unlock(r)

Sending(r) ==
    \/ EnvelopeRefused(r)
    \/ Disabled(r)
    \/ PostAccepted(r)
    \/ PostRejected(r)
    \/ PostRetried(r)
    \/ PostGivenUp(r)

Step(r) == RunReturns(r) \/ Appending(r) \/ Sending(r)

Fault(r) ==
    \/ RunRaises(r)
    \/ LockFails(r)
    \/ ReadFails(r)
    \/ WriteFails(r)
    \/ SendRaises(r)
    \/ Crash(r)

Next ==
    \/ \E r \in Runs : Step(r) \/ Fault(r)
    \/ AllEnded

Spec == Init /\ [][Next]_vars

\* A live process keeps executing: every POST has a timeout and a blocked flock
\* is granted once the lock stays free.  No fault is ever required to happen.
FairSpec == Spec /\ \A r \in Runs : WF_vars(Step(r))

-----------------------------------------------------------------------------
(* Properties.                                                              *)

Recorded(r, kind) ==
    \E i \in 1 .. Len(journal) : journal[i].run = r /\ journal[i].kind = kind

\* "two overlapping runs cannot interleave" (run_journal.py:26): as long as
\* locks and reads work, a line once written stays, at its place.
AppendOnly ==
    [][~disturbed' =>
          \A i \in 1 .. Len(journal) :
              i <= Len(journal') /\ journal'[i] = journal[i]]_vars

\* n8n never hears of a run the journal does not hold: the launcher records the
\* local outcome first, and no overlapping launcher drops the record.
RecordedBeforeHandoff ==
    ~disturbed => \A r \in reached : Recorded(r, "run")

\* A launcher that ends normally leaves both lines, whatever the handoff's
\* outcome, "disabled" included, and whatever the other launchers did since.
OutcomesComplete ==
    ~disturbed =>
        \A r \in Runs :
            pc[r] = "done" => Recorded(r, "run") /\ Recorded(r, "delivery")

\* An acknowledgement in the journal was given by n8n, whatever fails.
NoFalseAcknowledgement ==
    \A i \in 1 .. Len(journal) :
        journal[i].outcome = "accepted" => journal[i].run \in reached

\* An append "either installs the new line alongside every previous line or
\* leaves the journal untouched" (run_journal.py:79-80).
PreviousLinesKept ==
    [][\A i \in 1 .. Len(journal) :
          i <= Len(journal') /\ journal'[i] = journal[i]]_vars

\* No launcher waits for ever.
EveryLauncherEnds == \A r \in Runs : <>(pc[r] \in {"done", "stopped"})
=============================================================================
