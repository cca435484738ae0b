------------------------------- MODULE Scoring -------------------------------
(****************************************************************************)
(* Scorer processes on the jobs of one JobTrail backend: scoring.score_jobs *)
(* as run by `jobtrail-ai-scorer score` over the listed jobs, and as run by *)
(* the automation, which starts one `score --job-id ID --force` per         *)
(* imported job, starts it again when it fails (retry.retry_call), and      *)
(* reads the notes back.  Nothing locks a job: processes overlap, and jobs  *)
(* are edited in JobTrail meanwhile.                                        *)
(*                                                                          *)
(* A job's content is represented by its digest (job_fingerprint), the only *)
(* thing any comparison looks at; Blank digests are those without a         *)
(* description.  Its notes only grow, and are represented by the three      *)
(* questions the code asks about them.  The marker is the default one.      *)
(* Each scorer is a slot that is used again and again.                      *)
(****************************************************************************)
EXTENDS Integers

CONSTANTS
    Jobs,
    Listed,      \* list_jobs()[:limit]
    Scorers,
    Automation,  \* scorers that are automation runs; the others are unforced
    Digests,
    Blank,
    MaxAttempts, \* RetryPolicy.max_attempts
    Faults,      \* "lost", "fails", "missing", "killed", "edit"
    NoJob

ASSUME ScoringConfigOK ==
    /\ Listed \subseteq Jobs
    /\ Automation \subseteq Scorers
    /\ Blank \subseteq Digests
    /\ Digests \cap {"none", "old", "opaque"} = {}
    /\ MaxAttempts \in Nat \ {0}
    /\ Faults \subseteq {"lost", "fails", "missing", "killed", "edit"}
    /\ NoJob \notin Jobs

VARIABLES
    content,  \* the digest of each job
    notes,    \* what each job's notes answer
    pc,
    todo,     \* the jobs left to a scorer
    job,      \* the job a scorer is at
    got,      \* the digest of what its GET returned
    tries,    \* attempts of the current retry_call
    scored,   \* scored_ids, with the digest each was scored on
    \* History, read by the properties only.
    noted,    \* <<s, j>>: another scorer has noted j since s last read it
    stored    \* notes the current retry_call has stored: one an attempt at most

vars == <<content, notes, pc, todo, job, got, tries, scored, noted, stored>>

-----------------------------------------------------------------------------

\* "opaque": that note has no readable fingerprint.  "old": a score from before
\* fingerprints.
Marks == {"none", "opaque"} \cup Digests
Scores == {"none", "old"} \cup Digests
Notes == [legacy : BOOLEAN, \* some note carries LEGACY_MARKER
          last : Marks,     \* the fingerprint in the newest CURRENT_MARKER note
          valid : Scores]   \* what the newest readable score was made from

\* Notes from before fingerprints existed.
Earlier == [legacy : BOOLEAN, last : {"none", "opaque"}, valid : {"none", "old"}]

Stages == {"idle", "choosing", "reading", "asking", "reading back"}

TypeOK ==
    /\ content \in [Jobs -> Digests]
    /\ notes \in [Jobs -> Notes]
    /\ pc \in [Scorers -> Stages]
    /\ todo \in [Scorers -> SUBSET Jobs]
    /\ job \in [Scorers -> Jobs \cup {NoJob}]
    /\ got \in [Scorers -> Digests \cup {"none"}]
    /\ tries \in [Scorers -> 0 .. MaxAttempts]
    /\ scored \in [Scorers -> SUBSET (Jobs \X Digests)]
    /\ noted \subseteq Scorers \X Jobs
    /\ stored \in [Scorers -> 0 .. MaxAttempts]

Init ==
    /\ content \in [Jobs -> Digests]
    /\ notes \in [Jobs -> Earlier]
    /\ pc = [s \in Scorers |-> "idle"]
    /\ todo = [s \in Scorers |-> {}]
    /\ job = [s \in Scorers |-> NoJob]
    /\ got = [s \in Scorers |-> "none"]
    /\ tries = [s \in Scorers |-> 0]
    /\ scored = [s \in Scorers |-> {}]
    /\ noted = {}
    /\ stored = [s \in Scorers |-> 0]

-----------------------------------------------------------------------------
(* Notes.                                                                   *)

\* Deviation: a legacy mark does not count.
MarkedCurrent(n, d) == n.last \in {"opaque", d}

\* Deviation: any mark counts, whatever it was made from.
MarkedAtAll(n, d) == n.legacy \/ n.last # "none"

\* _contains_score_marker: a legacy note or a note without a fingerprint counts
\* for every content, else the newest fingerprint must be the content's.
Marked(n, d) == n.legacy \/ n.last \in {"opaque", d}

\* Deviation: parse_score_note returns the oldest valid score.
NotedFirst(n, d) ==
    [n EXCEPT !.last = d, !.valid = IF @ = "none" THEN d ELSE @]

\* The notes n after a score of content d was added.
Noted(n, d) == [n EXCEPT !.last = d, !.valid = d]

-----------------------------------------------------------------------------

Goto(s, stage) == pc' = [pc EXCEPT ![s] = stage]

\* A user edits a job.
Edit(j) ==
    /\ "edit" \in Faults
    /\ \E d \in Digests \ {content[j]} : content' = [content EXCEPT ![j] = d]
    /\ UNCHANGED <<notes, pc, todo, job, got, tries, scored, noted, stored>>

\* `score` lists the jobs; those without a description are skipped at once.
ListJobs(s) ==
    /\ pc[s] = "idle"
    /\ s \notin Automation
    /\ todo' = [todo EXCEPT ![s] = {j \in Listed : content[j] \notin Blank}]
    /\ Goto(s, "choosing")
    /\ UNCHANGED <<content, notes, job, got, tries, scored, noted, stored>>

\* The automation has imported some jobs, existing ones possibly among them.
Imported(s) ==
    /\ pc[s] = "idle"
    /\ s \in Automation
    /\ \E ids \in SUBSET Jobs \ {{}} : todo' = [todo EXCEPT ![s] = ids]
    /\ Goto(s, "choosing")
    /\ UNCHANGED <<content, notes, job, got, tries, scored, noted, stored>>

\* The next candidate; the automation starts a retry_call.
Choose(s) ==
    /\ pc[s] = "choosing"
    /\ \E j \in todo[s] :
          /\ todo' = [todo EXCEPT ![s] = @ \ {j}]
          /\ job' = [job EXCEPT ![s] = j]
    /\ tries' = [tries EXCEPT ![s] = 1]
    /\ stored' = [stored EXCEPT ![s] = 0]
    /\ Goto(s, "reading")
    /\ UNCHANGED <<content, notes, got, scored, noted>>

\* s is done with its job for good.
Leave(s) ==
    /\ Goto(s, "choosing")
    /\ job' = [job EXCEPT ![s] = NoJob]
    /\ got' = [got EXCEPT ![s] = "none"]
    /\ tries' = [tries EXCEPT ![s] = 0]

\* The command ended without a failed job: the automation counts it as scored.
Succeeded(s, d) ==
    /\ Leave(s)
    /\ scored' = IF s \in Automation
                 THEN [scored EXCEPT ![s] = @ \cup {<<job[s], d>>}]
                 ELSE scored

\* The job failed.  `score` goes on with the next one; the automation's command
\* exits with 1, is started again while attempts remain, and then reported.
Failed(s) ==
    /\ UNCHANGED scored
    /\ \/ /\ s \in Automation
          /\ tries[s] < MaxAttempts
          /\ tries' = [tries EXCEPT ![s] = @ + 1]
          /\ got' = [got EXCEPT ![s] = "none"]
          /\ Goto(s, "reading")
          /\ UNCHANGED job
       \/ /\ s \in Automation => tries[s] = MaxAttempts
          /\ Leave(s)

-----------------------------------------------------------------------------
(* One iteration of score_jobs.                                             *)

ShouldScore(s, j) ==
    /\ content[j] \notin Blank
    /\ s \in Automation \/ ~Marked(notes[j], content[j])

\* GET, and the job needs a score.
GetJob(s) ==
    /\ pc[s] = "reading"
    /\ ShouldScore(s, job[s])
    /\ got' = [got EXCEPT ![s] = content[job[s]]]
    /\ noted' = noted \ {<<s, job[s]>>}
    /\ Goto(s, "asking")
    /\ UNCHANGED <<content, notes, todo, job, tries, scored, stored>>

\* GET, and it does not: "skipped", which is not a failure.
SkipJob(s) ==
    /\ pc[s] = "reading"
    /\ ~ShouldScore(s, job[s])
    /\ noted' = noted \ {<<s, job[s]>>}
    /\ Succeeded(s, content[job[s]])
    /\ UNCHANGED <<content, notes, todo, stored>>

\* Those who rely on the notes of j: they hold its content, or have scored it.
Relying(j) ==
    {t \in Scorers : \/ pc[t] = "asking" /\ job[t] = j
                     \/ \E d \in Digests : <<j, d>> \in scored[t]}

\* The backend stores the score of what s has read.
Store(s) ==
    /\ pc[s] = "asking"
    /\ notes' = [notes EXCEPT ![job[s]] = Noted(@, got[s])]
    /\ noted' = noted \cup ((Relying(job[s]) \ {s}) \X {job[s]})
    /\ stored' = IF s \in Automation THEN [stored EXCEPT ![s] = @ + 1] ELSE stored
    /\ UNCHANGED <<content, todo>>

\* The provider answers, and the note is added.
AddNote(s) == Store(s) /\ Succeeded(s, got[s])

\* The note is stored and the command fails all the same: the response was lost,
\* or the command was killed after its POST.
NoteUnconfirmed(s) ==
    /\ "lost" \in Faults
    /\ Store(s)
    /\ Failed(s)

\* Nothing is stored: GET, the provider or the POST failed, or its answer was
\* not a valid score.
ScoreFails(s) ==
    /\ "fails" \in Faults
    /\ pc[s] \in {"reading", "asking"}
    /\ Failed(s)
    /\ UNCHANGED <<content, notes, todo, noted, stored>>

\* The scorer command does not exist: FileNotFoundError is terminal.
CommandMissing(s) ==
    /\ "missing" \in Faults
    /\ s \in Automation
    /\ pc[s] = "reading"
    /\ Leave(s)
    /\ UNCHANGED <<content, notes, todo, scored, noted, stored>>

-----------------------------------------------------------------------------

\* The automation gets a scored job again and parses its notes.
ReadBack(s) ==
    /\ pc[s] = "reading back"
    /\ \E entry \in scored[s] :
          /\ scored' = [scored EXCEPT ![s] = @ \ {entry}]
          /\ noted' = noted \ {<<s, entry[1]>>}
    /\ UNCHANGED <<content, notes, pc, todo, job, got, tries, stored>>

\* All candidates have been treated; the automation reads its scored jobs back.
Finish(s) ==
    /\ pc[s] = "choosing"
    /\ todo[s] = {}
    /\ Goto(s, IF s \in Automation THEN "reading back" ELSE "idle")
    /\ UNCHANGED <<content, notes, todo, job, got, tries, scored, noted, stored>>

AllReadBack(s) ==
    /\ pc[s] = "reading back"
    /\ scored[s] = {}
    /\ Goto(s, "idle")
    /\ UNCHANGED <<content, notes, todo, job, got, tries, scored, noted, stored>>

\* The process dies.
Killed(s) ==
    /\ "killed" \in Faults
    /\ pc[s] # "idle"
    /\ Goto(s, "idle")
    /\ todo' = [todo EXCEPT ![s] = {}]
    /\ job' = [job EXCEPT ![s] = NoJob]
    /\ got' = [got EXCEPT ![s] = "none"]
    /\ tries' = [tries EXCEPT ![s] = 0]
    /\ stored' = [stored EXCEPT ![s] = 0]
    /\ scored' = [scored EXCEPT ![s] = {}]
    /\ noted' = {pair \in noted : pair[1] # s}
    /\ UNCHANGED <<content, notes>>

-----------------------------------------------------------------------------

Step(s) ==
    \/ ListJobs(s)
    \/ Imported(s)
    \/ Choose(s)
    \/ GetJob(s)
    \/ SkipJob(s)
    \/ AddNote(s)
    \/ ReadBack(s)
    \/ Finish(s)
    \/ AllReadBack(s)

Fault(s) ==
    \/ NoteUnconfirmed(s)
    \/ ScoreFails(s)
    \/ CommandMissing(s)
    \/ Killed(s)

Next ==
    \/ \E s \in Scorers : Step(s) \/ Fault(s)
    \/ \E j \in Jobs : Edit(j)

Spec == Init /\ [][Next]_vars

\* The command is scheduled again and again and keeps executing, and no failure
\* hits a job at the same point of every attempt.
FairSpec ==
    /\ Spec
    /\ \A s \in Scorers \ Automation :
          /\ WF_vars(Step(s))
          /\ \A j \in Listed :
                /\ SF_vars(Choose(s) /\ job'[s] = j)
                /\ SF_vars(GetJob(s) /\ job[s] = j)
                /\ SF_vars(AddNote(s) /\ job[s] = j)

-----------------------------------------------------------------------------
(* Properties.                                                              *)

\* `score` pays for a score only if none is current: what it is about to score
\* has no current note, unless another scorer has added one since it looked.
AsksForNews ==
    \A s \in Scorers \ Automation :
        pc[s] = "asking" =>
            \/ <<s, job[s]>> \in noted
            \/ ~notes[job[s]].legacy /\ notes[job[s]].last \notin {"opaque", got[s]}

\* What the automation reads back for a job it counts as scored is the score of
\* the content it was scored on, after retries and lost responses too, unless
\* another scorer has noted it since, or it had no description to be scored.
ScoredIsReadBack ==
    \A s \in Automation : \A entry \in scored[s] :
        \/ entry[2] \in Blank
        \/ <<s, entry[1]>> \in noted
        \/ notes[entry[1]].valid = entry[2]

Current(j) ==
    \/ content[j] \in Blank
    \/ notes[j].legacy
    \/ notes[j].last \in {"opaque", content[j]}

\* Once users stop editing, every listed job gets a score of its present content
\* and keeps it, although overlapping scorers may still store stale ones.
Converges ==
    <>[][UNCHANGED content]_content => \A j \in Listed : <>[]Current(j)
=============================================================================
