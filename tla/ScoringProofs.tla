---------------------------- MODULE ScoringProofs ----------------------------
(****************************************************************************)
(* Theorems about Scoring, for any jobs, scorers, edits and attempts.       *)
(****************************************************************************)
EXTENDS Scoring, TLAPS

Busy(s) == pc[s] \in {"reading", "asking"}

\* A scorer at a job has an attempt running that has stored nothing yet.
Engaged ==
    \A s \in Scorers :
        /\ Busy(s) => job[s] \in Jobs /\ tries[s] # 0 /\ stored[s] < tries[s]
        /\ pc[s] = "asking" => got[s] \in Digests

Typed == TypeOK /\ Engaged

LEMMA Bound ==
    MaxAttempts \in Nat /\ 1 <= MaxAttempts /\ {0, 1} \subseteq 0 .. MaxAttempts
  BY ScoringConfigOK

LEMMA NotedType ==
    ASSUME NEW n \in Notes, NEW d \in Digests
    PROVE  Noted(n, d) \in Notes
  BY DEF Noted, Notes, Marks, Scores

LEMMA TypedInit == Init => Typed
  <1>. SUFFICES ASSUME Init PROVE Typed
    OBVIOUS
  <1>1. Earlier \subseteq Notes
    BY DEF Earlier, Notes, Marks, Scores
  <1>2. notes \in [Jobs -> Notes]
    BY <1>1 DEF Init
  <1>. QED BY <1>2, Bound DEF Init, Typed, TypeOK, Engaged, Busy, Stages

\* The variables that Leave sets keep their types.
LEMMA LeaveTypes ==
    ASSUME Typed, NEW s \in Scorers, Leave(s)
    PROVE  /\ pc' \in [Scorers -> Stages]
           /\ job' \in [Scorers -> Jobs \cup {NoJob}]
           /\ got' \in [Scorers -> Digests \cup {"none"}]
           /\ tries' \in [Scorers -> 0 .. MaxAttempts]
  <1>1. pc' \in [Scorers -> Stages]
    BY DEF Typed, TypeOK, Leave, Goto, Stages
  <1>2. job' \in [Scorers -> Jobs \cup {NoJob}]
    BY DEF Typed, TypeOK, Leave
  <1>3. got' \in [Scorers -> Digests \cup {"none"}]
    BY DEF Typed, TypeOK, Leave
  <1>4. tries' \in [Scorers -> 0 .. MaxAttempts]
    BY Bound DEF Typed, TypeOK, Leave
  <1>. QED BY <1>1, <1>2, <1>3, <1>4

\* What the state must have kept when s ends its work on a job.
LEMMA LeaveTyped ==
    ASSUME Typed, NEW s \in Scorers, Leave(s), stored' = stored,
           content' = content, notes' \in [Jobs -> Notes], todo' = todo,
           scored' \in [Scorers -> SUBSET (Jobs \X Digests)],
           noted' \subseteq Scorers \X Jobs
    PROVE  Typed'
  <1>1. TypeOK'
    BY LeaveTypes DEF Typed, TypeOK
  <1>2. \A t \in Scorers :
            /\ t = s => pc'[t] = "choosing"
            /\ t # s => pc'[t] = pc[t] /\ job'[t] = job[t] /\ got'[t] = got[t]
                        /\ tries'[t] = tries[t]
    BY DEF Typed, TypeOK, Leave, Goto
  <1>3. Engaged'
    BY <1>2 DEF Typed, Engaged, Busy
  <1>. QED BY <1>1, <1>3 DEF Typed

\* One attempt of s failed, and stored at most one note.
LEMMA FailedTyped ==
    ASSUME Typed, NEW s \in Scorers, Busy(s), Failed(s),
           \/ stored' = stored
           \/ s \in Automation /\ stored' = [stored EXCEPT ![s] = @ + 1],
           content' = content, notes' \in [Jobs -> Notes], todo' = todo,
           noted' \subseteq Scorers \X Jobs
    PROVE  Typed'
  <1>1. /\ tries[s] \in 1 .. MaxAttempts /\ stored[s] \in 0 .. MaxAttempts
        /\ stored[s] < tries[s]
    BY Bound DEF Typed, TypeOK, Engaged
  <1>2. stored' \in [Scorers -> 0 .. MaxAttempts]
    <2>1. stored[s] + 1 \in 0 .. MaxAttempts
      BY <1>1, Bound
    <2>. QED BY <2>1 DEF Typed, TypeOK
  <1>3. \A t \in Scorers : t # s => stored'[t] = stored[t]
    BY DEF Typed, TypeOK
  <1>4. CASE s \in Automation /\ tries[s] < MaxAttempts
    <2>1. /\ tries' = [tries EXCEPT ![s] = @ + 1]
          /\ got' = [got EXCEPT ![s] = "none"]
          /\ pc' = [pc EXCEPT ![s] = "reading"]
          /\ job' = job /\ scored' = scored
      BY <1>4, <1>1 DEF Failed, Goto
    <2>2. tries[s] + 1 \in 0 .. MaxAttempts
      BY <1>1, <1>4, Bound
    <2>3. TypeOK'
      BY <1>2, <2>1, <2>2 DEF Typed, TypeOK, Stages
    <2>4. tries'[s] = tries[s] + 1 /\ stored'[s] <= stored[s] + 1
      BY <2>1, <1>1 DEF Typed, TypeOK
    <2>5. \A t \in Scorers :
              /\ t = s => pc'[t] = "reading" /\ job'[t] = job[t]
              /\ t # s => pc'[t] = pc[t] /\ job'[t] = job[t]
                          /\ got'[t] = got[t] /\ tries'[t] = tries[t]
      BY <2>1 DEF Typed, TypeOK
    <2>6. job[s] \in Jobs
      BY DEF Typed, Engaged
    <2>7. Engaged'
      BY <2>4, <2>5, <2>6, <1>1, <1>2, <1>3 DEF Typed, Engaged, Busy
    <2>. QED BY <2>3, <2>7 DEF Typed
  <1>5. CASE ~(s \in Automation /\ tries[s] < MaxAttempts)
    <2>1. Leave(s) /\ scored' = scored
      BY <1>5, <1>1 DEF Failed
    <2>2. TypeOK'
      BY <1>2, <2>1, LeaveTypes DEF Typed, TypeOK
    <2>3. \A t \in Scorers :
              /\ t = s => pc'[t] = "choosing"
              /\ t # s => pc'[t] = pc[t] /\ job'[t] = job[t] /\ got'[t] = got[t]
                          /\ tries'[t] = tries[t]
      BY <2>1 DEF Typed, TypeOK, Leave, Goto
    <2>4. Engaged'
      BY <2>3, <1>3 DEF Typed, Engaged, Busy
    <2>. QED BY <2>2, <2>4 DEF Typed
  <1>. QED BY <1>4, <1>5

\* Storing a note keeps the notes in shape, and marks only scorers and jobs.
LEMMA StoreTyped ==
    ASSUME Typed, NEW s \in Scorers, Store(s)
    PROVE  notes' \in [Jobs -> Notes] /\ noted' \subseteq Scorers \X Jobs
  <1>1. pc[s] = "asking" /\ job[s] \in Jobs /\ got[s] \in Digests
    BY DEF Store, Typed, Engaged, Busy
  <1>2. Noted(notes[job[s]], got[s]) \in Notes
    BY <1>1, NotedType DEF Typed, TypeOK
  <1>3. notes' \in [Jobs -> Notes]
    BY <1>1, <1>2 DEF Store, Typed, TypeOK
  <1>4. Relying(job[s]) \subseteq Scorers
    BY DEF Relying
  <1>5. noted' \subseteq Scorers \X Jobs
    BY <1>1, <1>4 DEF Store, Typed, TypeOK
  <1>. QED BY <1>3, <1>5

LEMMA TypedStep == Typed /\ [Next]_vars => Typed'
  <1>. SUFFICES ASSUME Typed, [Next]_vars PROVE Typed'
    OBVIOUS
  <1>1. ASSUME NEW s \in Scorers, Step(s) PROVE Typed'
    <2>1. CASE ListJobs(s) \/ Imported(s) \/ Finish(s) \/ AllReadBack(s)
      <3>1. /\ \/ pc' = [pc EXCEPT ![s] = "choosing"]
               \/ pc' = [pc EXCEPT ![s] = "reading back"]
               \/ pc' = [pc EXCEPT ![s] = "idle"]
            /\ UNCHANGED <<content, notes, job, got, tries, scored, noted, stored>>
        BY <2>1 DEF ListJobs, Imported, Finish, AllReadBack, Goto
      <3>2. pc' \in [Scorers -> Stages]
        BY <3>1 DEF Typed, TypeOK, Stages
      <3>3. todo' \in [Scorers -> SUBSET Jobs]
        <4>1. {j \in Listed : content[j] \notin Blank} \subseteq Jobs
          BY ScoringConfigOK
        <4>. QED BY <2>1, <4>1
                 DEF ListJobs, Imported, Finish, AllReadBack, Typed, TypeOK
      <3>4. \A t \in Scorers : pc'[t] = pc[t] \/ pc'[t] \notin {"reading", "asking"}
        BY <3>1 DEF Typed, TypeOK
      <3>. QED BY <3>1, <3>2, <3>3, <3>4 DEF Typed, TypeOK, Engaged, Busy
    <2>2. CASE Choose(s)
      <3>1. PICK j \in todo[s] :
                /\ todo' = [todo EXCEPT ![s] = @ \ {j}]
                /\ job' = [job EXCEPT ![s] = j]
        BY <2>2 DEF Choose
      <3>2. j \in Jobs
        BY <3>1 DEF Typed, TypeOK
      <3>3. TypeOK'
        BY <2>2, <3>1, <3>2, Bound DEF Choose, Goto, Typed, TypeOK, Stages
      <3>4. \A t \in Scorers :
                /\ t = s => pc'[t] = "reading" /\ job'[t] = j /\ tries'[t] = 1
                            /\ stored'[t] = 0
                /\ t # s => pc'[t] = pc[t] /\ job'[t] = job[t] /\ got'[t] = got[t]
                            /\ tries'[t] = tries[t] /\ stored'[t] = stored[t]
        BY <2>2, <3>1 DEF Choose, Goto, Typed, TypeOK
      <3>5. Engaged'
        BY <3>2, <3>4 DEF Typed, Engaged, Busy
      <3>. QED BY <3>3, <3>5 DEF Typed
    <2>3. CASE GetJob(s)
      <3>1. pc[s] = "reading" /\ job[s] \in Jobs
        BY <2>3 DEF GetJob, Typed, Engaged, Busy
      <3>2. content[job[s]] \in Digests
        BY <3>1 DEF Typed, TypeOK
      <3>3. TypeOK'
        BY <2>3, <3>2 DEF GetJob, Goto, Typed, TypeOK, Stages
      <3>4. \A t \in Scorers :
                /\ t = s => pc'[t] = "asking" /\ got'[t] = content[job[s]]
                /\ t # s => pc'[t] = pc[t] /\ got'[t] = got[t]
        BY <2>3 DEF GetJob, Goto, Typed, TypeOK
      <3>5. UNCHANGED <<job, tries, stored>>
        BY <2>3 DEF GetJob
      <3>6. Engaged'
        BY <3>1, <3>2, <3>4, <3>5 DEF Typed, Engaged, Busy
      <3>. QED BY <3>3, <3>6 DEF Typed
    <2>4. CASE SkipJob(s)
      <3>1. job[s] \in Jobs
        BY <2>4 DEF SkipJob, Typed, Engaged, Busy
      <3>2. <<job[s], content[job[s]]>> \in Jobs \X Digests
        BY <3>1 DEF Typed, TypeOK
      <3>3. scored' \in [Scorers -> SUBSET (Jobs \X Digests)]
        BY <2>4, <3>2 DEF SkipJob, Succeeded, Typed, TypeOK
      <3>. QED BY <2>4, <3>3, LeaveTyped DEF SkipJob, Succeeded, Typed, TypeOK
    <2>5. CASE AddNote(s)
      <3>1. /\ pc[s] = "asking" /\ job[s] \in Jobs /\ got[s] \in Digests
            /\ tries[s] \in 0 .. MaxAttempts /\ stored[s] \in 0 .. MaxAttempts
            /\ stored[s] < tries[s]
        BY <2>5 DEF AddNote, Store, Typed, TypeOK, Engaged, Busy
      <3>2. scored' \in [Scorers -> SUBSET (Jobs \X Digests)]
        BY <2>5, <3>1 DEF AddNote, Succeeded, Typed, TypeOK
      <3>3. stored' \in [Scorers -> 0 .. MaxAttempts]
        <4>1. stored[s] + 1 \in 0 .. MaxAttempts
          BY <3>1, Bound
        <4>. QED BY <2>5, <4>1 DEF AddNote, Store, Typed, TypeOK
      <3>4. TypeOK'
        BY <2>5, <3>2, <3>3, StoreTyped, LeaveTypes
           DEF AddNote, Succeeded, Store, Typed, TypeOK
      <3>5. \A t \in Scorers :
                /\ t = s => pc'[t] = "choosing"
                /\ t # s => pc'[t] = pc[t] /\ job'[t] = job[t] /\ got'[t] = got[t]
                            /\ tries'[t] = tries[t] /\ stored'[t] = stored[t]
        BY <2>5 DEF AddNote, Succeeded, Store, Leave, Goto, Typed, TypeOK
      <3>6. Engaged'
        BY <3>5 DEF Typed, Engaged, Busy
      <3>. QED BY <3>4, <3>6 DEF Typed
    <2>6. CASE ReadBack(s)
      <3>1. scored' \in [Scorers -> SUBSET (Jobs \X Digests)]
        <4>1. PICK entry \in scored[s] :
                  scored' = [scored EXCEPT ![s] = @ \ {entry}]
          BY <2>6 DEF ReadBack
        <4>2. scored[s] \ {entry} \in SUBSET (Jobs \X Digests)
          BY DEF Typed, TypeOK
        <4>. QED BY <4>1, <4>2 DEF Typed, TypeOK
      <3>2. noted' \subseteq Scorers \X Jobs
        BY <2>6 DEF ReadBack, Typed, TypeOK
      <3>. QED BY <2>6, <3>1, <3>2 DEF ReadBack, Typed, TypeOK, Engaged, Busy
    <2>. QED BY <1>1, <2>1, <2>2, <2>3, <2>4, <2>5, <2>6 DEF Step
  <1>2. ASSUME NEW s \in Scorers, Fault(s) PROVE Typed'
    <2>1. CASE NoteUnconfirmed(s)
      BY <2>1, StoreTyped, FailedTyped DEF NoteUnconfirmed, Store, Busy
    <2>2. CASE ScoreFails(s)
      BY <2>2, FailedTyped DEF ScoreFails, Busy, Typed, TypeOK
    <2>3. CASE CommandMissing(s)
      BY <2>3, LeaveTyped DEF CommandMissing, Typed, TypeOK
    <2>4. CASE Killed(s)
      <3>1. TypeOK'
        <4>1. /\ tries' \in [Scorers -> 0 .. MaxAttempts]
              /\ stored' \in [Scorers -> 0 .. MaxAttempts]
          BY <2>4, Bound DEF Killed, Typed, TypeOK
        <4>2. /\ pc' \in [Scorers -> Stages]
              /\ job' \in [Scorers -> Jobs \cup {NoJob}]
              /\ got' \in [Scorers -> Digests \cup {"none"}]
          BY <2>4 DEF Killed, Goto, Typed, TypeOK, Stages
        <4>3. /\ todo' \in [Scorers -> SUBSET Jobs]
              /\ scored' \in [Scorers -> SUBSET (Jobs \X Digests)]
              /\ noted' \subseteq Scorers \X Jobs
          BY <2>4 DEF Killed, Typed, TypeOK
        <4>. QED BY <2>4, <4>1, <4>2, <4>3 DEF Killed, Typed, TypeOK
      <3>2. \A t \in Scorers :
                /\ t = s => pc'[t] = "idle"
                /\ t # s => pc'[t] = pc[t] /\ job'[t] = job[t] /\ got'[t] = got[t]
                            /\ tries'[t] = tries[t] /\ stored'[t] = stored[t]
        BY <2>4 DEF Killed, Goto, Typed, TypeOK
      <3>3. Engaged'
        BY <3>2 DEF Typed, Engaged, Busy
      <3>. QED BY <3>1, <3>3 DEF Typed
    <2>. QED BY <1>2, <2>1, <2>2, <2>3, <2>4 DEF Fault
  <1>3. ASSUME NEW j \in Jobs, Edit(j) PROVE Typed'
    BY <1>3 DEF Edit, Typed, TypeOK, Engaged, Busy
  <1>4. CASE UNCHANGED vars
    BY <1>4 DEF vars, Typed, TypeOK, Engaged, Busy
  <1>. QED BY <1>1, <1>2, <1>3, <1>4 DEF Next

\* Type correctness, with the retry bound: no retry_call of the automation makes
\* more than MaxAttempts attempts or stores more than MaxAttempts notes.
THEOREM TypeCorrect == Spec => []TypeOK
  <1>1. Typed => TypeOK
    BY DEF Typed
  <1>. QED BY <1>1, TypedInit, TypedStep, PTL DEF Spec

LEMMA AlwaysTyped == Spec => []Typed
  BY TypedInit, TypedStep, PTL DEF Spec

-----------------------------------------------------------------------------
(* `score` asks only for scores that are news.                              *)

News(s) ==
    pc[s] = "asking" =>
        \/ <<s, job[s]>> \in noted
        \/ ~notes[job[s]].legacy /\ notes[job[s]].last \notin {"opaque", got[s]}

LEMMA NewsInit == Init => AsksForNews
  BY DEF Init, AsksForNews

\* A step that neither adds a note nor disturbs the slot s keeps News(s).
LEMMA NewsFrame ==
    ASSUME NEW s \in Scorers, News(s), notes' = notes,
           pc'[s] = pc[s], job'[s] = job[s], got'[s] = got[s],
           <<s, job[s]>> \in noted => <<s, job[s]>> \in noted'
    PROVE  News(s)'
  BY DEF News

\* A note of another scorer is remembered.
LEMMA NewsUnderStore ==
    ASSUME Typed, NEW s \in Scorers, NEW t \in Scorers, t # s, Store(t), News(s),
           pc'[s] = pc[s], job'[s] = job[s], got'[s] = got[s]
    PROVE  News(s)'
  <1>. SUFFICES ASSUME pc[s] = "asking"
                PROVE  News(s)'
    BY DEF News
  <1>1. job[s] \in Jobs /\ job[t] \in Jobs
    BY DEF Store, Typed, Engaged, Busy
  <1>2. CASE job[s] = job[t]
    <2>1. s \in Relying(job[t]) \ {t}
      BY <1>2 DEF Relying
    <2>2. <<s, job[s]>> \in noted'
      BY <2>1, <1>2 DEF Store
    <2>. QED BY <2>2 DEF News
  <1>3. CASE job[s] # job[t]
    <2>1. notes'[job[s]] = notes[job[s]] /\ noted \subseteq noted'
      BY <1>1, <1>3 DEF Store, Typed, TypeOK
    <2>. QED BY <2>1 DEF News
  <1>. QED BY <1>2, <1>3

LEMMA NewsStep == Typed /\ AsksForNews /\ [Next]_vars => AsksForNews'
  <1>. SUFFICES ASSUME Typed, AsksForNews, [Next]_vars,
                       NEW s \in Scorers \ Automation
                PROVE  News(s)'
    BY DEF AsksForNews, News
  <1>n. News(s)
    BY DEF AsksForNews, News
  <1>1. ASSUME NEW t \in Scorers, t # s, Step(t) \/ Fault(t) PROVE News(s)'
    <2>1. pc'[s] = pc[s] /\ job'[s] = job[s] /\ got'[s] = got[s]
      BY <1>1 DEF Step, ListJobs, Imported, Choose, GetJob, SkipJob, AddNote,
                  ReadBack, Finish, AllReadBack, Succeeded, Failed, Leave, Goto,
                  Fault, NoteUnconfirmed, ScoreFails, CommandMissing, Killed,
                  Typed, TypeOK
    <2>2. CASE AddNote(t) \/ NoteUnconfirmed(t)
      BY <2>1, <2>2, <1>1, <1>n, NewsUnderStore DEF AddNote, NoteUnconfirmed
    <2>3. CASE ~(AddNote(t) \/ NoteUnconfirmed(t))
      <3>1. notes' = notes
        BY <1>1, <2>3 DEF Step, ListJobs, Imported, Choose, GetJob, SkipJob,
                          ReadBack, Finish, AllReadBack, Fault, ScoreFails,
                          CommandMissing, Killed
      <3>2. \A j \in Jobs : <<s, j>> \in noted => <<s, j>> \in noted'
        BY <1>1, <2>3 DEF Step, ListJobs, Imported, Choose, GetJob, SkipJob,
                          ReadBack, Finish, AllReadBack, Fault, ScoreFails,
                          CommandMissing, Killed
      <3>3. pc[s] = "asking" => job[s] \in Jobs
        BY DEF Typed, Engaged, Busy
      <3>. QED BY <2>1, <3>1, <3>2, <3>3, <1>n DEF News
    <2>. QED BY <2>2, <2>3
  <1>2. CASE GetJob(s)
    <2>1. /\ ~Marked(notes[job[s]], content[job[s]])
          /\ job' = job /\ notes' = notes /\ got'[s] = content[job[s]]
      BY <1>2 DEF GetJob, ShouldScore, Typed, TypeOK
    <2>. QED BY <2>1 DEF News, Marked
  <1>3. ASSUME Step(s) \/ Fault(s), ~GetJob(s) PROVE News(s)'
    <2>1. pc'[s] # "asking" \/ ReadBack(s)
      BY <1>3 DEF Step, ListJobs, Imported, Choose, SkipJob, AddNote,
                  Finish, AllReadBack, Succeeded, Failed, Leave, Goto,
                  Fault, NoteUnconfirmed, ScoreFails, CommandMissing, Killed,
                  Typed, TypeOK
    <2>2. ReadBack(s) => pc'[s] # "asking"
      BY DEF ReadBack
    <2>. QED BY <2>1, <2>2 DEF News
  <1>4. CASE UNCHANGED vars \/ \E j \in Jobs : Edit(j)
    BY <1>4, <1>n DEF vars, Edit, News
  <1>. QED BY <1>1, <1>2, <1>3, <1>4 DEF Next

\* Without --force a score is paid for only if the job has no current one, unless
\* another scorer has added it since.
THEOREM NoRedundantScores == Spec => []AsksForNews
  BY NewsInit, NewsStep, AlwaysTyped, PTL DEF Spec

-----------------------------------------------------------------------------
(* What the automation reads back is what it scored.                        *)

\* A run treats a job once, and starts with nothing scored.
OnceAt(s) ==
    /\ pc[s] = "idle" \/ s \notin Automation => scored[s] = {}
    /\ Busy(s) => job[s] \notin todo[s]
    /\ \A e \in scored[s] :
          /\ e[1] \notin todo[s]
          /\ Busy(s) => e[1] # job[s]
          /\ \A f \in scored[s] : e[1] = f[1] => e = f

Once == \A s \in Scorers : OnceAt(s)

LEMMA OnceInit == Init => Once
  BY DEF Init, Once, OnceAt, Busy

\* A step of t leaves the slots of the others alone.
LEMMA OthersKept ==
    ASSUME Typed, NEW t \in Scorers, Step(t) \/ Fault(t),
           NEW s \in Scorers, s # t
    PROVE  /\ pc'[s] = pc[s] /\ job'[s] = job[s] /\ got'[s] = got[s]
           /\ todo'[s] = todo[s] /\ scored'[s] = scored[s]
  <1>1. CASE ListJobs(t) \/ Imported(t) \/ Finish(t) \/ AllReadBack(t)
    BY <1>1 DEF ListJobs, Imported, Finish, AllReadBack, Goto, Typed, TypeOK
  <1>2. CASE Choose(t)
    <2>1. PICK j \in todo[t] : /\ todo' = [todo EXCEPT ![t] = @ \ {j}]
                               /\ job' = [job EXCEPT ![t] = j]
      BY <1>2 DEF Choose
    <2>. QED BY <1>2, <2>1 DEF Choose, Goto, Typed, TypeOK
  <1>3. CASE GetJob(t) \/ SkipJob(t)
    BY <1>3 DEF GetJob, SkipJob, Succeeded, Leave, Goto, Typed, TypeOK
  <1>4. CASE AddNote(t)
    BY <1>4 DEF AddNote, Store, Succeeded, Leave, Goto, Typed, TypeOK
  <1>5. CASE ReadBack(t)
    <2>1. PICK entry \in scored[t] : scored' = [scored EXCEPT ![t] = @ \ {entry}]
      BY <1>5 DEF ReadBack
    <2>. QED BY <1>5, <2>1 DEF ReadBack, Typed, TypeOK
  <1>6. CASE NoteUnconfirmed(t) \/ ScoreFails(t) \/ CommandMissing(t)
    BY <1>6 DEF NoteUnconfirmed, ScoreFails, CommandMissing, Store, Failed, Leave,
                Goto, Typed, TypeOK
  <1>7. CASE Killed(t)
    BY <1>7 DEF Killed, Goto, Typed, TypeOK
  <1>. QED BY <1>1, <1>2, <1>3, <1>4, <1>5, <1>6, <1>7 DEF Step, Fault

LEMMA OnceStep == Typed /\ Once /\ [Next]_vars => Once'
  <1>. SUFFICES ASSUME Typed, Once, [Next]_vars PROVE Once'
    OBVIOUS
  <1>1. ASSUME NEW t \in Scorers, Step(t) \/ Fault(t) PROVE Once'
    <2>o. OnceAt(t)
      BY DEF Once
    <2>1. CASE ListJobs(t) \/ Imported(t)
      <3>1. scored[t] = {} /\ scored' = scored /\ pc'[t] = "choosing"
        BY <2>1, <2>o DEF ListJobs, Imported, Goto, OnceAt, Typed, TypeOK
      <3>2. OnceAt(t)'
        BY <3>1 DEF OnceAt, Busy
      <3>. QED BY <3>2, <1>1, OthersKept DEF Once, OnceAt, Busy
    <2>2. CASE Choose(t)
      <3>1. PICK j \in todo[t] :
                /\ todo' = [todo EXCEPT ![t] = @ \ {j}]
                /\ job' = [job EXCEPT ![t] = j]
        BY <2>2 DEF Choose
      <3>2. /\ todo'[t] = todo[t] \ {j} /\ job'[t] = j
            /\ scored' = scored /\ pc'[t] = "reading"
        BY <2>2, <3>1 DEF Choose, Goto, Typed, TypeOK
      <3>3. OnceAt(t)'
        BY <3>1, <3>2, <2>o DEF OnceAt, Busy
      <3>. QED BY <3>3, <1>1, OthersKept DEF Once, OnceAt, Busy
    <2>3. CASE GetJob(t)
      <3>1. /\ Busy(t) /\ pc'[t] = "asking"
            /\ UNCHANGED <<todo, job, scored>>
        BY <2>3 DEF GetJob, Goto, Busy, Typed, TypeOK
      <3>2. OnceAt(t)'
        BY <3>1, <2>o DEF OnceAt
      <3>. QED BY <3>2, <1>1, OthersKept DEF Once, OnceAt, Busy
    <2>4. CASE SkipJob(t) \/ AddNote(t)
      <3>1. PICK d : Succeeded(t, d)
        BY <2>4 DEF SkipJob, AddNote
      <3>2. /\ Busy(t) /\ todo' = todo /\ pc'[t] = "choosing"
            /\ scored'[t] \subseteq scored[t] \cup {<<job[t], d>>}
            /\ t \notin Automation => scored'[t] = scored[t]
        BY <2>4, <3>1
           DEF SkipJob, AddNote, Store, Succeeded, Leave, Goto, Busy, Typed, TypeOK
      <3>3. OnceAt(t)'
        BY <3>2, <2>o DEF OnceAt, Busy
      <3>. QED BY <3>3, <1>1, OthersKept DEF Once, OnceAt, Busy
    <2>5. CASE NoteUnconfirmed(t) \/ ScoreFails(t) \/ CommandMissing(t)
      <3>1. /\ Busy(t) /\ todo' = todo /\ scored' = scored
            /\ \/ pc'[t] = "choosing"
               \/ pc'[t] = "reading" /\ job' = job
        BY <2>5 DEF NoteUnconfirmed, ScoreFails, CommandMissing, Store, Failed,
                    Leave, Goto, Busy, Typed, TypeOK
      <3>2. OnceAt(t)'
        BY <3>1, <2>o DEF OnceAt, Busy
      <3>. QED BY <3>2, <1>1, OthersKept DEF Once, OnceAt, Busy
    <2>6. CASE ReadBack(t) \/ Finish(t) \/ AllReadBack(t) \/ Killed(t)
      <3>1. /\ pc'[t] \in {"reading back", "idle"}
            /\ scored'[t] \subseteq scored[t]
            /\ todo'[t] \subseteq todo[t]
            /\ pc'[t] = "idle" => scored'[t] = {} \/ t \notin Automation
        <4>1. CASE ReadBack(t)
          <5>1. PICK entry \in scored[t] :
                    scored' = [scored EXCEPT ![t] = @ \ {entry}]
            BY <4>1 DEF ReadBack
          <5>. QED BY <4>1, <5>1 DEF ReadBack, Typed, TypeOK
        <4>2. CASE Finish(t) \/ AllReadBack(t) \/ Killed(t)
          BY <4>2 DEF Finish, AllReadBack, Killed, Goto, Typed, TypeOK
        <4>. QED BY <2>6, <4>1, <4>2
      <3>2. OnceAt(t)'
        BY <3>1, <2>o DEF OnceAt, Busy
      <3>. QED BY <3>2, <1>1, OthersKept DEF Once, OnceAt, Busy
    <2>. QED BY <1>1, <2>1, <2>2, <2>3, <2>4, <2>5, <2>6 DEF Step, Fault
  <1>2. CASE UNCHANGED vars \/ \E j \in Jobs : Edit(j)
    BY <1>2 DEF vars, Edit, Once, OnceAt, Busy
  <1>. QED BY <1>1, <1>2 DEF Next

\* An entry of scored[s] is accounted for.
Sound(s, e) ==
    \/ e[2] \in Blank
    \/ <<s, e[1]>> \in noted
    \/ notes[e[1]].valid = e[2]

LEMMA ReadBackInit == Init => ScoredIsReadBack
  BY ScoringConfigOK DEF Init, ScoredIsReadBack

\* A note of another scorer is remembered for every scored job.
LEMMA SoundUnderStore ==
    ASSUME Typed, NEW s \in Scorers, NEW t \in Scorers, t # s, Store(t),
           NEW e \in scored[s], Sound(s, e)
    PROVE  Sound(s, e)'
  <1>1. job[t] \in Jobs
    BY DEF Store, Typed, Engaged, Busy
  <1>e. e \in Jobs \X Digests
    BY DEF Typed, TypeOK
  <1>2. CASE e[1] = job[t]
    <2>1. <<job[t], e[2]>> \in scored[s] /\ e[2] \in Digests
      BY <1>e, <1>2
    <2>2. s \in Relying(job[t]) \ {t}
      BY <2>1 DEF Relying
    <2>. QED BY <2>2, <1>2 DEF Store, Sound
  <1>3. CASE e[1] # job[t]
    <2>1. notes'[e[1]] = notes[e[1]] /\ noted \subseteq noted'
      BY <1>1, <1>e, <1>3 DEF Store, Typed, TypeOK
    <2>. QED BY <2>1 DEF Sound
  <1>. QED BY <1>2, <1>3

\* Neither does a step about another job disturb an entry.
LEMMA SoundElsewhere ==
    ASSUME Typed, NEW s \in Scorers, NEW e \in scored[s], Sound(s, e),
           NEW j \in Jobs, j # e[1],
           noted \ {<<s, j>>} \subseteq noted',
           notes' = notes \/ \E n : notes' = [notes EXCEPT ![j] = n]
    PROVE  Sound(s, e)'
  <1>1. e[1] \in Jobs
    BY DEF Typed, TypeOK
  <1>2. notes'[e[1]] = notes[e[1]]
    BY <1>1 DEF Typed, TypeOK
  <1>. QED BY <1>2 DEF Sound

LEMMA ReadBackStep ==
    Typed /\ Once /\ ScoredIsReadBack /\ [Next]_vars => ScoredIsReadBack'
  <1>. SUFFICES ASSUME Typed, Once, ScoredIsReadBack, [Next]_vars,
                       NEW s \in Automation, NEW e \in scored'[s]
                PROVE  Sound(s, e)'
    BY DEF ScoredIsReadBack, Sound
  <1>a. s \in Scorers
    BY ScoringConfigOK
  <1>s. e \in scored[s] => Sound(s, e)
    BY DEF ScoredIsReadBack, Sound
  <1>o. OnceAt(s)
    BY <1>a DEF Once
  <1>1. ASSUME NEW t \in Scorers, t # s, Step(t) \/ Fault(t) PROVE Sound(s, e)'
    <2>1. e \in scored[s]
      BY <1>1, <1>a, OthersKept
    <2>2. CASE AddNote(t) \/ NoteUnconfirmed(t)
      BY <2>1, <2>2, <1>1, <1>a, <1>s, SoundUnderStore
         DEF AddNote, NoteUnconfirmed
    <2>3. CASE ~(AddNote(t) \/ NoteUnconfirmed(t))
      <3>1. notes' = notes
        BY <1>1, <2>3 DEF Step, ListJobs, Imported, Choose, GetJob, SkipJob,
                          ReadBack, Finish, AllReadBack, Fault, ScoreFails,
                          CommandMissing, Killed
      <3>2. \A j \in Jobs : <<s, j>> \in noted => <<s, j>> \in noted'
        BY <1>1, <2>3 DEF Step, ListJobs, Imported, Choose, GetJob, SkipJob,
                          ReadBack, Finish, AllReadBack, Fault, ScoreFails,
                          CommandMissing, Killed
      <3>3. e[1] \in Jobs
        BY <2>1, <1>a DEF Typed, TypeOK
      <3>. QED BY <2>1, <3>1, <3>2, <3>3, <1>s DEF Sound
    <2>. QED BY <2>2, <2>3
  <1>2. CASE GetJob(s)
    <2>1. /\ Busy(s) /\ job[s] \in Jobs /\ e \in scored[s] /\ e[1] # job[s]
          /\ notes' = notes /\ noted' = noted \ {<<s, job[s]>>}
      BY <1>2, <1>a, <1>o DEF GetJob, OnceAt, Busy, Typed, Engaged
    <2>. QED BY <2>1, <1>a, <1>s, SoundElsewhere
  <1>3. CASE SkipJob(s)
    <2>1. /\ Busy(s) /\ job[s] \in Jobs
          /\ content[job[s]] \in Blank
          /\ e \in scored[s] \/ e = <<job[s], content[job[s]]>>
          /\ notes' = notes /\ noted' = noted \ {<<s, job[s]>>}
      BY <1>3, <1>a DEF SkipJob, ShouldScore, Succeeded, Busy, Typed, TypeOK, Engaged
    <2>2. CASE e \in scored[s]
      <3>1. e[1] # job[s]
        BY <2>1, <2>2, <1>o DEF OnceAt
      <3>. QED BY <2>1, <2>2, <3>1, <1>a, <1>s, SoundElsewhere
    <2>3. CASE e = <<job[s], content[job[s]]>>
      BY <2>1, <2>3 DEF Sound
    <2>. QED BY <2>1, <2>2, <2>3
  <1>4. CASE AddNote(s) \/ NoteUnconfirmed(s)
    <2>1. /\ Busy(s) /\ job[s] \in Jobs /\ got[s] \in Digests
          /\ notes' = [notes EXCEPT ![job[s]] = Noted(@, got[s])]
          /\ noted \ {<<s, job[s]>>} \subseteq noted'
      BY <1>4, <1>a
         DEF AddNote, NoteUnconfirmed, Store, Busy, Typed, Engaged
    <2>2. e \in scored[s] \/ e = <<job[s], got[s]>>
      BY <1>4, <1>a
         DEF AddNote, NoteUnconfirmed, Succeeded, Failed, Typed, TypeOK
    <2>3. CASE e \in scored[s]
      <3>1. e[1] # job[s]
        BY <2>1, <2>3, <1>o DEF OnceAt
      <3>. QED BY <2>1, <2>3, <3>1, <1>a, <1>s, SoundElsewhere
    <2>4. CASE e = <<job[s], got[s]>>
      <3>1. notes'[job[s]].valid = got[s]
        BY <2>1 DEF Noted, Typed, TypeOK, Notes
      <3>. QED BY <3>1, <2>4 DEF Sound
    <2>. QED BY <2>2, <2>3, <2>4
  <1>5. CASE ReadBack(s)
    <2>1. PICK entry \in scored[s] :
              /\ scored' = [scored EXCEPT ![s] = @ \ {entry}]
              /\ noted' = noted \ {<<s, entry[1]>>}
      BY <1>5 DEF ReadBack
    <2>2. e \in scored[s] /\ e # entry /\ notes' = notes
      BY <1>5, <2>1, <1>a DEF ReadBack, Typed, TypeOK
    <2>3. e[1] # entry[1] /\ entry[1] \in Jobs
      BY <2>2, <1>a, <1>o DEF OnceAt, Typed, TypeOK
    <2>. QED BY <2>1, <2>2, <2>3, <1>a, <1>s, SoundElsewhere
  <1>6. CASE \/ ListJobs(s) \/ Imported(s) \/ Choose(s) \/ Finish(s)
             \/ AllReadBack(s) \/ ScoreFails(s) \/ CommandMissing(s)
    BY <1>6, <1>s DEF ListJobs, Imported, Choose, Finish, AllReadBack,
                      ScoreFails, Failed, CommandMissing, Sound
  <1>7. CASE Killed(s)
    BY <1>7, <1>a DEF Killed, Typed, TypeOK
  <1>8. CASE UNCHANGED vars \/ \E j \in Jobs : Edit(j)
    BY <1>8, <1>s DEF vars, Edit, Sound
  <1>. QED BY <1>1, <1>2, <1>3, <1>4, <1>5, <1>6, <1>7, <1>8
           DEF Next, Step, Fault

\* After any retries and lost responses the automation reads back the score of
\* the content it scored, unless another scorer has noted the job since.
THEOREM ReadsItsOwnScores == Spec => []ScoredIsReadBack
  <1>1. Init => Typed /\ Once /\ ScoredIsReadBack
    BY TypedInit, OnceInit, ReadBackInit
  <1>2. Typed /\ Once /\ ScoredIsReadBack /\ [Next]_vars
        => (Typed /\ Once /\ ScoredIsReadBack)'
    BY TypedStep, OnceStep, ReadBackStep
  <1>. QED BY <1>1, <1>2, PTL DEF Spec

=============================================================================
