--------------------------- MODULE CollectionProofs ---------------------------
(****************************************************************************)
(* Theorems about the gate and the first stages of a run: about the circuit *)
(* breaker, for any number of run slots, any threshold and any cooldowns,   *)
(* about the preflight, for any time limits, and about the searches, for    *)
(* any adapters, profiles, boards and pages.                                *)
(****************************************************************************)
EXTENDS CircuitBreaker, Collection, OrderingProofs, TLAPS

USE DEF None, MaxAge, Ages

\* Older and Count stay inside their ranges.
LEMMA AgeRange ==
    ASSUME NEW a \in Ages \cup {None}
    PROVE  /\ Older(a) \in Ages \cup {None}
           /\ Older(a) = None <=> a = None
  BY BreakerConfigOK DEF Older

LEMMA CountRange ==
    ASSUME NEW n \in 0 .. Threshold
    PROVE  Count(n) \in 0 .. Threshold
  BY BreakerConfigOK DEF Count

LEMMA ClosedType == Closed \in BreakerState
  BY BreakerConfigOK DEF Closed, BreakerState

LEMMA FailedType ==
    ASSUME NEW s \in BreakerState
    PROVE  Failed(s) \in BreakerState
  <1>1. s.failures \in 0 .. Threshold /\ s.opened \in Ages \cup {None}
    BY DEF BreakerState
  <1>2. Count(s.failures) \in 0 .. Threshold
    BY <1>1, CountRange
  <1>3. 0 \in Ages
    BY BreakerConfigOK
  <1>. QED BY <1>1, <1>2, <1>3 DEF Failed, BreakerState

LEMMA AgedType ==
    ASSUME NEW s \in BreakerState
    PROVE  Aged(s) \in BreakerState
  <1>1. s.opened \in Ages \cup {None} /\ s.alerted \in Ages \cup {None}
    BY DEF BreakerState
  <1>2. Older(s.opened) \in Ages \cup {None}
    BY <1>1, AgeRange
  <1>3. Older(s.alerted) \in Ages \cup {None}
    BY <1>1, AgeRange
  <1>. QED BY <1>2, <1>3 DEF Aged, BreakerState

LEMMA StampedType ==
    ASSUME NEW s \in BreakerState
    PROVE  [s EXCEPT !.alerted = 0] \in BreakerState
  <1>1. 0 \in Ages
    BY BreakerConfigOK
  <1>. QED BY <1>1 DEF BreakerState

-----------------------------------------------------------------------------

LEMMA TypeInit == Init => TypeOK
  <1>1. 0 \in 0 .. Threshold
    BY BreakerConfigOK
  <1>. QED BY <1>1, ClosedType DEF Init, TypeOK

LEMMA TypeStep == TypeOK /\ [Next]_vars => TypeOK'
  <1>. SUFFICES ASSUME TypeOK, [Next]_vars PROVE TypeOK'
    OBVIOUS
  <1>. USE DEF TypeOK, history
  <1>0. 0 \in Ages /\ 0 \in 0 .. Threshold
    BY BreakerConfigOK
  <1>1. ASSUME NEW r \in Runs, Begin(r) PROVE TypeOK'
    <2>1. Loads \subseteq BreakerState
      BY ClosedType DEF Loads
    <2>. QED BY <1>1, <2>1 DEF Begin, Goto, Holds
  <1>2. ASSUME NEW r \in Runs, Progress(r) PROVE TypeOK'
    <2>1. CASE Attempt(r)
      BY <2>1 DEF Attempt, Goto
    <2>2. CASE Block(r)
      BY <2>2 DEF Block, Goto
    <2>3. CASE BlockAndStamp(r)
      BY <2>3, <1>0, StampedType DEF BlockAndStamp, Goto, Holds
    <2>4. CASE SendAlert(r)
      BY <2>4 DEF SendAlert, Goto
    <2>5. CASE EndBlocked(r)
      BY <2>5, ClosedType DEF EndBlocked, End, Goto, Holds
    <2>6. CASE RunFails(r)
      BY <2>6, <1>0, ClosedType, FailedType, CountRange
         DEF RunFails, End, Goto, Holds
    <2>7. CASE RunSucceeds(r)
      BY <2>7, <1>0, ClosedType DEF RunSucceeds, End, Goto, Holds
    <2>. QED BY <1>2, <2>1, <2>2, <2>3, <2>4, <2>5, <2>6, <2>7 DEF Progress
  <1>3. ASSUME NEW r \in Runs, SaveFails(r) \/ Crash(r) PROVE TypeOK'
    BY <1>3, ClosedType DEF SaveFails, Crash, End, Goto, Holds
  <1>4. CASE Tick
    BY <1>4, AgedType, AgeRange DEF Tick
  <1>5. CASE UNCHANGED vars
    BY <1>5 DEF vars
  <1>. QED BY <1>1, <1>2, <1>3, <1>4, <1>5 DEF Next

\* Type correctness of the breaker's file, its loaded copies and their ages.
THEOREM TypeCorrect == Spec => []TypeOK
  BY TypeInit, TypeStep, PTL DEF Spec

-----------------------------------------------------------------------------
(* Undisturbed, the file says exactly what happened.                        *)

Alone ==
    \A r, q \in Runs : pc[r] # "idle" /\ pc[q] # "idle" => r = q

UpToDate == \A r \in Runs : pc[r] # "idle" => state[r] = file

\* The counter is the streak, and an open breaker's stamp is the age of the
\* last failure.
CountsStreak ==
    /\ file.failures = streak
    /\ streak >= Threshold => file.opened = quiet

RemembersAlert ==
    sameOutage => lastAlert # None /\ file.alerted = lastAlert

Truthful == Alone /\ UpToDate /\ CountsStreak /\ RemembersAlert
TruthfulInv == ~disturbed => Truthful

LEMMA TruthfulInit == Init => TruthfulInv
  BY BreakerConfigOK
     DEF Init, TruthfulInv, Truthful, Alone, UpToDate, CountsStreak,
         RemembersAlert, Closed

\* A disturbance is never forgotten.
LEMMA StaysDisturbed ==
    ASSUME TypeOK, [Next]_vars, disturbed
    PROVE  disturbed'
  <1>. USE DEF history
  <1>1. ASSUME NEW r \in Runs, Begin(r) PROVE disturbed'
    BY <1>1 DEF Begin
  <1>2. ASSUME NEW r \in Runs, Progress(r) PROVE disturbed'
    BY <1>2 DEF Progress, Attempt, Block, BlockAndStamp, SendAlert,
                EndBlocked, RunFails, RunSucceeds
  <1>3. ASSUME NEW r \in Runs, SaveFails(r) \/ Crash(r) PROVE disturbed'
    BY <1>3 DEF SaveFails, Crash
  <1>4. CASE Tick
    BY <1>4 DEF Tick
  <1>5. CASE UNCHANGED vars
    BY <1>5 DEF vars
  <1>. QED BY <1>1, <1>2, <1>3, <1>4, <1>5 DEF Next

LEMMA TruthfulStep ==
    TypeOK /\ TruthfulInv /\ [Next]_vars => TruthfulInv'
  <1>. SUFFICES ASSUME TypeOK, TruthfulInv, [Next]_vars, ~disturbed'
                PROVE  Truthful'
    BY DEF TruthfulInv
  <1>0. ~disturbed /\ Truthful
    BY StaysDisturbed DEF TruthfulInv
  <1>. USE <1>0 DEF Truthful, Alone, UpToDate, CountsStreak, RemembersAlert,
                    history
  <1>f. file \in BreakerState
    BY DEF TypeOK
  <1>1. ASSUME NEW r \in Runs, Begin(r) PROVE Truthful'
    <2>1. state' = [state EXCEPT ![r] = file]
          /\ \A q \in Runs : pc[q] = "idle"
      BY <1>1 DEF Begin, Holds
    <2>. QED BY <1>1, <2>1 DEF Begin, Goto, TypeOK
  <1>2. ASSUME NEW r \in Runs, Progress(r) PROVE Truthful'
    <2>1. CASE Attempt(r)
      BY <2>1 DEF Attempt, Goto, TypeOK
    <2>2. CASE Block(r)
      BY <2>2 DEF Block, Goto, TypeOK
    <2>3. CASE BlockAndStamp(r)
      <3>1. state[r] = file /\ file' = [file EXCEPT !.alerted = 0]
        BY <2>3 DEF BlockAndStamp
      <3>2. file'.failures = file.failures /\ file'.opened = file.opened
            /\ file'.alerted = 0
        BY <3>1, <1>f DEF BreakerState
      <3>3. Alone' /\ UpToDate'
        BY <2>3 DEF BlockAndStamp, Goto, Holds, TypeOK
      <3>4. CountsStreak' /\ RemembersAlert'
        BY <2>3, <3>2 DEF BlockAndStamp
      <3>. QED BY <3>3, <3>4
    <2>4. CASE SendAlert(r)
      BY <2>4 DEF SendAlert, Goto, TypeOK
    <2>5. CASE EndBlocked(r)
      BY <2>5 DEF EndBlocked, End, Goto, Holds, TypeOK
    <2>6. CASE RunFails(r)
      <3>1. file' = Failed(file)
        BY <2>6 DEF RunFails
      <3>2. /\ file'.failures = Count(file.failures)
            /\ file'.opened = IF file.failures + 1 >= Threshold
                              THEN 0 ELSE file.opened
            /\ file'.alerted = file.alerted
        BY <3>1, <1>f DEF Failed, BreakerState
      <3>3. Count(file.failures) >= Threshold
            => file.failures + 1 >= Threshold
        BY <1>f, BreakerConfigOK DEF Count, BreakerState
      <3>4. Alone' /\ UpToDate'
        BY <2>6 DEF RunFails, End, Goto, Holds, TypeOK
      <3>5. CountsStreak' /\ RemembersAlert'
        BY <2>6, <3>2, <3>3 DEF RunFails
      <3>. QED BY <3>4, <3>5
    <2>7. CASE RunSucceeds(r)
      BY <2>7 DEF RunSucceeds, End, Goto, Holds, TypeOK, Closed
    <2>. QED BY <1>2, <2>1, <2>2, <2>3, <2>4, <2>5, <2>6, <2>7 DEF Progress
  <1>3. ASSUME NEW r \in Runs, SaveFails(r) \/ Crash(r) PROVE FALSE
    BY <1>3 DEF SaveFails, Crash
  <1>4. CASE Tick
    <2>1. /\ file'.failures = file.failures
          /\ file'.opened = Older(file.opened)
          /\ file'.alerted = Older(file.alerted)
      BY <1>4, <1>f DEF Tick, Aged, BreakerState
    <2>2. lastAlert # None => Older(lastAlert) # None
      BY AgeRange DEF TypeOK
    <2>3. Alone' /\ UpToDate'
      BY <1>4 DEF Tick, TypeOK
    <2>4. CountsStreak' /\ RemembersAlert'
      BY <1>4, <2>1, <2>2 DEF Tick
    <2>. QED BY <2>3, <2>4
  <1>5. CASE UNCHANGED vars
    BY <1>5 DEF vars
  <1>. QED BY <1>1, <1>2, <1>3, <1>4, <1>5 DEF Next

\* While runs neither overlap nor meet a fault, breaker.json tells the truth.
THEOREM Truthfulness == Spec => []TruthfulInv
  BY TruthfulInit, TruthfulStep, TypeCorrect, PTL DEF Spec

\* A run leaves the gate by Attempt, by Block or by BlockAndStamp; all other
\* ways out of it disturb.
LEMMA LeavesGate ==
    ASSUME TypeOK, Next, NEW r \in Runs,
           pc[r] = "gate", pc'[r] # "gate", ~disturbed'
    PROVE  /\ ~disturbed
           /\ \/ /\ pc'[r] = "working"
                 /\ ShouldAttempt(state[r])
              \/ /\ pc'[r] = "blocked"
                 /\ ~ShouldAttempt(state[r])
              \/ /\ pc'[r] = "alerting"
                 /\ ~ShouldAttempt(state[r])
                 /\ AlertDue(state[r])
  <1>1. PICK q \in Runs : Begin(q) \/ Progress(q) \/ SaveFails(q) \/ Crash(q)
    BY DEF Next, Tick
  <1>2. ~SaveFails(q) /\ ~Crash(q)
    BY DEF SaveFails, Crash
  <1>3. ~Begin(q)
    BY DEF Begin, Goto, TypeOK
  <1>4. Progress(q) /\ q = r
    BY <1>1, <1>2, <1>3
       DEF Progress, Attempt, Block, BlockAndStamp, SendAlert, EndBlocked,
           RunFails, RunSucceeds, End, Goto, TypeOK
  <1>. QED
    BY <1>4
       DEF Progress, Attempt, Block, BlockAndStamp, SendAlert, EndBlocked,
           RunFails, RunSucceeds, End, Goto, TypeOK, history

\* The gate turns a run away exactly when the last Threshold runs all failed,
\* the last of them less than Cooldown ago.
THEOREM GateExactness == Spec => GateIsExact
  <1>1. TypeOK /\ TruthfulInv /\ [Next]_vars
        => [\A r \in Runs :
              pc[r] = "gate" /\ pc'[r] # "gate" /\ ~disturbed'
              => (pc'[r] = "working"
                    <=> streak < Threshold \/ quiet = None
                        \/ quiet >= Cooldown)]_vars
    <2>. SUFFICES ASSUME TypeOK, TruthfulInv, Next, NEW r \in Runs,
                         pc[r] = "gate", pc'[r] # "gate", ~disturbed'
                  PROVE  pc'[r] = "working"
                           <=> streak < Threshold \/ quiet = None
                               \/ quiet >= Cooldown
      OBVIOUS
    <2>1. ~disturbed /\ (pc'[r] = "working" <=> ShouldAttempt(state[r]))
      BY LeavesGate
    <2>2. Truthful /\ state[r] = file
      BY <2>1 DEF TruthfulInv, Truthful, UpToDate
    <2>3. streak \in Int /\ Threshold \in Int
      BY BreakerConfigOK DEF TypeOK
    <2>. QED BY <2>1, <2>2, <2>3 DEF Truthful, CountsStreak, ShouldAttempt
  <1>. QED BY <1>1, TypeCorrect, Truthfulness, PTL DEF Spec, GateIsExact

\* Within one outage alerts are at least AlertCooldown apart.
THEOREM AlertSpacing == Spec => OutageAlertsSpaced
  <1>1. TypeOK /\ TruthfulInv /\ [Next]_vars
        => [\A r \in Runs :
              pc[r] = "gate" /\ pc'[r] = "alerting" /\ ~disturbed
              /\ sameOutage
              => lastAlert >= AlertCooldown]_vars
    <2>. SUFFICES ASSUME TypeOK, TruthfulInv, Next, NEW r \in Runs,
                         pc[r] = "gate", pc'[r] = "alerting", ~disturbed,
                         sameOutage
                  PROVE  lastAlert >= AlertCooldown
      OBVIOUS
    <2>1. ~disturbed'
      BY DEF Next, Begin, Progress, Attempt, Block, BlockAndStamp, SendAlert,
             EndBlocked, RunFails, RunSucceeds, SaveFails, Crash, Tick, End,
             Goto, TypeOK, history
    <2>2. AlertDue(state[r])
      BY <2>1, LeavesGate
    <2>. QED
      BY <2>2 DEF TruthfulInv, Truthful, UpToDate, RemembersAlert, AlertDue
  <1>. QED BY <1>1, TypeCorrect, Truthfulness, PTL DEF Spec, OutageAlertsSpaced

-----------------------------------------------------------------------------
(* The preflight.                                                           *)

LEMMA OneMore ==
    ASSUME NEW S, NEW s \in Seq(S), NEW x \in S, NEW longer, longer = s \o <<x>>
    PROVE  /\ longer \in Seq(S)
           /\ Len(longer) = Len(s) + 1
           /\ longer[Len(s) + 1] = x
           /\ \A i \in 1 .. Len(s) : longer[i] = s[i]
  OBVIOUS

LEMMA ListOf ==
    ASSUME NEW S, NEW n \in Nat, NEW f \in [1 .. n -> S]
    PROVE  f \in Seq(S)
  OBVIOUS

LEMMA ChecksOfARun ==
    /\ Len(Checks) \in Nat
    /\ Len(Checks) > 0
    /\ DOMAIN Checks = 1 .. Len(Checks)
    /\ Names = ToSet(Checks)
    /\ Checks \in Seq(Names)
    /\ \A i \in 1 .. Len(Checks) : Checks[i] \in Names
    /\ \A c \in Names : \E i \in 1 .. Len(Checks) : Checks[i] = c
    /\ \A i, j \in 1 .. Len(Checks) : Checks[i] = Checks[j] => i = j
    /\ {"jobtrail_api", "jobspy_search", "hermes_provider"} \subseteq Names
    /\ Names \subseteq {"jobtrail_api", "jobspy_search", "hermes_provider", "whatsapp"}
<1>. DEFINE always == <<"jobtrail_api", "jobspy_search", "hermes_provider">>
            all == {"jobtrail_api", "jobspy_search", "hermes_provider", "whatsapp"}
<1>1. /\ always \in Seq(all) /\ Len(always) = 3
      /\ always[1] = "jobtrail_api"
      /\ always[2] = "jobspy_search"
      /\ always[3] = "hermes_provider"
  OBVIOUS
<1>2. CASE NotifyEnabled
  <2>1. Checks = always \o <<"whatsapp">>
    BY <1>2 DEF Checks
  <2>. HIDE DEF always
  <2>2. /\ Checks \in Seq(all) /\ Len(Checks) = Len(always) + 1
        /\ Checks[Len(always) + 1] = "whatsapp"
        /\ \A i \in 1 .. Len(always) : Checks[i] = always[i]
    BY <1>1, <2>1, OneMore
  <2>3. /\ Checks \in Seq(all) /\ Len(Checks) = 4
        /\ Checks[1] = "jobtrail_api"
        /\ Checks[2] = "jobspy_search"
        /\ Checks[3] = "hermes_provider"
        /\ Checks[4] = "whatsapp"
    BY <1>1, <2>2
  <2>4. DOMAIN Checks = 1 .. 4
    BY <2>3
  <2>5. Names = all
    BY <2>3, <2>4 DEF Names
  <2>. QED  BY <2>3, <2>4, <2>5 DEF Names, ToSet
<1>3. CASE ~NotifyEnabled
  <2>1. Checks = always \o <<>>
    BY <1>3 DEF Checks
  <2>. HIDE DEF always
  <2>2. Checks = always
    BY <1>1, <2>1
  <2>3. DOMAIN Checks = 1 .. 3
    BY <1>1, <2>2
  <2>4. Names = {"jobtrail_api", "jobspy_search", "hermes_provider"}
    BY <1>1, <2>2, <2>3 DEF Names
  <2>5. Checks \in Seq(Names)
    <3>1. Checks \in [1 .. 3 -> all]
      BY <1>1, <2>2, <2>3
    <3>2. \A i \in 1 .. 3 : Checks[i] \in Names
      BY <1>1, <2>2, <2>4
    <3>3. Checks \in [1 .. 3 -> Names]
      BY <3>1, <3>2
    <3>. QED  BY <3>3, ListOf
  <2>6. \A i, j \in 1 .. 3 : Checks[i] = Checks[j] => i = j
    BY <1>1, <2>2
  <2>7. \A c \in Names : \E i \in 1 .. 3 : Checks[i] = c
    BY <2>3 DEF Names
  <2>8. Names = ToSet(Checks)
    BY DEF Names, ToSet
  <2>9. Len(Checks) = 3
    BY <1>1, <2>2
  <2>10. \A i \in 1 .. 3 : Checks[i] \in Names
    BY <2>3 DEF Names
  <2>. QED  BY <2>3, <2>4, <2>5, <2>6, <2>7, <2>8, <2>9, <2>10
<1>. QED  BY <1>2, <1>3

LEMMA LimitIsTime == \A c : Limit(c) \in Nat /\ Limit(c) > 0
  BY PreflightConfigOK DEF Limit

\* The pool has a thread for each probe: while one is queued, one can start.
LEMMA NoneWaitsForAThread ==
    ASSUME \A i \in DOMAIN Checks : ~CanStart(i)
    PROVE  \A c \in Names : probe[c] # "queued"
<1>. SUFFICES ASSUME NEW c \in Names, probe[c] = "queued" PROVE FALSE
  OBVIOUS
<1>. DEFINE queued == {i \in 1 .. Len(Checks) : probe[Checks[i]] = "queued"}
            running == {d \in Names : Running(d)}
<1>1. queued \subseteq 1 .. Len(Checks) /\ queued # {}
  BY ChecksOfARun
<1>2. PICK i \in queued : \A j \in queued : i <= j
  <2>. HIDE DEF queued
  <2>. QED  BY <1>1, ChecksOfARun, HasLeast
<1>3. i \in 1 .. Len(Checks) /\ probe[Checks[i]] = "queued"
  OBVIOUS
<1>4. \A j \in 1 .. i - 1 : probe[Checks[j]] # "queued"
  <2>. SUFFICES ASSUME NEW j \in 1 .. i - 1, probe[Checks[j]] = "queued" PROVE FALSE
    OBVIOUS
  <2>1. j \in 1 .. Len(Checks) /\ j < i
    BY <1>3, ChecksOfARun
  <2>. QED  BY <1>2, <2>1
<1>5. Checks[i] \in Names /\ Checks[i] \notin running
  BY <1>3, ChecksOfARun DEF Running
<1>6. running \in SUBSET Names /\ running # Names
  BY <1>5
<1>7. Checks \in Seq(Names)
  BY ChecksOfARun
<1>8. IsFiniteSet(Names) /\ Cardinality(Names) \in Nat /\ Cardinality(Names) <= Len(Checks)
  BY <1>7, ChecksOfARun, FewMembers
<1>9. IsFiniteSet(running) /\ Cardinality(running) <= Cardinality(Names)
      /\ Cardinality(running) # Cardinality(Names)
  <2>. HIDE DEF running
  <2>. QED  BY <1>6, <1>8, FS_Subset
<1>10. Cardinality(running) \in Nat
  BY <1>9, FS_CardinalityType
<1>11. MaxWorkers = Len(Checks)
  BY ChecksOfARun DEF MaxWorkers
<1>12. Cardinality(running) < MaxWorkers
  <2>. HIDE DEF running
  <2>. QED  BY <1>8, <1>9, <1>10, <1>11, ChecksOfARun
<1>13. CanStart(i)
  BY <1>3, <1>4, <1>12 DEF CanStart
<1>. QED  BY <1>3, <1>13, ChecksOfARun

\* The time of a wait is time in which the probe awaited has run, so that the
\* limit cannot be reached before the probe has had all of its own.
ProbeInv ==
    /\ probe \in [Names -> Answers \cup {"queued", "running", "again"}]
    /\ next \in 1 .. Len(Checks) + 1
    /\ waited \in Nat
    /\ ran \in [Names -> Nat]
    /\ report \in [Names -> {"none", "healthy", "degraded", "unavailable"}]
    /\ verdict \in {"none", "abort", "pass"}
    /\ \A c \in Names : ran[c] <= Limit(c)
    /\ next <= Len(Checks) => waited <= ran[Checks[next]]
    /\ \A i \in 1 .. next - 1 : report[Checks[i]] # "none"
    /\ \A c \in Names :
          report[c] \in {"healthy", "degraded"} => probe[c] \in {"ok", "rejected"}
    /\ verdict # "none" => next > Len(Checks)
    /\ VerdictOnEvidence

LEMMA ProbeInit == CollectionInit => ProbeInv
  BY ChecksOfARun, LimitIsTime
     DEF CollectionInit, PreflightInit, ProbeInv, VerdictOnEvidence, Answers

\* The threads.
LEMMA ThreadStep ==
    ASSUME ProbeInv, Threads
    PROVE  ProbeInv'
<1>1. UNCHANGED <<next, waited, ran, report, verdict>>
  BY DEF Threads, StartProbe, AskAgain, ProbeEnds
<1>2. probe' \in [Names -> Answers \cup {"queued", "running", "again"}]
  <2>1. ASSUME NEW i \in DOMAIN Checks, StartProbe(i)
        PROVE  probe' \in [Names -> Answers \cup {"queued", "running", "again"}]
    BY <2>1 DEF StartProbe, ProbeInv
  <2>2. CASE AskAgain
    BY <2>2 DEF AskAgain, ProbeInv
  <2>3. ASSUME NEW c \in Names, ProbeEnds(c)
        PROVE  probe' \in [Names -> Answers \cup {"queued", "running", "again"}]
    BY <2>3 DEF ProbeEnds, ProbeInv, AnswersOf
  <2>. QED  BY <2>1, <2>2, <2>3 DEF Threads
\* An answer, once given, is never taken back.
<1>3. \A c \in Names : probe[c] \in Answers => probe'[c] = probe[c]
  <2>. SUFFICES ASSUME NEW c \in Names, probe[c] \in Answers PROVE probe'[c] = probe[c]
    OBVIOUS
  <2>1. probe[c] \notin {"queued", "running", "again"}
    BY DEF Answers
  <2>2. ASSUME NEW i \in DOMAIN Checks, StartProbe(i) PROVE probe'[c] = probe[c]
    BY <2>1, <2>2 DEF StartProbe, CanStart, ProbeInv
  <2>3. CASE AskAgain
    BY <2>1, <2>3 DEF AskAgain, ProbeInv
  <2>4. ASSUME NEW d \in Names, ProbeEnds(d) PROVE probe'[c] = probe[c]
    BY <2>1, <2>4 DEF ProbeEnds, Running, ProbeInv
  <2>. QED  BY <2>2, <2>3, <2>4 DEF Threads
<1>4. VerdictOnEvidence'
  BY <1>1, <1>3 DEF VerdictOnEvidence, ProbeInv, Answers
<1>. QED  BY <1>1, <1>2, <1>3, <1>4 DEF ProbeInv, Answers

\* What is noted of the check awaited.
LEMMA CollectsStep ==
    ASSUME ProbeInv, Waiting, NEW status \in {"healthy", "degraded", "unavailable"},
           Collects(status),
           status \in {"healthy", "degraded"} => probe[Checks[next]] \in {"ok", "rejected"},
           status = "unavailable" =>
               probe[Checks[next]] = "outage" \/ ran[Checks[next]] = Limit(Checks[next])
    PROVE  ProbeInv'
<1>1. next \in 1 .. Len(Checks) /\ Checks[next] \in Names /\ verdict = "none"
  BY ChecksOfARun DEF Waiting, ProbeInv
<1>2. /\ report' = [report EXCEPT ![Checks[next]] = status]
      /\ next' = next + 1 /\ waited' = 0
      /\ UNCHANGED <<probe, ran, verdict>>
  BY DEF Collects
<1>3. report' \in [Names -> {"none", "healthy", "degraded", "unavailable"}]
  BY <1>2 DEF ProbeInv
<1>4. report'[Checks[next]] = status
      /\ \A c \in Names : c # Checks[next] => report'[c] = report[c]
  BY <1>1, <1>2 DEF ProbeInv
<1>5. next' \in 1 .. Len(Checks) + 1
  BY <1>1, <1>2, ChecksOfARun
<1>6. \A i \in 1 .. next' - 1 : report'[Checks[i]] # "none"
  <2>. SUFFICES ASSUME NEW i \in 1 .. next PROVE report'[Checks[i]] # "none"
    BY <1>1, <1>2
  <2>1. CASE i = next
    BY <1>4, <2>1
  <2>2. CASE i # next
    <3>1. i \in 1 .. next - 1 /\ i \in 1 .. Len(Checks)
      BY <1>1, <2>2, ChecksOfARun
    <3>2. report[Checks[i]] # "none" /\ Checks[i] \in Names
      BY <3>1, ChecksOfARun DEF ProbeInv
    <3>3. Checks[i] # Checks[next]
      BY <1>1, <2>2, <3>1, ChecksOfARun
    <3>. QED  BY <1>4, <3>2, <3>3
  <2>. QED  BY <2>1, <2>2
<1>7. next' <= Len(Checks) => waited' <= ran'[Checks[next']]
  <2>. SUFFICES ASSUME next' <= Len(Checks) PROVE 0 <= ran[Checks[next']]
    BY <1>2
  <2>1. next' \in 1 .. Len(Checks)
    BY <1>5, ChecksOfARun
  <2>2. Checks[next'] \in Names
    BY <2>1, ChecksOfARun
  <2>. QED  BY <2>2 DEF ProbeInv
<1>8. \A c \in Names :
          /\ report'[c] \in {"healthy", "degraded"} => probe[c] \in {"ok", "rejected"}
          /\ report'[c] = "unavailable" => probe[c] = "outage" \/ ran[c] = Limit(c)
  BY <1>4 DEF ProbeInv, VerdictOnEvidence
<1>9. VerdictOnEvidence'
  BY <1>1, <1>2, <1>8 DEF VerdictOnEvidence
<1>. QED  BY <1>1, <1>2, <1>3, <1>5, <1>6, <1>7, <1>8, <1>9 DEF ProbeInv

LEMMA WaitStep ==
    ASSUME ProbeInv, WaitOn
    PROVE  ProbeInv'
<1>. DEFINE awaited == Checks[next]
<1>1. next \in 1 .. Len(Checks) /\ awaited \in Names /\ verdict = "none"
  BY ChecksOfARun DEF WaitOn, Waiting, ProbeInv
<1>2. /\ waited' = waited + 1 /\ waited < Limit(awaited)
      /\ ran' = [c \in Names |-> IF Running(c) /\ ran[c] < Limit(c) THEN ran[c] + 1 ELSE ran[c]]
      /\ UNCHANGED <<probe, next, report, verdict>>
  BY DEF WaitOn
<1>3. Running(awaited)
  <2>1. probe[awaited] # "queued"
    BY <1>1, NoneWaitsForAThread DEF WaitOn
  <2>2. ~Answered(awaited)
    BY DEF WaitOn
  <2>. QED  BY <1>1, <2>1, <2>2 DEF Running, Answered, ProbeInv
<1>4. waited <= ran[awaited] /\ waited \in Nat /\ \A c \in Names : ran[c] \in Nat /\ ran[c] <= Limit(c)
  BY <1>1, ChecksOfARun DEF ProbeInv
<1>5. /\ ran' \in [Names -> Nat]
      /\ \A c \in Names : ran'[c] <= Limit(c) /\ (ran[c] = Limit(c) => ran'[c] = ran[c])
  BY <1>2, <1>4, LimitIsTime
<1>6. ran'[awaited] = IF ran[awaited] < Limit(awaited) THEN ran[awaited] + 1 ELSE ran[awaited]
  BY <1>1, <1>2, <1>3
<1>7. waited' <= ran'[awaited]
  <2>1. ran[awaited] \in Nat /\ Limit(awaited) \in Nat
    BY <1>1, <1>4, LimitIsTime
  <2>. HIDE DEF awaited
  <2>. QED  BY <1>2, <1>4, <1>6, <2>1
<1>8. VerdictOnEvidence'
  BY <1>2, <1>5 DEF VerdictOnEvidence, ProbeInv
<1>. QED  BY <1>1, <1>2, <1>4, <1>5, <1>7, <1>8 DEF ProbeInv

LEMMA ConcludeStep ==
    ASSUME ProbeInv, Conclude
    PROVE  ProbeInv'
<1>1. /\ verdict = "none" /\ next > Len(Checks)
      /\ verdict' = IF ShouldAbort THEN "abort" ELSE "pass"
      /\ UNCHANGED <<probe, next, waited, ran, report>>
  BY DEF Conclude
<1>2. next = Len(Checks) + 1
  BY <1>1, ChecksOfARun DEF ProbeInv
<1>3. \A c \in Names : report[c] # "none"
  BY <1>2, ChecksOfARun DEF ProbeInv
<1>4. ShouldAbort => \E c \in Names : c # "whatsapp" /\ report[c] = "unavailable"
  BY DEF ShouldAbort, Required
<1>5. ~ShouldAbort => \A c \in Names : c = "whatsapp" \/ probe[c] \in {"ok", "rejected"}
  BY <1>3 DEF ShouldAbort, Required, ProbeInv
<1>6. VerdictOnEvidence'
  BY <1>1, <1>4, <1>5 DEF VerdictOnEvidence, ProbeInv
<1>. QED  BY <1>1, <1>6 DEF ProbeInv

LEMMA ProbeStep == ProbeInv /\ [CollectionNext]_collection => ProbeInv'
<1>. SUFFICES ASSUME ProbeInv, [CollectionNext]_collection PROVE ProbeInv'
  OBVIOUS
<1>1. CASE Threads
  BY <1>1, ThreadStep
<1>2. CASE Collect
  <2>1. Waiting /\ Answered(Checks[next]) /\ Collects(Status(probe[Checks[next]]))
    BY <1>2 DEF Collect
  <2>2. CASE probe[Checks[next]] = "outage"
    BY <2>1, <2>2, CollectsStep DEF Status
  <2>3. CASE probe[Checks[next]] \in {"ok", "rejected"}
    BY <2>1, <2>3, CollectsStep DEF Status
  <2>. QED  BY <2>1, <2>2, <2>3 DEF Answered, Answers
<1>3. CASE TimesOut
  <2>1. Waiting /\ waited = Limit(Checks[next]) /\ Collects("unavailable")
    BY <1>3 DEF TimesOut
  <2>2. next \in 1 .. Len(Checks) /\ Checks[next] \in Names
    BY <2>1, ChecksOfARun DEF Waiting, ProbeInv
  <2>3. waited <= ran[Checks[next]] /\ ran[Checks[next]] <= Limit(Checks[next])
        /\ ran[Checks[next]] \in Nat /\ waited \in Nat
    BY <2>2, ChecksOfARun DEF ProbeInv
  <2>4. ran[Checks[next]] = Limit(Checks[next])
    BY <2>1, <2>3
  <2>. QED  BY <2>1, <2>4, CollectsStep
<1>4. CASE WaitOn
  BY <1>4, WaitStep
<1>5. CASE Conclude
  BY <1>5, ConcludeStep
<1>6. CASE UNCHANGED preflight
  BY <1>6 DEF preflight, ProbeInv, VerdictOnEvidence
<1>7. \/ Threads \/ Collect \/ TimesOut \/ WaitOn \/ Conclude \/ UNCHANGED preflight
  BY DEF CollectionNext, PoolRuns, Checking, RunPreflight, Collecting, Exit, Ended, collection
<1>. QED  BY <1>1, <1>2, <1>3, <1>4, <1>5, <1>6, <1>7

\* A service is reported down on evidence only, and a run is given up, or goes
\* ahead, on what the probes of the services it needs have shown, for any limits
\* (run_preflight, PreflightReport.should_abort).
THEOREM VerdictsHaveEvidence == CollectionSpec => []VerdictOnEvidence
<1>1. ProbeInv => VerdictOnEvidence
  BY DEF ProbeInv
<1>. QED  BY <1>1, ProbeInit, ProbeStep, PTL DEF CollectionSpec

-----------------------------------------------------------------------------
(* The searches.                                                            *)

\* A run has finitely many calls of search to make.
LEMMA SearchesListed ==
    /\ Len(Searches) \in Nat
    /\ DOMAIN Searches = 1 .. Len(Searches)
<1>. DEFINE pairs == (DOMAIN Configured) \X ProfileNumbers
            callsOf == [pair \in pairs |->
                {<<pair[1], pair[2], n>> : n \in 1 .. RequestsFor(Configured[pair[1]], pair[2])}]
<1>1. IsFiniteSet(DOMAIN Configured)
  <2>1. DOMAIN Configured = 1 .. Len(Configured) /\ Len(Configured) \in Nat
    BY SourcesConfigOK
  <2>. QED  BY <2>1, FS_Interval
<1>2. IsFiniteSet(ProfileNumbers)
  <2>1. DOMAIN Profiles = 1 .. Len(Profiles) /\ Len(Profiles) \in Nat
    BY SourcesConfigOK
  <2>2. IsFiniteSet(DOMAIN Profiles)
    BY <2>1, FS_Interval
  <2>3. IsFiniteSet({0})
    BY FS_Singleton
  <2>. QED  BY <2>2, <2>3 DEF ProfileNumbers
<1>3. IsFiniteSet(pairs)
  BY <1>1, <1>2, FS_Product
<1>4. ASSUME NEW pair \in pairs
      PROVE  IsFiniteSet(callsOf[pair])
  <2>. DEFINE m == RequestsFor(Configured[pair[1]], pair[2])
              call == [n \in 1 .. m |-> <<pair[1], pair[2], n>>]
  <2>1. m \in Nat
    <3>1. pair[2] \in ProfileNumbers
      BY <1>4
    <3>2. pair[2] = 0 \/ Profiles[pair[2]] \in Nat
      BY <3>1, SourcesConfigOK DEF ProfileNumbers
    <3>. QED  BY <3>2, SourcesConfigOK DEF RequestsFor
  <2>. HIDE DEF m
  <2>2. IsFiniteSet(1 .. m) /\ DOMAIN call = 1 .. m
    BY <2>1, FS_Interval
  <2>3. IsFiniteSet({call[n] : n \in 1 .. m})
    <3>. HIDE DEF call
    <3>. QED  BY <2>2, FiniteImage
  <2>4. callsOf[pair] = {call[n] : n \in 1 .. m}
    BY DEF m
  <2>. QED  BY <2>3, <2>4
<1>5. Calls = UNION {callsOf[pair] : pair \in pairs}
  BY DEF Calls
<1>6. DOMAIN callsOf = pairs
  OBVIOUS
<1>. HIDE DEF callsOf
<1>7. IsFiniteSet({callsOf[pair] : pair \in pairs})
  <2>. HIDE DEF pairs
  <2>. QED  BY <1>3, <1>6, FiniteImage
<1>8. IsFiniteSet(Calls)
  BY <1>4, <1>5, <1>7, FS_UNION
<1>9. Cardinality(Calls) \in Nat
  BY <1>8, FS_CardinalityType
<1>. DEFINE n == Cardinality(Calls)
<1>10. DOMAIN Searches = 1 .. n
  BY DEF Searches
<1>. HIDE DEF n
<1>11. Len(Searches) = n
  BY <1>9, <1>10 DEF n, Searches
<1>. QED  BY <1>9, <1>10, <1>11 DEF n

Places == Nat \X Nat

InRowOrder(s) == \A i, j \in DOMAIN s : i < j => Precedes(s[i], s[j])

\* Rows in order are all different.
LEMMA OrderedRows ==
    ASSUME NEW s \in Seq(Places), InRowOrder(s)
    PROVE  Cardinality(ToSet(s)) = Len(s)
<1>1. Len(s) \in Nat /\ DOMAIN s = 1 .. Len(s) /\ s \in [1 .. Len(s) -> Places]
  OBVIOUS
<1>2. \A e : e \in ToSet(s) <=> \E k \in 1 .. Len(s) : s[k] = e
  BY <1>1, InSequence
<1>3. \A i, j \in 1 .. Len(s) : s[i] = s[j] => i = j
  <2>. SUFFICES ASSUME NEW i \in 1 .. Len(s), NEW j \in 1 .. Len(s), i # j, s[i] = s[j]
                PROVE  FALSE
    OBVIOUS
  <2>1. Precedes(s[i], s[j]) \/ Precedes(s[j], s[i])
    BY <1>1 DEF InRowOrder
  <2>2. s[i][1] \in Nat /\ s[i][2] \in Nat
    BY <1>1 DEF Places
  <2>. QED  BY <2>1, <2>2 DEF Precedes
<1>4. s \in Bijection(1 .. Len(s), ToSet(s))
  BY <1>1, <1>2, <1>3 DEF Bijection, Injection, IsInjective, Surjection
<1>5. IsFiniteSet(1 .. Len(s)) /\ Cardinality(1 .. Len(s)) = Len(s)
  BY <1>1, FS_Interval
<1>6. ExistsBijection(1 .. Len(s), ToSet(s))
  BY <1>4 DEF ExistsBijection
<1>. QED  BY <1>5, <1>6, FS_Bijection

LEMMA RowsJoined ==
    ASSUME NEW s \in Seq(Places), InRowOrder(s), NEW t \in Seq(Places), InRowOrder(t),
           \A p \in ToSet(s), q \in ToSet(t) : Precedes(p, q)
    PROVE  /\ s \o t \in Seq(Places)
           /\ InRowOrder(s \o t)
           /\ ToSet(s \o t) = ToSet(s) \cup ToSet(t)
<1>. DEFINE both == s \o t
<1>1. /\ both \in Seq(Places)
      /\ Len(both) = Len(s) + Len(t)
      /\ \A i \in 1 .. Len(s) : both[i] = s[i]
      /\ \A i \in 1 .. Len(t) : both[Len(s) + i] = t[i]
  OBVIOUS
<1>. HIDE DEF both
<1>2. /\ Len(s) \in Nat /\ DOMAIN s = 1 .. Len(s)
      /\ Len(t) \in Nat /\ DOMAIN t = 1 .. Len(t)
      /\ DOMAIN both = 1 .. Len(both)
  BY <1>1
<1>3. \A i \in DOMAIN both :
          \/ i \in DOMAIN s /\ both[i] = s[i]
          \/ i - Len(s) \in DOMAIN t /\ i \notin DOMAIN s /\ both[i] = t[i - Len(s)]
  <2>. TAKE i \in DOMAIN both
  <2>1. i \in Int /\ 1 <= i /\ i <= Len(s) + Len(t)
    BY <1>1, <1>2
  <2>2. CASE i <= Len(s)
    BY <1>1, <1>2, <2>1, <2>2
  <2>3. CASE i > Len(s)
    <3>1. i - Len(s) \in 1 .. Len(t)
      BY <1>2, <2>1, <2>3
    <3>2. both[Len(s) + (i - Len(s))] = t[i - Len(s)]
      BY <1>1, <3>1
    <3>3. Len(s) + (i - Len(s)) = i
      BY <1>2, <2>1
    <3>4. i \notin DOMAIN s
      BY <1>2, <2>1, <2>3
    <3>. QED  BY <1>2, <3>1, <3>2, <3>3, <3>4
  <2>. QED  BY <1>2, <2>1, <2>2, <2>3
<1>4. /\ \A e : e \in ToSet(s) <=> \E k \in DOMAIN s : s[k] = e
      /\ \A e : e \in ToSet(t) <=> \E k \in DOMAIN t : t[k] = e
      /\ \A e : e \in ToSet(both) <=> \E k \in DOMAIN both : both[k] = e
  BY <1>1, InSequence
<1>5. ToSet(both) = ToSet(s) \cup ToSet(t)
  <2>1. \A e \in ToSet(both) : e \in ToSet(s) \cup ToSet(t)
    BY <1>3, <1>4
  <2>2. \A k \in DOMAIN s : k \in DOMAIN both /\ both[k] = s[k]
    BY <1>1, <1>2
  <2>3. \A k \in DOMAIN t : Len(s) + k \in DOMAIN both /\ both[Len(s) + k] = t[k]
    BY <1>1, <1>2
  <2>4. \A e \in ToSet(s) \cup ToSet(t) : e \in ToSet(both)
    BY <1>4, <2>2, <2>3
  <2>. QED  BY <2>1, <2>4
<1>6. ASSUME NEW i \in DOMAIN both, NEW j \in DOMAIN both, i < j
      PROVE  Precedes(both[i], both[j])
  <2>1. CASE i \in DOMAIN s /\ j \in DOMAIN s
    BY <1>2, <1>3, <1>6, <2>1 DEF InRowOrder
  <2>2. CASE i \in DOMAIN s /\ j \notin DOMAIN s
    BY <1>3, <1>4, <2>2
  <2>3. CASE i \notin DOMAIN s
    <3>1. i - Len(s) \in DOMAIN t /\ both[i] = t[i - Len(s)]
      BY <1>3, <2>3
    <3>2. j \notin DOMAIN s
      BY <1>2, <1>6, <2>3
    <3>3. j - Len(s) \in DOMAIN t /\ both[j] = t[j - Len(s)]
      BY <1>3, <3>2
    <3>4. i - Len(s) < j - Len(s)
      BY <1>2, <1>6
    <3>. QED  BY <3>1, <3>3, <3>4 DEF InRowOrder
  <2>. QED  BY <2>1, <2>2, <2>3
<1>7. InRowOrder(both)
  BY <1>6 DEF InRowOrder
<1>. QED  BY <1>1, <1>5, <1>7 DEF both

LEMMA RowsCut ==
    ASSUME NEW s \in Seq(Places), InRowOrder(s), NEW n \in Nat, n <= Len(s)
    PROVE  LET first == SubSeq(s, 1, n)
           IN  /\ first \in Seq(Places)
               /\ Len(first) = n
               /\ InRowOrder(first)
               /\ ToSet(first) \subseteq ToSet(s)
               /\ \A p \in ToSet(first), q \in ToSet(s) \ ToSet(first) : Precedes(p, q)
<1>. DEFINE first == SubSeq(s, 1, n)
<1>1. /\ first \in Seq(Places) /\ Len(first) = n
      /\ \A i \in 1 .. n : first[i] = s[i]
  OBVIOUS
<1>. HIDE DEF first
<1>2. /\ Len(s) \in Nat /\ DOMAIN s = 1 .. Len(s)
      /\ DOMAIN first = 1 .. n
      /\ \A i \in 1 .. n : i \in DOMAIN s
  BY <1>1
<1>3. /\ \A e : e \in ToSet(s) <=> \E k \in DOMAIN s : s[k] = e
      /\ \A e : e \in ToSet(first) <=> \E k \in 1 .. n : first[k] = e
  BY <1>1, <1>2, InSequence
<1>4. InRowOrder(first)
  BY <1>1, <1>2 DEF InRowOrder
<1>5. ToSet(first) \subseteq ToSet(s)
  BY <1>1, <1>2, <1>3
<1>6. ASSUME NEW p \in ToSet(first), NEW q \in ToSet(s) \ ToSet(first)
      PROVE  Precedes(p, q)
  <2>1. PICK i \in 1 .. n : s[i] = p
    BY <1>1, <1>3
  <2>2. PICK j \in DOMAIN s : s[j] = q
    BY <1>3
  <2>3. j \notin 1 .. n
    BY <1>1, <1>3, <2>2
  <2>4. i < j
    BY <1>2, <2>3
  <2>. QED  BY <1>2, <2>1, <2>2, <2>4 DEF InRowOrder
<1>. QED  BY <1>1, <1>4, <1>5, <1>6 DEF first

Bodies == Pages \cup {<<>>}

LEMMA BodyIsRows == \A page \in Bodies : page \in Seq(Rows)
<1>1. \A page \in Pages : page \in Seq(Rows)
  BY SourcesConfigOK
<1>2. <<>> \in Seq(Rows)
  OBVIOUS
<1>. QED  BY <1>1, <1>2 DEF Bodies

\* The rows of one page that name a job.
NewRows(adapter, board, page) ==
    {<<board, i>> : i \in {k \in DOMAIN page : Keeps(adapter, page[k])}}

LEMMA GoodAre ==
    ASSUME NEW adapter, NEW pages \in Seq(Bodies), NEW p
    PROVE  p \in Good(adapter, pages) <=>
              \E b \in DOMAIN pages : p \in NewRows(adapter, b, pages[b])
<1>. DEFINE rowsOf(b) == {<<b, i>> : i \in
               {k \in DOMAIN pages[b] :
                   pages[b][k] \in
                       (IF IsATS(adapter) THEN {"job"} ELSE {"job", "idless"})}}
<1>1. ASSUME NEW b \in DOMAIN pages
      PROVE  rowsOf(b) = NewRows(adapter, b, pages[b])
  BY DEF NewRows, Keeps
<1>2. Good(adapter, pages) = UNION {rowsOf(b) : b \in DOMAIN pages}
  BY DEF Good
<1>. HIDE DEF rowsOf
<1>. QED  BY <1>1, <1>2

LEMMA GoodGrows ==
    ASSUME NEW adapter, NEW pages \in Seq(Bodies), NEW page \in Bodies
    PROVE  Good(adapter, Append(pages, page)) =
              Good(adapter, pages) \cup NewRows(adapter, Len(pages) + 1, page)
<1>. DEFINE more == Append(pages, page)
            b == Len(pages) + 1
<1>1. /\ more \in Seq(Bodies) /\ more[b] = page /\ b \in DOMAIN more
      /\ \A c \in DOMAIN pages : c \in DOMAIN more /\ more[c] = pages[c]
      /\ \A c \in DOMAIN more : c = b \/ c \in DOMAIN pages
  OBVIOUS
<1>. HIDE DEF more, b
<1>2. \A p : p \in Good(adapter, more) <=>
              \E c \in DOMAIN more : p \in NewRows(adapter, c, more[c])
  BY <1>1, GoodAre
<1>3. \A p : p \in Good(adapter, pages) <=>
              \E c \in DOMAIN pages : p \in NewRows(adapter, c, pages[c])
  BY GoodAre
<1>4. \A p : p \in Good(adapter, more) <=>
              p \in Good(adapter, pages) \/ p \in NewRows(adapter, b, page)
  BY <1>1, <1>2, <1>3
<1>. QED  BY <1>4 DEF more, b

LEMMA NoneGood == \A adapter : Good(adapter, <<>>) = {}
  BY DEF Good

\* Boards are asked one after the other.
LEMMA GoodAreEarlier ==
    ASSUME NEW adapter, NEW pages \in Seq(Bodies), NEW page \in Bodies
    PROVE  \A p \in Good(adapter, pages), q \in NewRows(adapter, Len(pages) + 1, page) :
              Precedes(p, q)
<1>. SUFFICES ASSUME NEW p \in Good(adapter, pages),
                     NEW q \in NewRows(adapter, Len(pages) + 1, page)
              PROVE  p[1] < q[1]
  BY DEF Precedes
<1>1. PICK b \in DOMAIN pages : p \in NewRows(adapter, b, pages[b])
  BY GoodAre
<1>2. p[1] = b /\ q[1] = Len(pages) + 1
  BY <1>1 DEF NewRows
<1>3. b \in 1 .. Len(pages) /\ Len(pages) \in Nat
  OBVIOUS
<1>. QED  BY <1>2, <1>3

LEMMA KeptAre ==
    ASSUME NEW adapter, NEW board \in Nat, NEW page \in Bodies
    PROVE  /\ Kept(adapter, board, page) \in Seq(Places)
           /\ InRowOrder(Kept(adapter, board, page))
           /\ ToSet(Kept(adapter, board, page)) = NewRows(adapter, board, page)
<1>. DEFINE numbers == {i \in DOMAIN page : Keeps(adapter, page[i])}
            m == Cardinality(numbers)
            order == Ascending(numbers)
            kept == Kept(adapter, board, page)
<1>1. page \in Seq(Rows) /\ Len(page) \in Nat /\ DOMAIN page = 1 .. Len(page)
  BY BodyIsRows
<1>2. numbers \subseteq 1 .. Len(page)
  BY <1>1
<1>3. kept = [k \in 1 .. m |-> <<board, order[k]>>]
  BY DEF Kept
<1>4. NewRows(adapter, board, page) = {<<board, i>> : i \in numbers}
  BY DEF NewRows
<1>. HIDE DEF kept, numbers
<1>5. /\ m \in Nat
      /\ order \in [1 .. m -> numbers]
      /\ \A i, j \in 1 .. m : i < j => order[i] < order[j]
      /\ \A x \in numbers : \E k \in 1 .. m : order[k] = x
  BY <1>1, <1>2, Ascends
<1>. HIDE DEF m, order
<1>6. \A k \in 1 .. m : order[k] \in numbers /\ order[k] \in Nat
  <2>. TAKE k \in 1 .. m
  <2>1. order[k] \in numbers
    BY <1>5
  <2>2. order[k] \in 1 .. Len(page)
    BY <1>2, <2>1
  <2>. QED  BY <2>1, <2>2
<1>7. kept \in [1 .. m -> Places]
  BY <1>3, <1>6 DEF Places
<1>8. kept \in Seq(Places) /\ DOMAIN kept = 1 .. m
  BY <1>5, <1>7, ListOf
<1>9. InRowOrder(kept)
  BY <1>3, <1>5, <1>8 DEF InRowOrder, Precedes
<1>10. \A e : e \in ToSet(kept) <=> \E k \in 1 .. m : kept[k] = e
  BY <1>8, InSequence
<1>11. \A e : e \in ToSet(kept) <=> \E i \in numbers : e = <<board, i>>
  BY <1>3, <1>5, <1>6, <1>10
<1>12. ToSet(kept) = NewRows(adapter, board, page)
  BY <1>4, <1>11
<1>. QED  BY <1>8, <1>9, <1>12 DEF kept

\* What is right of the rows of a search while it runs: what has been cut off
\* comes last, and an ATS search that has cut off something asks no more.
ExactRows(adapter, rows, pages) ==
    /\ InRowOrder(rows)
    /\ ToSet(rows) \subseteq Good(adapter, pages)
    /\ IsATS(adapter) => Len(rows) <= Cap
    /\ \/ ToSet(rows) = Good(adapter, pages)
       \/ /\ IsATS(adapter)
          /\ Len(rows) = Cap
          /\ \A p \in ToSet(rows), q \in Good(adapter, pages) \ ToSet(rows) : Precedes(p, q)
    /\ IsATS(adapter) =>
          \A n \in 0 .. Len(pages) - 1 : Cardinality(Good(adapter, SubSeq(pages, 1, n))) < Cap

SearchInv ==
    /\ search \in 1 .. Len(Searches) + 1
    /\ step \in {"ask", "returned"}
    /\ step = "returned" => search <= Len(Searches)
    /\ jobs \in Seq(Places)
    /\ answered \in Seq(Bodies)
    /\ DOMAIN result = DOMAIN Searches
    /\ ExactRows(Adapter, jobs, answered)
    /\ step = "returned" /\ result[search] = "jobs" /\ Len(answered) < Boards(Adapter) =>
          IsATS(Adapter) /\ Len(jobs) = Cap

LEMMA CapIsCount == Cap \in Nat /\ \A adapter : Boards(adapter) \in Nat \ {0}
  BY SourcesConfigOK DEF Cap, Boards

LEMMA NothingRead ==
    ASSUME NEW adapter
    PROVE  ExactRows(adapter, <<>>, <<>>)
<1>1. ToSet(<<>>) = {} /\ Good(adapter, <<>>) = {}
  BY NoneInEmpty, NoneGood
<1>2. 0 .. Len(<<>>) - 1 = {}
  OBVIOUS
<1>3. InRowOrder(<<>>)
  BY DEF InRowOrder
<1>4. Len(<<>>) <= Cap
  BY CapIsCount
<1>. QED  BY <1>1, <1>2, <1>3, <1>4 DEF ExactRows

LEMMA SearchInit == CollectionInit => SearchInv
<1>. SUFFICES ASSUME CollectionInit PROVE SearchInv
  OBVIOUS
<1>1. /\ search = 1 /\ step = "ask" /\ jobs = <<>> /\ answered = <<>>
      /\ result = [s \in DOMAIN Searches |-> "none"]
  BY DEF CollectionInit, SourcesInit
<1>. QED  BY <1>1, NothingRead, SearchesListed DEF SearchInv

\* As long as a search asks on, it has cut off nothing.
LEMMA AskingHasAll ==
    ASSUME SearchInv, Asking
    PROVE  /\ ToSet(jobs) = Good(Adapter, answered)
           /\ IsATS(Adapter) =>
                 \A n \in 0 .. Len(answered) :
                     Cardinality(Good(Adapter, SubSeq(answered, 1, n))) < Cap
<1>1. /\ jobs \in Seq(Places) /\ InRowOrder(jobs) /\ Len(jobs) \in Nat
      /\ answered \in Seq(Bodies) /\ Len(answered) \in Nat
  BY DEF SearchInv, ExactRows
<1>2. IsATS(Adapter) => Len(jobs) < Cap
  BY DEF Asking
<1>3. ToSet(jobs) = Good(Adapter, answered)
  BY <1>1, <1>2, CapIsCount DEF SearchInv, ExactRows
<1>4. SubSeq(answered, 1, Len(answered)) = answered
  BY <1>1
<1>5. IsATS(Adapter) => Cardinality(Good(Adapter, SubSeq(answered, 1, Len(answered)))) < Cap
  BY <1>1, <1>2, <1>3, <1>4, OrderedRows
<1>6. ASSUME IsATS(Adapter), NEW n \in 0 .. Len(answered)
      PROVE  Cardinality(Good(Adapter, SubSeq(answered, 1, n))) < Cap
  <2>1. n = Len(answered) \/ n \in 0 .. Len(answered) - 1
    BY <1>1
  <2>. QED  BY <1>5, <1>6, <2>1 DEF SearchInv, ExactRows
<1>. QED  BY <1>3, <1>6

\* One more page.
LEMMA PageRead ==
    ASSUME SearchInv, Asking, NEW page \in Bodies,
           jobs' = Capped(Adapter, jobs, Kept(Adapter, Len(answered) + 1, page)),
           answered' = Append(answered, page),
           search' = search
    PROVE  jobs' \in Seq(Places) /\ answered' \in Seq(Bodies) /\ ExactRows(Adapter, jobs', answered')
<1>. DEFINE board == Len(answered) + 1
            kept == Kept(Adapter, board, page)
            rows == jobs \o kept
            good == Good(Adapter, answered')
<1>1. /\ jobs \in Seq(Places) /\ InRowOrder(jobs) /\ Len(jobs) \in Nat
      /\ answered \in Seq(Bodies) /\ Len(answered) \in Nat /\ board \in Nat
  BY DEF SearchInv, ExactRows
<1>2. /\ answered' \in Seq(Bodies) /\ Len(answered') = Len(answered) + 1
      /\ \A n \in 0 .. Len(answered) : SubSeq(answered', 1, n) = SubSeq(answered, 1, n)
  BY <1>1
<1>3. good = Good(Adapter, answered) \cup NewRows(Adapter, board, page)
  BY <1>1, GoodGrows
<1>4. /\ kept \in Seq(Places) /\ InRowOrder(kept)
      /\ ToSet(kept) = NewRows(Adapter, board, page)
  BY <1>1, KeptAre
<1>5. ToSet(jobs) = Good(Adapter, answered)
  BY AskingHasAll
<1>6. \A p \in ToSet(jobs), q \in ToSet(kept) : Precedes(p, q)
  BY <1>1, <1>4, <1>5, GoodAreEarlier
<1>7. jobs' = IF IsATS(Adapter) /\ Len(rows) > Cap THEN SubSeq(rows, 1, Cap) ELSE rows
  BY DEF Capped
<1>. HIDE DEF kept, good
<1>8. rows \in Seq(Places) /\ InRowOrder(rows) /\ ToSet(rows) = good
  BY <1>1, <1>3, <1>4, <1>5, <1>6, RowsJoined
<1>. HIDE DEF rows
<1>9. Len(rows) \in Nat
  BY <1>8
<1>10. Adapter' = Adapter
  BY DEF Adapter
<1>11. IsATS(Adapter) =>
          \A n \in 0 .. Len(answered') - 1 :
              Cardinality(Good(Adapter, SubSeq(answered', 1, n))) < Cap
  <2>. SUFFICES ASSUME IsATS(Adapter), NEW n \in 0 .. Len(answered') - 1
                PROVE  Cardinality(Good(Adapter, SubSeq(answered', 1, n))) < Cap
    OBVIOUS
  <2>1. n \in 0 .. Len(answered)
    BY <1>1, <1>2
  <2>2. SubSeq(answered', 1, n) = SubSeq(answered, 1, n)
    BY <1>2, <2>1
  <2>. QED  BY <2>1, <2>2, AskingHasAll
<1>12. CASE IsATS(Adapter) /\ Len(rows) > Cap
  <2>. DEFINE first == SubSeq(rows, 1, Cap)
  <2>1. Cap \in Nat /\ Cap <= Len(rows)
    BY <1>9, <1>12, CapIsCount
  <2>2. /\ first \in Seq(Places) /\ Len(first) = Cap /\ InRowOrder(first)
        /\ ToSet(first) \subseteq ToSet(rows)
        /\ \A p \in ToSet(first), q \in ToSet(rows) \ ToSet(first) : Precedes(p, q)
    BY <1>8, <2>1, RowsCut
  <2>3. jobs' = first
    BY <1>7, <1>12
  <2>. HIDE DEF first
  <2>5. /\ jobs' \in Seq(Places) /\ Len(jobs') = Cap /\ InRowOrder(jobs')
        /\ ToSet(jobs') \subseteq good
        /\ \A p \in ToSet(jobs'), q \in good \ ToSet(jobs') : Precedes(p, q)
    BY <1>8, <2>2, <2>3
  <2>6. Len(jobs') <= Cap
    BY <2>1, <2>5
  <2>4. jobs' \in Seq(Places) /\ ExactRows(Adapter, jobs', answered')
    BY <1>10, <1>11, <1>12, <2>5, <2>6 DEF ExactRows, good
  <2>. QED  BY <1>2, <2>4
<1>13. CASE ~(IsATS(Adapter) /\ Len(rows) > Cap)
  <2>1. jobs' = rows
    BY <1>7, <1>13
  <2>2. IsATS(Adapter) => Len(rows) <= Cap
    BY <1>9, <1>13, CapIsCount
  <2>3. jobs' \in Seq(Places) /\ ExactRows(Adapter, jobs', answered')
    BY <1>8, <1>10, <1>11, <2>1, <2>2 DEF ExactRows, InRowOrder, good
  <2>. QED  BY <1>2, <2>3
<1>. QED  BY <1>12, <1>13

\* A search that returns: its result, and what had been read by then.
LEMMA ReturnStep ==
    ASSUME SearchInv, search <= Len(Searches), NEW label, Raises(label),
           label = "jobs" /\ Len(answered) < Boards(Adapter) => IsATS(Adapter) /\ Len(jobs) = Cap
    PROVE  SearchInv'
<1>1. /\ result' = [result EXCEPT ![search] = label]
      /\ step' = "returned"
      /\ UNCHANGED <<search, jobs, answered>>
  BY DEF Raises
<1>2. search \in DOMAIN result
  BY SearchesListed DEF SearchInv
<1>3. result'[search] = label /\ DOMAIN result' = DOMAIN result
  BY <1>1, <1>2
<1>4. Adapter' = Adapter
  BY <1>1 DEF Adapter
<1>. QED  BY <1>1, <1>3, <1>4 DEF SearchInv

LEMMA SearchStep == SearchInv /\ [CollectionNext]_collection => SearchInv'
<1>. SUFFICES ASSUME SearchInv, [CollectionNext]_collection PROVE SearchInv'
  OBVIOUS
<1>1. ASSUME NEW page \in Pages, Answer(page)
      PROVE  SearchInv'
  <2>1. /\ Asking /\ step = "ask" /\ page \in Bodies
        /\ UNCHANGED <<search, step, result>>
        /\ jobs' = Capped(Adapter, jobs, Kept(Adapter, Len(answered) + 1, page))
        /\ answered' = Append(answered, page)
    BY <1>1 DEF Answer, Asking, Bodies
  <2>2. Adapter' = Adapter
    BY <2>1 DEF Adapter
  <2>3. jobs' \in Seq(Places) /\ answered' \in Seq(Bodies) /\ ExactRows(Adapter, jobs', answered')
    BY <2>1, PageRead
  <2>. QED  BY <2>1, <2>2, <2>3 DEF SearchInv
<1>2. CASE Empty
  <2>1. /\ Asking /\ step = "ask" /\ IsATS(Adapter) /\ <<>> \in Bodies
        /\ UNCHANGED <<search, step, result, jobs>>
        /\ answered' = Append(answered, <<>>)
    BY <1>2 DEF Empty, Asking, Bodies
  <2>. DEFINE numbers == {i \in DOMAIN <<>> : Keeps(Adapter, <<>>[i])}
              kept == Kept(Adapter, Len(answered) + 1, <<>>)
  <2>2. numbers = {}
    OBVIOUS
  <2>3. Cardinality(numbers) = 0
    BY <2>2, FS_EmptySet
  <2>4. kept = [k \in 1 .. 0 |-> <<Len(answered) + 1, Ascending(numbers)[k]>>]
    BY <2>3 DEF Kept
  <2>5. kept = <<>>
    BY <2>4
  <2>6. jobs \in Seq(Places) /\ Len(jobs) < Cap /\ Len(jobs) \in Nat /\ Cap \in Nat
    BY <2>1, CapIsCount DEF SearchInv, Asking
  <2>. HIDE DEF kept
  <2>7. jobs \o kept = jobs
    BY <2>5, <2>6
  <2>8. jobs = Capped(Adapter, jobs, kept)
    BY <2>6, <2>7 DEF Capped
  <2>9. jobs' \in Seq(Places) /\ answered' \in Seq(Bodies) /\ ExactRows(Adapter, jobs', answered')
    BY <2>1, <2>8, PageRead DEF kept
  <2>10. Adapter' = Adapter
    BY <2>1 DEF Adapter
  <2>. QED  BY <2>1, <2>9, <2>10 DEF SearchInv
<1>3. CASE (\E failure \in Failures : Refuse(failure)) \/ Stumble \/ GiveUp
  <2>1. /\ search <= Len(Searches)
        /\ \E label \in {"terminal", "exhausted"} : Raises(label)
    BY <1>3 DEF Refuse, Stumble, GiveUp, Asking, Label
  <2>. QED  BY <2>1, ReturnStep
<1>4. CASE Return
  <2>1. search <= Len(Searches) /\ step = "ask" /\ ~Asking /\ Raises("jobs")
    BY <1>4 DEF Return
  <2>2. /\ Len(answered) \in Nat /\ Len(jobs) \in Nat
        /\ Cap \in Nat /\ Boards(Adapter) \in Nat
    BY CapIsCount DEF SearchInv
  <2>3. Len(answered) < Boards(Adapter) => IsATS(Adapter) /\ Len(jobs) >= Cap
    BY <2>1, <2>2 DEF Asking
  <2>4. IsATS(Adapter) => Len(jobs) <= Cap
    BY DEF SearchInv, ExactRows
  <2>5. Len(answered) < Boards(Adapter) => IsATS(Adapter) /\ Len(jobs) = Cap
    BY <2>2, <2>3, <2>4
  <2>. QED  BY <2>1, <2>5, ReturnStep
<1>5. CASE TakeResult
  <2>1. /\ step = "returned" /\ step' = "ask" /\ search' = search + 1
        /\ jobs' = <<>> /\ answered' = <<>> /\ result' = result
    BY <1>5 DEF TakeResult
  <2>2. search' \in 1 .. Len(Searches) + 1
    BY <2>1, SearchesListed DEF SearchInv
  <2>3. (ExactRows(Adapter, jobs, answered))'
    BY <2>1, NothingRead
  <2>4. jobs' \in Seq(Places) /\ answered' \in Seq(Bodies)
    BY <2>1
  <2>. QED  BY <2>1, <2>2, <2>3, <2>4 DEF SearchInv
<1>6. CASE Retry \/ UNCHANGED sources
  <2>1. UNCHANGED <<search, step, jobs, result, answered>>
    BY <1>6 DEF Retry, sources
  <2>2. Adapter' = Adapter
    BY <2>1 DEF Adapter
  <2>. QED  BY <2>1, <2>2 DEF SearchInv
<1>7. Search \/ UNCHANGED sources
  BY DEF CollectionNext, PoolRuns, Checking, Collecting, Exit, Ended, collection
<1>. QED  BY <1>1, <1>2, <1>3, <1>4, <1>5, <1>6, <1>7 DEF Search

\* A search returns the jobs its boards have answered with, cut at results_wanted,
\* and asks no board for more, for any adapters, profiles, boards and pages.
THEOREM SearchesAreExact == CollectionSpec => []SearchIsExact
<1>1. SearchInv => SearchIsExact
  <2>. SUFFICES ASSUME SearchInv, step = "returned", result[search] = "jobs"
                PROVE  SearchIsExact
    BY DEF SearchIsExact
  <2>. DEFINE good == Good(Adapter, answered)
              taken == ToSet(jobs)
  <2>1. ExactRows(Adapter, jobs, answered)
    BY DEF SearchInv
  <2>2. Len(answered) < Boards(Adapter) => IsATS(Adapter) /\ Len(jobs) = Cap
    BY DEF SearchInv
  <2>. QED  BY <2>1, <2>2 DEF SearchIsExact, ExactRows, InRowOrder
<1>. QED  BY <1>1, SearchInit, SearchStep, PTL DEF CollectionSpec

-----------------------------------------------------------------------------
(* The types of both stages.                                                *)

\* Nobody waits when all checks are collected, and no more boards have answered
\* than there are.
StagesTyped ==
    /\ ProbeInv
    /\ SearchInv
    /\ next > Len(Checks) => waited = 0
    /\ Len(answered) <= Boards(Adapter)
    /\ asked \in Seq({"outage"})
    /\ result \in [DOMAIN Searches -> {"none", "jobs", "exhausted", "terminal"}]
    /\ exited \in BOOLEAN

LEMMA StagesInit == CollectionInit => StagesTyped
<1>. SUFFICES ASSUME CollectionInit PROVE StagesTyped
  OBVIOUS
<1>1. waited = 0 /\ exited \in BOOLEAN
  BY DEF CollectionInit, PreflightInit
<1>2. answered = <<>> /\ asked = <<>> /\ result = [s \in DOMAIN Searches |-> "none"]
  BY DEF CollectionInit, SourcesInit
<1>3. Len(answered) <= Boards(Adapter)
  <2>1. Boards(Adapter) \in Nat /\ Len(answered) = 0
    BY <1>2, CapIsCount
  <2>. QED  BY <2>1
<1>4. /\ asked \in Seq({"outage"})
      /\ result \in [DOMAIN Searches -> {"none", "jobs", "exhausted", "terminal"}]
  BY <1>2
<1>. QED  BY <1>1, <1>3, <1>4, ProbeInit, SearchInit DEF StagesTyped

\* The wait ends with the last check.
LEMMA WaitTyped ==
    ASSUME StagesTyped, [CollectionNext]_collection
    PROVE  (next > Len(Checks) => waited = 0)'
<1>1. CASE Collect \/ TimesOut
  <2>1. waited' = 0
    BY <1>1 DEF Collect, TimesOut, Collects
  <2>. QED  BY <2>1
<1>2. CASE WaitOn
  <2>1. next' = next /\ next \in 1 .. Len(Checks)
    BY <1>2 DEF WaitOn, Waiting, StagesTyped, ProbeInv
  <2>. QED  BY <2>1, ChecksOfARun
<1>3. CASE Conclude \/ Threads \/ UNCHANGED preflight
  <2>1. UNCHANGED <<next, waited>>
    BY <1>3 DEF Conclude, Threads, StartProbe, AskAgain, ProbeEnds, preflight
  <2>. QED  BY <2>1 DEF StagesTyped
<1>4. \/ Collect \/ TimesOut \/ WaitOn \/ Conclude \/ Threads \/ UNCHANGED preflight
  BY DEF CollectionNext, PoolRuns, Checking, RunPreflight, Collecting, Exit, Ended, collection
<1>. QED  BY <1>1, <1>2, <1>3, <1>4

\* The attempts, the boards that have answered and the results.
LEMMA SearchesTyped ==
    ASSUME StagesTyped, Search
    PROVE  /\ Len(answered') <= Boards(Adapter')
           /\ asked' \in Seq({"outage"})
           /\ result' \in [DOMAIN Searches -> {"none", "jobs", "exhausted", "terminal"}]
<1>1. /\ answered \in Seq(Bodies) /\ Len(answered) \in Nat
      /\ Boards(Adapter) \in Nat /\ Boards(Adapter') \in Nat
  BY CapIsCount DEF StagesTyped, SearchInv
<1>2. ASSUME NEW body \in Bodies, Asking, answered' = Append(answered, body),
             asked' = <<>>, UNCHANGED <<search, result>>
      PROVE  /\ Len(answered') <= Boards(Adapter')
             /\ asked' \in Seq({"outage"})
             /\ result' \in [DOMAIN Searches -> {"none", "jobs", "exhausted", "terminal"}]
  <2>1. Adapter' = Adapter
    BY <1>2 DEF Adapter
  <2>2. Len(answered') = Len(answered) + 1 /\ Len(answered) < Boards(Adapter)
    BY <1>1, <1>2 DEF Asking
  <2>. QED  BY <1>1, <1>2, <2>1, <2>2 DEF StagesTyped
<1>3. ASSUME NEW page \in Pages, Answer(page)
      PROVE  /\ Len(answered') <= Boards(Adapter')
             /\ asked' \in Seq({"outage"})
             /\ result' \in [DOMAIN Searches -> {"none", "jobs", "exhausted", "terminal"}]
  BY <1>2, <1>3 DEF Answer, Bodies
<1>4. CASE Empty
  BY <1>2, <1>4 DEF Empty, Bodies
<1>5. CASE (\E failure \in Failures : Refuse(failure)) \/ Stumble \/ GiveUp \/ Return
  <2>1. PICK label \in {"jobs", "terminal", "exhausted"} : Raises(label)
    BY <1>5 DEF Refuse, Stumble, GiveUp, Return, Label
  <2>2. asked' = <<>> \/ asked' = asked
    BY <1>5 DEF Refuse, Stumble, GiveUp, Return
  <2>3. result' = [result EXCEPT ![search] = label] /\ UNCHANGED <<search, answered>>
    BY <2>1 DEF Raises
  <2>4. Adapter' = Adapter
    BY <2>3 DEF Adapter
  <2>5. asked' \in Seq({"outage"})
    <3>1. asked \in Seq({"outage"}) /\ <<>> \in Seq({"outage"})
      BY DEF StagesTyped
    <3>. QED  BY <2>2, <3>1
  <2>6. result' \in [DOMAIN Searches -> {"none", "jobs", "exhausted", "terminal"}]
    BY <2>3 DEF StagesTyped
  <2>. QED  BY <2>3, <2>4, <2>5, <2>6 DEF StagesTyped
<1>6. CASE Retry
  <2>1. asked' = Append(asked, "outage") /\ UNCHANGED <<search, result, answered>>
    BY <1>6 DEF Retry
  <2>2. Adapter' = Adapter
    BY <2>1 DEF Adapter
  <2>3. asked' \in Seq({"outage"})
    BY <2>1 DEF StagesTyped
  <2>. QED  BY <2>1, <2>2, <2>3 DEF StagesTyped
<1>7. CASE TakeResult
  BY <1>1, <1>7 DEF TakeResult, StagesTyped
<1>. QED  BY <1>3, <1>4, <1>5, <1>6, <1>7 DEF Search

LEMMA StagesStep == StagesTyped /\ [CollectionNext]_collection => StagesTyped'
<1>. SUFFICES ASSUME StagesTyped, [CollectionNext]_collection PROVE StagesTyped'
  OBVIOUS
<1>1. ProbeInv' /\ SearchInv'
  BY ProbeStep, SearchStep DEF StagesTyped
<1>2. exited' \in BOOLEAN
  BY DEF CollectionNext, PoolRuns, Checking, Collecting, Exit, Ended, collection, StagesTyped
<1>3. /\ Len(answered') <= Boards(Adapter')
      /\ asked' \in Seq({"outage"})
      /\ result' \in [DOMAIN Searches -> {"none", "jobs", "exhausted", "terminal"}]
  <2>1. CASE Search
    BY <2>1, SearchesTyped
  <2>2. CASE UNCHANGED sources
    <3>1. UNCHANGED <<search, asked, result, answered>>
      BY <2>2 DEF sources
    <3>2. Adapter' = Adapter
      BY <3>1 DEF Adapter
    <3>. QED  BY <3>1, <3>2 DEF StagesTyped
  <2>. QED  BY <2>1, <2>2
            DEF CollectionNext, PoolRuns, Checking, Collecting, Exit, Ended, collection
<1>. QED  BY <1>1, <1>2, <1>3, WaitTyped DEF StagesTyped

\* A row is on a page of a board that has answered.
LEMMA RowsOfBoards ==
    ASSUME StagesTyped
    PROVE  jobs \in Seq((1 .. BoardCount) \X Nat)
<1>1. /\ jobs \in Seq(Places) /\ answered \in Seq(Bodies)
      /\ ToSet(jobs) \subseteq Good(Adapter, answered)
      /\ Len(answered) <= Boards(Adapter)
  BY DEF StagesTyped, SearchInv, ExactRows
<1>2. Boards(Adapter) \in Nat /\ Boards(Adapter) <= BoardCount /\ BoardCount \in Nat
  BY SourcesConfigOK DEF Boards
<1>3. ASSUME NEW k \in DOMAIN jobs
      PROVE  jobs[k] \in (1 .. BoardCount) \X Nat
  <2>1. jobs[k] \in Places /\ jobs[k] \in ToSet(jobs)
    BY <1>1, InSequence
  <2>2. PICK b \in DOMAIN answered : \E i : jobs[k] = <<b, i>>
    BY <1>1, <2>1 DEF Good
  <2>3. b \in 1 .. BoardCount
    BY <1>1, <1>2
  <2>. QED  BY <2>1, <2>2, <2>3 DEF Places
<1>. QED  BY <1>1, <1>3

\* Every variable of the two stages keeps its type, for any limits, adapters,
\* profiles, boards and pages: no wait is longer than the limits, no search goes
\* past the last one, and a row is of a configured board.
THEOREM CollectionTypeCorrect == CollectionSpec => []CollectionTypeOK
<1>1. StagesTyped => CollectionTypeOK
  <2>. SUFFICES ASSUME StagesTyped PROVE CollectionTypeOK
    OBVIOUS
  <2>1. waited \in 0 .. ShortLimit + SearchLimit + AccessLimit
    <3>1. waited \in Nat /\ {ShortLimit, SearchLimit, AccessLimit} \subseteq Nat
      BY PreflightConfigOK DEF StagesTyped, ProbeInv
    <3>2. CASE next > Len(Checks)
      BY <3>1, <3>2 DEF StagesTyped
    <3>3. CASE ~(next > Len(Checks))
      <4>1. next \in 1 .. Len(Checks) /\ Checks[next] \in Names
        BY <3>3, ChecksOfARun DEF StagesTyped, ProbeInv
      <4>2. waited <= ran[Checks[next]] /\ ran[Checks[next]] \in Nat
            /\ ran[Checks[next]] <= Limit(Checks[next])
        BY <4>1, ChecksOfARun DEF StagesTyped, ProbeInv
      <4>3. Limit(Checks[next]) \in {ShortLimit, SearchLimit, AccessLimit}
        BY DEF Limit
      <4>. QED  BY <3>1, <4>2, <4>3
    <3>. QED  BY <3>2, <3>3
  <2>2. PreflightTypeOK
    BY <2>1 DEF PreflightTypeOK, StagesTyped, ProbeInv
  <2>3. SourcesTypeOK
    BY RowsOfBoards DEF SourcesTypeOK, StagesTyped, SearchInv, Bodies
  <2>. QED  BY <2>2, <2>3 DEF CollectionTypeOK, StagesTyped
<1>. QED  BY <1>1, StagesInit, StagesStep, PTL DEF CollectionSpec

-----------------------------------------------------------------------------
(* The way through both stages.                                             *)

\* The searches before the current one have ended and those after it have not begun;
\* there is none before the verdict, and the process ends after the last one.
PathInv ==
    /\ verdict # "pass" => search = 1 /\ step = "ask"
    /\ \A s \in DOMAIN Searches : (result[s] # "none") <=>
           (s < search \/ (s = search /\ step = "returned"))
    /\ exited => verdict = "abort" \/ (verdict = "pass" /\ search > Len(Searches))

LEMMA PathInit == CollectionInit => PathInv
<1>. SUFFICES ASSUME CollectionInit PROVE PathInv
  OBVIOUS
<1>1. /\ search = 1 /\ step = "ask" /\ exited = FALSE
      /\ result = [s \in DOMAIN Searches |-> "none"]
  BY DEF CollectionInit, SourcesInit
<1>2. \A s \in DOMAIN Searches : result[s] = "none" /\ ~(s < search)
  BY <1>1, SearchesListed
<1>. QED  BY <1>1, <1>2 DEF PathInv

LEMMA PathStep == StagesTyped /\ PathInv /\ [CollectionNext]_collection => PathInv'
<1>. SUFFICES ASSUME StagesTyped, PathInv, [CollectionNext]_collection PROVE PathInv'
  OBVIOUS
<1>1. /\ Len(Searches) \in Nat /\ DOMAIN Searches = 1 .. Len(Searches)
      /\ search \in 1 .. Len(Searches) + 1
      /\ step = "returned" => search <= Len(Searches)
      /\ verdict \in {"none", "abort", "pass"}
      /\ DOMAIN result = DOMAIN Searches
  BY SearchesListed DEF StagesTyped, SearchInv, ProbeInv
\* The steps of the threads and of the preflight.
<1>2. CASE PoolRuns
  <2>1. UNCHANGED <<verdict, search, step, result, exited>>
    BY <1>2 DEF PoolRuns, Threads, StartProbe, AskAgain, ProbeEnds, sources
  <2>. QED  BY <2>1 DEF PathInv
<1>3. CASE Checking
  <2>1. UNCHANGED <<search, step, result, exited>> /\ verdict = "none"
    BY <1>3 DEF Checking, RunPreflight, Collect, TimesOut, WaitOn, Conclude, Waiting, sources
  <2>. QED  BY <2>1 DEF PathInv
\* The steps of the searches.
<1>4. CASE Collecting
  <2>1. verdict = "pass" /\ verdict' = "pass" /\ exited' = exited
    BY <1>4 DEF Collecting, preflight
  <2>2. ~exited
    BY <1>1, <1>4, <2>1 DEF PathInv, Collecting, Search, Answer, Empty, Refuse, Stumble,
                            Retry, GiveUp, Return, TakeResult, Asking
  <2>3. CASE UNCHANGED <<search, step, result>>
    BY <2>1, <2>2, <2>3 DEF PathInv
  <2>4. ASSUME NEW label \in {"jobs", "terminal", "exhausted"}, Raises(label),
               step = "ask", search <= Len(Searches)
        PROVE  PathInv'
    <3>1. /\ result' = [result EXCEPT ![search] = label]
          /\ step' = "returned" /\ search' = search
      BY <2>4 DEF Raises
    <3>2. \A s \in DOMAIN Searches : (result'[s] # "none") <=>
              (s < search' \/ (s = search' /\ step' = "returned"))
      BY <1>1, <2>4, <3>1 DEF PathInv
    <3>. QED  BY <2>1, <2>2, <3>2 DEF PathInv
  <2>5. CASE TakeResult
    <3>1. step = "returned" /\ search' = search + 1 /\ step' = "ask" /\ result' = result
      BY <2>5 DEF TakeResult
    <3>2. \A s \in DOMAIN Searches : (result'[s] # "none") <=>
              (s < search' \/ (s = search' /\ step' = "returned"))
      BY <1>1, <3>1 DEF PathInv
    <3>. QED  BY <2>1, <2>2, <3>2 DEF PathInv
  <2>6. CASE (\E page \in Pages : Answer(page)) \/ Empty \/ Retry
    BY <2>3, <2>6 DEF Answer, Empty, Retry
  <2>7. CASE (\E failure \in Failures : Refuse(failure)) \/ Stumble \/ GiveUp \/ Return
    BY <2>4, <2>7 DEF Refuse, Stumble, GiveUp, Return, Asking, Label
  <2>. QED  BY <1>4, <2>5, <2>6, <2>7 DEF Collecting, Search
<1>5. CASE Exit
  BY <1>5 DEF Exit, preflight, sources, PathInv
<1>6. CASE Ended \/ UNCHANGED collection
  BY <1>6 DEF Ended, collection, preflight, sources, PathInv
<1>. QED  BY <1>2, <1>3, <1>4, <1>5, <1>6 DEF CollectionNext

\* Wherever the process ends, the abort has kept it from every source and nothing else
\* has kept it from any: no failure of a search hides a later one (run()).
THEOREM EndsAllOrNone == CollectionSpec => [](exited => AllOrNoneAsked)
<1>1. StagesTyped /\ PathInv => (exited => AllOrNoneAsked)
  <2>. SUFFICES ASSUME StagesTyped, PathInv, exited PROVE AllOrNoneAsked
    OBVIOUS
  <2>1. /\ Len(Searches) \in Nat /\ DOMAIN Searches = 1 .. Len(Searches)
        /\ search \in 1 .. Len(Searches) + 1
    BY SearchesListed DEF StagesTyped, SearchInv
  <2>2. CASE verdict = "abort"
    BY <2>1, <2>2 DEF PathInv, AllOrNoneAsked
  <2>3. CASE verdict = "pass" /\ search > Len(Searches)
    BY <2>1, <2>3 DEF PathInv, AllOrNoneAsked
  <2>. QED  BY <2>2, <2>3 DEF PathInv
<1>2. StagesTyped /\ PathInv /\ [CollectionNext]_collection => StagesTyped' /\ PathInv'
  BY StagesStep, PathStep
<1>. QED  BY <1>1, <1>2, StagesInit, PathInit, PTL DEF CollectionSpec
=============================================================================
