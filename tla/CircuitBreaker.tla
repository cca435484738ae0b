---------------------------- MODULE CircuitBreaker ----------------------------
(****************************************************************************)
(* The persistent circuit breaker (circuit_breaker.py) and its use by       *)
(* JobTrailAutomation.run() (automation.py): every run loads the state file *)
(* once, asks should_attempt(), and at its end overwrites the file with     *)
(* what it loaded plus its own outcome.  No lock is held in between, so     *)
(* runs may overlap.                                                        *)
(*                                                                          *)
(* A time stamp is represented by its age, the only thing the code ever     *)
(* computes from it, and ages stop growing at MaxAge, where every           *)
(* comparison with a cooldown has been decided; likewise the failure        *)
(* counter stops at Threshold.  The model therefore needs no bound on time  *)
(* nor on the number of runs.                                               *)
(****************************************************************************)
EXTENDS Integers

CONSTANTS
    Runs,           \* slots in which automation runs execute, one at a time each
    Threshold,      \* failure_threshold
    Cooldown,       \* cooldown_seconds
    AlertCooldown,  \* alert_cooldown_seconds
    Faults          \* "read", "write" (state file), "crash" (process)

ASSUME BreakerConfigOK ==
    /\ Threshold \in Nat
    /\ Cooldown \in Nat
    /\ AlertCooldown \in Nat
    /\ Faults \subseteq {"read", "write", "crash"}

VARIABLES
    file,       \* breaker.json
    pc,         \* what each slot's run is doing
    state,      \* CircuitBreaker._state of each slot's run
    \* History, read by the properties only.
    streak,     \* failed runs since the last clean one, up to Threshold
    quiet,      \* age of the last recorded failure, or None
    lastAlert,  \* age of the last alert raised, or None
    sameOutage, \* no run succeeded since that alert
    disturbed   \* runs have overlapped or a fault has occurred

history == <<streak, quiet, lastAlert, sameOutage, disturbed>>
vars == <<file, pc, state, history>>

-----------------------------------------------------------------------------

None == -1
MaxAge == IF Cooldown > AlertCooldown THEN Cooldown ELSE AlertCooldown
Ages == 0 .. MaxAge
BreakerState == [failures : 0 .. Threshold,
                 opened : Ages \cup {None},
                 alerted : Ages \cup {None}]

\* BreakerState(): the fresh CLOSED breaker.
Closed == [failures |-> 0, opened |-> None, alerted |-> None]

TypeOK ==
    /\ file \in BreakerState
    /\ pc \in [Runs -> {"idle", "gate", "working", "alerting", "blocked"}]
    /\ state \in [Runs -> BreakerState]
    /\ streak \in 0 .. Threshold
    /\ quiet \in Ages \cup {None}
    /\ lastAlert \in Ages \cup {None}
    /\ sameOutage \in BOOLEAN
    /\ disturbed \in BOOLEAN

Init ==
    /\ file = Closed
    /\ pc = [r \in Runs |-> "idle"]
    /\ state = [r \in Runs |-> Closed]
    /\ streak = 0
    /\ quiet = None
    /\ lastAlert = None
    /\ sameOutage = FALSE
    /\ disturbed = FALSE

-----------------------------------------------------------------------------
(* The breaker's operations on a state s.                                   *)

Count(n) == IF n < Threshold THEN n + 1 ELSE Threshold

ShouldAttempt(s) ==
    \/ s.failures < Threshold
    \/ s.opened = None
    \/ s.opened >= Cooldown

\* Deviation: a failed probe leaves the cooldown as it is.
FailedOpensOnce(s) ==
    [s EXCEPT !.failures = Count(@),
              !.opened = IF s.failures + 1 >= Threshold /\ @ = None
                         THEN 0 ELSE @]

\* record_failure: the cooldown restarts on every failure at the threshold.
Failed(s) ==
    [s EXCEPT !.failures = Count(@),
              !.opened = IF s.failures + 1 >= Threshold THEN 0 ELSE @]

\* Deviation: one alert until the next clean run.
AlertOnce(s) == s.alerted = None

\* try_alert would return True.
AlertDue(s) == s.alerted = None \/ s.alerted >= AlertCooldown

\* _load: a file that cannot be read counts as missing.
Loads == {file} \cup (IF "read" \in Faults THEN {Closed} ELSE {})

Goto(r, stage) == pc' = [pc EXCEPT ![r] = stage]
Holds(r, s) == state' = [state EXCEPT ![r] = s]

\* The process ends; its breaker object with it.
End(r) == Goto(r, "idle") /\ Holds(r, Closed)

-----------------------------------------------------------------------------
(* One run.                                                                 *)

\* _resolve_breaker builds the breaker, which loads the file.
Begin(r) ==
    /\ pc[r] = "idle"
    /\ \E s \in Loads :
          /\ Holds(r, s)
          /\ disturbed' = \/ disturbed
                          \/ s # file
                          \/ \E q \in Runs : pc[q] # "idle"
    /\ Goto(r, "gate")
    /\ UNCHANGED <<file, streak, quiet, lastAlert, sameOutage>>

\* CLOSED or HALF_OPEN: the pipeline starts.
Attempt(r) ==
    /\ pc[r] = "gate"
    /\ ShouldAttempt(state[r])
    /\ Goto(r, "working")
    /\ UNCHANGED <<file, state, history>>

\* OPEN and an alert was sent recently: the run ends empty.
Block(r) ==
    /\ pc[r] = "gate"
    /\ ~ShouldAttempt(state[r])
    /\ ~AlertDue(state[r])
    /\ Goto(r, "blocked")
    /\ UNCHANGED <<file, state, history>>

\* Deviation: the stamp stays in memory.
BlockWithoutStamp(r) ==
    /\ pc[r] = "gate"
    /\ ~ShouldAttempt(state[r])
    /\ AlertDue(state[r])
    /\ Goto(r, "alerting")
    /\ lastAlert' = 0
    /\ sameOutage' = TRUE
    /\ UNCHANGED <<file, state, streak, quiet, disturbed>>

\* OPEN and an alert is due: try_alert stamps the file before the notifier is
\* called.
BlockAndStamp(r) ==
    /\ pc[r] = "gate"
    /\ ~ShouldAttempt(state[r])
    /\ AlertDue(state[r])
    /\ LET stamped == [state[r] EXCEPT !.alerted = 0]
       IN  Holds(r, stamped) /\ file' = stamped
    /\ Goto(r, "alerting")
    /\ lastAlert' = 0
    /\ sameOutage' = TRUE
    /\ UNCHANGED <<streak, quiet, disturbed>>

\* _send_breaker_alert calls the notifier, whose exception is swallowed (with
\* notifications off nothing is called).
SendAlert(r) ==
    /\ pc[r] = "alerting"
    /\ Goto(r, "blocked")
    /\ UNCHANGED <<file, state, history>>

\* Deviation: the blocked run counts as a failed one.
EndBlockedAsFailure(r) ==
    /\ pc[r] = "blocked"
    /\ file' = Failed(state[r])
    /\ End(r)
    /\ UNCHANGED history

\* The blocked run returns without recording anything.
EndBlocked(r) ==
    /\ pc[r] = "blocked"
    /\ End(r)
    /\ UNCHANGED <<file, history>>

\* The run (or its preflight) ended with failures: record_failure.
RunFails(r) ==
    /\ pc[r] = "working"
    /\ file' = Failed(state[r])
    /\ End(r)
    /\ streak' = Count(streak)
    /\ quiet' = 0
    /\ UNCHANGED <<lastAlert, sameOutage, disturbed>>

\* The run ended without failures: record_success.
RunSucceeds(r) ==
    /\ pc[r] = "working"
    /\ file' = Closed
    /\ End(r)
    /\ streak' = 0
    /\ quiet' = None
    /\ sameOutage' = FALSE
    /\ UNCHANGED <<lastAlert, disturbed>>

\* _save raises out of record_failure, record_success or try_alert, and out of
\* run(): the file keeps its old content and no alert is sent.
SaveFails(r) ==
    /\ "write" \in Faults
    /\ \/ pc[r] = "working"
       \/ pc[r] = "gate" /\ ~ShouldAttempt(state[r]) /\ AlertDue(state[r])
    /\ End(r)
    /\ disturbed' = TRUE
    /\ UNCHANGED <<file, streak, quiet, lastAlert, sameOutage>>

\* The process dies.
Crash(r) ==
    /\ "crash" \in Faults
    /\ pc[r] # "idle"
    /\ End(r)
    /\ disturbed' = TRUE
    /\ UNCHANGED <<file, streak, quiet, lastAlert, sameOutage>>

Older(age) == IF age \in 0 .. MaxAge - 1 THEN age + 1 ELSE age
Aged(s) == [s EXCEPT !.opened = Older(@), !.alerted = Older(@)]

\* Time passes.
Tick ==
    /\ file' = Aged(file)
    /\ state' = [r \in Runs |-> Aged(state[r])]
    /\ quiet' = Older(quiet)
    /\ lastAlert' = Older(lastAlert)
    /\ UNCHANGED <<pc, streak, sameOutage, disturbed>>

Progress(r) ==
    \/ Attempt(r)
    \/ Block(r)
    \/ BlockAndStamp(r)
    \/ SendAlert(r)
    \/ EndBlocked(r)
    \/ RunFails(r)
    \/ RunSucceeds(r)

Next ==
    \/ \E r \in Runs : Begin(r) \/ Progress(r) \/ SaveFails(r) \/ Crash(r)
    \/ Tick

Spec == Init /\ [][Next]_vars

\* Time passes, the scheduler keeps launching runs, a launched run keeps
\* executing, and neither a crash nor a failing disk hits every single run
\* between its load and its gate, or every single stamp.
Fairness ==
    /\ WF_vars(Tick)
    /\ \A r \in Runs : WF_vars(Begin(r)) /\ WF_vars(Progress(r))
    /\ SF_vars(\E r \in Runs : Attempt(r))
    /\ SF_vars(\E r \in Runs : BlockAndStamp(r))

FairSpec == Spec /\ Fairness

-----------------------------------------------------------------------------
(* Properties.                                                              *)

\* As long as runs neither overlap nor meet a fault, the gate is exactly the
\* documented one: a run is turned away iff the last Threshold runs all failed
\* and the last failure is less than Cooldown ago.
GateIsExact ==
    [][\A r \in Runs :
          pc[r] = "gate" /\ pc'[r] # "gate" /\ ~disturbed'
          => (pc'[r] = "working"
                <=> streak < Threshold \/ quiet = None \/ quiet >= Cooldown)]_vars

\* Without overlap and faults, the alerts of one outage (no clean run between
\* them) are at least AlertCooldown apart.
OutageAlertsSpaced ==
    [][\A r \in Runs :
          pc[r] = "gate" /\ pc'[r] = "alerting" /\ ~disturbed /\ sameOutage
          => lastAlert >= AlertCooldown]_vars

\* The breaker never blocks for ever, whatever overlapping runs write: the
\* blocked runs themselves must not push the end of the cooldown away.
ProbesForever == []<>(\E r \in Runs : pc[r] = "working")

\* If runs keep being turned away, alerts keep being raised.
OutageIsAnnounced ==
    []<>(\E r \in Runs : pc[r] = "blocked")
      => []<>(\E r \in Runs : pc[r] = "alerting")
=============================================================================
