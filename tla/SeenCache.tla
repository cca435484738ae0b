------------------------------ MODULE SeenCache ------------------------------
(****************************************************************************)
(* The seen cache (seen_cache.py) as the daily automation uses it           *)
(* (automation.py, the search/import loop): several run processes share one *)
(* JSON file of first-seen times, take an advisory flock for every          *)
(* check/import/mark sequence, and POST the offers that are not fresh to    *)
(* the JobTrail backend.                                                    *)
(*                                                                          *)
(* Each element of Runs is one execution of the launcher process.  Time is  *)
(* counted in hours.  Offers in Anonymous have a blank source or job id,    *)
(* hence no cache key.  Faults names the failures the environment may       *)
(* produce: "lock" (open or flock fails), "read" and "write" (the file      *)
(* cannot be read, or replaced), "lost" (the backend stores an import whose *)
(* response never arrives), "crash" (the process dies; the kernel drops its *)
(* flock).                                                                  *)
(****************************************************************************)
EXTENDS Integers

CONSTANTS
    Runs,           \* executions of the automation launcher
    Offers,         \* job offers the searches return
    Anonymous,      \* offers without a (source, sourceJobId) identity
    HoursOld,       \* values of hours_old the search requests carry
    Resetters,      \* runs launched with --reset-seen-cache
    CountProfiles,  \* TRUE iff search profiles are configured
    Faults,         \* failures the environment may produce
    MaxOffers,      \* offers one run handles (bound on its search results)
    MaxTime,        \* bound on the clock
    NoRun,          \* the holder of a free lock
    NoOffer         \* no offer is being imported

FaultKinds == {"lock", "read", "write", "lost", "crash"}

ASSUME ConstantsOK ==
    /\ Offers # {}
    /\ Anonymous \subseteq Offers
    /\ HoursOld # {} /\ HoursOld \subseteq Nat
    /\ Resetters \subseteq Runs
    /\ CountProfiles \in BOOLEAN
    /\ Faults \subseteq FaultKinds
    /\ MaxOffers \in Nat
    /\ MaxTime \in Nat
    /\ NoRun \notin Runs
    /\ NoOffer \notin Offers

VARIABLES
    file,      \* seen.json: first_seen of every offer, or Absent
    holder,    \* the run that holds the flock on seen.json.lock
    clock,     \* time.time()
    pc,        \* where each run is in its import loop
    mem,       \* SeenCache._entries of each run
    offer,     \* the job of the current iteration
    hours,     \* request.hours_old of the current iteration
    todo,      \* jobs the run may still handle
    winners,   \* imported_by_identity of each run
    \* History, read by the properties only.
    accepted,  \* when the backend last stored each offer, or Absent
    excused    \* offers whose last storage was not marked because of a fault

procVars == <<pc, mem, offer, hours, todo, winners>>
history == <<accepted, excused>>
vars == <<file, holder, clock, procVars, history>>

-----------------------------------------------------------------------------

Absent == -1
Time == 0 .. MaxTime
Entries == [Offers -> Time \cup {Absent}]
NoEntries == [o \in Offers |-> Absent]
Identified == Offers \ Anonymous
Stages == {"idle", "ready", "locking", "check", "import", "mark", "release",
           "done"}

TypeOK ==
    /\ file \in Entries
    /\ holder \in Runs \cup {NoRun}
    /\ clock \in Time
    /\ pc \in [Runs -> Stages]
    /\ mem \in [Runs -> Entries]
    /\ offer \in [Runs -> Offers]
    /\ hours \in [Runs -> HoursOld]
    /\ todo \in [Runs -> 0 .. MaxOffers]
    /\ winners \in [Runs -> SUBSET Identified]
    /\ accepted \in Entries
    /\ excused \subseteq Identified

Init ==
    /\ file = NoEntries
    /\ holder = NoRun
    /\ clock = 0
    /\ pc = [r \in Runs |-> "idle"]
    /\ mem = [r \in Runs |-> NoEntries]
    /\ offer \in [Runs -> {CHOOSE o \in Offers : TRUE}]
    /\ hours \in [Runs -> {CHOOSE h \in HoursOld : TRUE}]
    /\ todo = [r \in Runs |-> MaxOffers]
    /\ winners = [r \in Runs |-> {}]
    /\ accepted = NoEntries
    /\ excused = {}

-----------------------------------------------------------------------------
(* The cache's own operations.                                              *)

\* Deviation: a window of hours_old instead of 2 * hours_old.
FreshSingleWindow(entries, o, h) ==
    entries[o] # Absent /\ clock < entries[o] + h

\* should_skip: the entry's TTL is max(age, 2 * hours_old).
Fresh(entries, o, h) ==
    /\ entries[o] # Absent
    /\ LET age == clock - entries[o]
           ttl == IF age > 2 * h THEN age ELSE 2 * h
       IN  clock < entries[o] + ttl

\* _load: a file that cannot be read counts as empty.
Loads == {file} \cup (IF "read" \in Faults THEN {NoEntries} ELSE {})

Goto(r, stage) == pc' = [pc EXCEPT ![r] = stage]

-----------------------------------------------------------------------------
(* One run.                                                                 *)

\* The launcher builds the cache; the constructor loads it without the lock.
Start(r) ==
    /\ pc[r] = "idle"
    /\ r \notin Resetters
    /\ \E snapshot \in Loads : mem' = [mem EXCEPT ![r] = snapshot]
    /\ Goto(r, "ready")
    /\ UNCHANGED <<file, holder, clock, offer, hours, todo, winners, history>>

\* As Start, then reset() rewrites the file, outside any transaction.  A failed
\* write is reported and the run goes on with empty entries.
StartWithReset(r) ==
    /\ pc[r] = "idle"
    /\ r \in Resetters
    /\ mem' = [mem EXCEPT ![r] = NoEntries]
    /\ \/ file' = NoEntries
       \/ "write" \in Faults /\ UNCHANGED file
    /\ Goto(r, "ready")
    /\ UNCHANGED <<holder, clock, offer, hours, todo, winners, accepted,
                   excused>>

\* The loop takes the next job of some search and enters transaction().
NextOffer(r) ==
    /\ pc[r] = "ready"
    /\ todo[r] > 0
    /\ todo' = [todo EXCEPT ![r] = @ - 1]
    /\ \E o \in Offers : offer' = [offer EXCEPT ![r] = o]
    /\ \E h \in HoursOld : hours' = [hours EXCEPT ![r] = h]
    /\ Goto(r, "locking")
    /\ UNCHANGED <<file, holder, clock, mem, winners, history>>

\* Deviation: the transaction keeps the entries loaded at construction.
AcquireWithoutReload(r) ==
    /\ pc[r] = "locking"
    /\ holder = NoRun
    /\ holder' = r
    /\ Goto(r, "check")
    /\ UNCHANGED <<file, clock, mem, offer, hours, todo, winners, history>>

\* Deviation: the lock is shared.
AcquireShared(r) ==
    /\ pc[r] = "locking"
    /\ holder' = r
    /\ \E snapshot \in Loads : mem' = [mem EXCEPT ![r] = snapshot]
    /\ Goto(r, "check")
    /\ UNCHANGED <<file, clock, offer, hours, todo, winners, history>>

\* flock succeeds; the entries are reloaded under the lock.
Acquire(r) ==
    /\ pc[r] = "locking"
    /\ holder = NoRun
    /\ holder' = r
    /\ \E snapshot \in Loads : mem' = [mem EXCEPT ![r] = snapshot]
    /\ Goto(r, "check")
    /\ UNCHANGED <<file, clock, offer, hours, todo, winners, history>>

\* Opening or locking the lock file raised OSError: the body runs unlocked, on
\* the entries of whatever load came last.
LockFails(r) ==
    /\ "lock" \in Faults
    /\ pc[r] = "locking"
    /\ Goto(r, "check")
    /\ UNCHANGED <<file, holder, clock, mem, offer, hours, todo, winners,
                   history>>

\* Another profile of this run already imported the offer.
IsDuplicate(r) == CountProfiles /\ offer[r] \in winners[r]
IsCached(r) == offer[r] \in Identified /\ Fresh(mem[r], offer[r], hours[r])

SkipDuplicate(r) ==
    /\ pc[r] = "check"
    /\ IsDuplicate(r)
    /\ Goto(r, "release")
    /\ UNCHANGED <<file, holder, clock, mem, offer, hours, todo, winners,
                   history>>

SkipCached(r) ==
    /\ pc[r] = "check"
    /\ ~IsDuplicate(r)
    /\ IsCached(r)
    /\ Goto(r, "release")
    /\ UNCHANGED <<file, holder, clock, mem, offer, hours, todo, winners,
                   history>>

Admit(r) ==
    /\ pc[r] = "check"
    /\ ~IsDuplicate(r)
    /\ ~IsCached(r)
    /\ Goto(r, "import")
    /\ UNCHANGED <<file, holder, clock, mem, offer, hours, todo, winners,
                   history>>

\* The backend stores the offer: accepted is the history of its own state.
Stored(o) == accepted' = [accepted EXCEPT ![o] = clock]

\* Deviation: an import that brought no new id is not recorded as seen.
ImportReturnsUnmarked(r) ==
    /\ pc[r] = "import"
    /\ Stored(offer[r])
    /\ \/ /\ offer[r] \in Identified
          /\ winners' = [winners EXCEPT ![r] = @ \cup {offer[r]}]
          /\ Goto(r, "mark")
       \/ UNCHANGED winners /\ Goto(r, "release")
    /\ UNCHANGED <<file, holder, clock, mem, offer, hours, todo, excused>>

\* import_job returns.  Only an id the run has not met yet makes the offer a
\* winner; without one (no id, or the id of another offer) it is only marked.
ImportReturns(r) ==
    /\ pc[r] = "import"
    /\ Stored(offer[r])
    /\ \/ /\ offer[r] \in Identified
          /\ CountProfiles
          /\ winners' = [winners EXCEPT ![r] = @ \cup {offer[r]}]
       \/ UNCHANGED winners
    /\ Goto(r, "mark")
    /\ UNCHANGED <<file, holder, clock, mem, offer, hours, todo, excused>>

\* Deviation: a rejected import is recorded as seen.
ImportRejectedButMarked(r) ==
    /\ pc[r] = "import"
    /\ Goto(r, "mark")
    /\ UNCHANGED <<file, holder, clock, mem, offer, hours, todo, winners,
                   history>>

\* import_job raises before the backend stored anything.
ImportRejected(r) ==
    /\ pc[r] = "import"
    /\ Goto(r, "release")
    /\ UNCHANGED <<file, holder, clock, mem, offer, hours, todo, winners,
                   history>>

\* import_job raises although the backend stored the offer.
ImportResponseLost(r) ==
    /\ "lost" \in Faults
    /\ pc[r] = "import"
    /\ Stored(offer[r])
    /\ excused' = excused \cup ({offer[r]} \cap Identified)
    /\ Goto(r, "release")
    /\ UNCHANGED <<file, holder, clock, mem, offer, hours, todo, winners>>

\* _record_seen of an offer without identity does nothing.
MarkAnonymous(r) ==
    /\ pc[r] = "mark"
    /\ offer[r] \in Anonymous
    /\ Goto(r, "release")
    /\ UNCHANGED <<file, holder, clock, mem, offer, hours, todo, winners,
                   history>>

\* _record_seen: mark_seen stamps the entry and rewrites the whole file from
\* memory; a failed write leaves the stamp in memory only.
Mark(r) ==
    /\ pc[r] = "mark"
    /\ offer[r] \in Identified
    /\ LET marked == [mem[r] EXCEPT ![offer[r]] = clock]
       IN  /\ mem' = [mem EXCEPT ![r] = marked]
           /\ \/ /\ file' = marked
                 /\ excused' = excused \ {offer[r]}
              \/ /\ "write" \in Faults
                 /\ excused' = excused \cup {offer[r]}
                 /\ UNCHANGED file
    /\ Goto(r, "release")
    /\ UNCHANGED <<holder, clock, offer, hours, todo, winners, accepted>>

\* Deviation: the lock is kept when the transaction ends.
KeptLocked(r) == UNCHANGED holder

\* Leaving transaction() unlocks, if this run locked at all.
Freed(r) == holder' = IF holder = r THEN NoRun ELSE holder

Release(r) ==
    /\ pc[r] = "release"
    /\ Freed(r)
    /\ Goto(r, "ready")
    /\ UNCHANGED <<file, clock, mem, offer, hours, todo, winners, history>>

\* The searches returned no further job.
Finish(r) ==
    /\ pc[r] = "ready"
    /\ Goto(r, "done")
    /\ UNCHANGED <<file, holder, clock, mem, offer, hours, todo, winners,
                   history>>

\* The process dies: its flock and its memory go, the file stays.
Crash(r) ==
    /\ "crash" \in Faults
    /\ pc[r] \notin {"idle", "done"}
    /\ Freed(r)
    /\ excused' = IF pc[r] = "mark"
                  THEN excused \cup ({offer[r]} \cap Identified)
                  ELSE excused
    /\ Goto(r, "done")
    /\ UNCHANGED <<file, clock, mem, offer, hours, todo, winners, accepted>>

\* An hour passes.
Tick ==
    /\ clock < MaxTime
    /\ clock' = clock + 1
    /\ UNCHANGED <<file, holder, procVars, history>>

\* Every run has ended.
AllDone ==
    /\ \A r \in Runs : pc[r] = "done"
    /\ UNCHANGED vars

Step(r) ==
    \/ Start(r)
    \/ StartWithReset(r)
    \/ NextOffer(r)
    \/ Acquire(r)
    \/ SkipDuplicate(r)
    \/ SkipCached(r)
    \/ Admit(r)
    \/ ImportReturns(r)
    \/ ImportRejected(r)
    \/ MarkAnonymous(r)
    \/ Mark(r)
    \/ Release(r)
    \/ Finish(r)

Fault(r) == LockFails(r) \/ ImportResponseLost(r) \/ Crash(r)

Next ==
    \/ \E r \in Runs : Step(r) \/ Fault(r)
    \/ Tick
    \/ AllDone

Spec == Init /\ [][Next]_vars

\* A live process keeps executing: import_job has a client timeout, and a
\* blocked flock is granted once the lock stays free.  No fault is ever required.
FairSpec == Spec /\ \A r \in Runs : WF_vars(Step(r))
-----------------------------------------------------------------------------
(* Properties.                                                              *)

\* Locks and reads work and nobody resets the file: the conditions under which
\* transaction() isolates the runs from each other.
Isolating == "lock" \notin Faults /\ "read" \notin Faults /\ Resetters = {}

InTransaction(r) == pc[r] \in {"check", "import", "mark", "release"}

\* The flock excludes: one run at a time is inside the transaction, and until it
\* has marked its offer its entries are exactly those of the file.
TransactionIsolated ==
    \A r \in Runs :
        /\ InTransaction(r) => holder = r
        /\ pc[r] \in {"check", "import", "mark"} => mem[r] = file

Importing(r) == pc[r] = "import" /\ pc'[r] = "mark"

\* transaction() promises that "an overlapping run can never import the same
\* offer twice": whenever an offer is POSTed, seen.json holds no fresh entry
\* for it, whoever wrote the entry and however old this run's first load is.
NoFreshImport ==
    [][\A r \in Runs :
          pc[r] = "import" /\ pc'[r] # "import" /\ offer[r] \in Identified
          => ~Fresh(file, offer[r], hours[r])]_vars

\* No lost update: one run rewriting the whole file never drops, or moves back
\* in time, an entry another run wrote.
MarksPersist == [][\A o \in Offers : file'[o] >= file[o]]_vars

\* Every offer the backend stored is in the file with a stamp at least as late,
\* unless its run is about to mark it or a fault (lost response, failed write,
\* crash before the mark) came between the two.
StoredIsMarked ==
    \A o \in Identified :
        \/ accepted[o] <= file[o]
        \/ o \in excused
        \/ \E r \in Runs : pc[r] = "mark" /\ offer[r] = o

\* An offer is suppressed only if the backend has it: no entry, in the file or
\* in any run's memory, for an offer that was never stored (an import that
\* failed must not be recorded), whatever fails.
SeenWasStored ==
    \A o \in Offers :
        /\ file[o] # Absent => accepted[o] # Absent
        /\ \A r \in Runs : mem[r][o] # Absent => accepted[o] # Absent

\* Overlapping runs behave as one run at a time over one ledger.
Admitted ==
    IF holder # NoRun /\ pc[holder] \in {"import", "mark"}
    THEN offer[holder] ELSE NoOffer

Ledger == INSTANCE OfferLedger WITH ledger <- file, admitted <- Admitted

SerialLedger == Ledger!Spec

\* No run waits for ever: each one that started ends, by itself or by a crash.
EveryRunEnds == \A r \in Runs : pc[r] # "idle" ~> pc[r] = "done"
=============================================================================
