--------------------------- MODULE SeenCacheProofs ---------------------------
(****************************************************************************)
(* Theorems about SeenCache for any number of runs, offers and hours.       *)
(****************************************************************************)
EXTENDS SeenCache, TLAPS

LEMMA TypeCorrectInit == Init => TypeOK
BY ConstantsOK DEF Init, TypeOK, Entries, Time, Absent, NoEntries, Stages

LEMMA TypeCorrectStep == TypeOK /\ [Next]_vars => TypeOK'
<1>. USE ConstantsOK DEF TypeOK, Entries, Time, Absent, NoEntries, Identified,
                         Stages, Goto, procVars, history
<1>. SUFFICES ASSUME TypeOK, [Next]_vars
              PROVE  TypeOK'
  OBVIOUS
<1>1. ASSUME NEW r \in Runs, Start(r)
      PROVE  TypeOK'
  BY <1>1 DEF Start, Loads
<1>2. ASSUME NEW r \in Runs, StartWithReset(r)
      PROVE  TypeOK'
  BY <1>2 DEF StartWithReset
<1>3. ASSUME NEW r \in Runs, NextOffer(r)
      PROVE  TypeOK'
  BY <1>3 DEF NextOffer
<1>4. ASSUME NEW r \in Runs, Acquire(r)
      PROVE  TypeOK'
  BY <1>4 DEF Acquire, Loads
<1>5. ASSUME NEW r \in Runs, LockFails(r)
      PROVE  TypeOK'
  BY <1>5 DEF LockFails
<1>6. ASSUME NEW r \in Runs, SkipDuplicate(r) \/ SkipCached(r) \/ Admit(r)
      PROVE  TypeOK'
  BY <1>6 DEF SkipDuplicate, SkipCached, Admit
<1>7. ASSUME NEW r \in Runs, ImportReturns(r)
      PROVE  TypeOK'
  <2>1. accepted' \in Entries
    BY <1>7 DEF ImportReturns, Stored
  <2>2. CASE UNCHANGED winners
    BY <1>7, <2>1, <2>2 DEF ImportReturns
  <2>3. CASE /\ offer[r] \in Identified
             /\ winners' = [winners EXCEPT ![r] = @ \cup {offer[r]}]
    <3>1. winners[r] \cup {offer[r]} \in SUBSET Identified
      BY <2>3
    <3>2. winners' \in [Runs -> SUBSET Identified]
      BY <2>3, <3>1
    <3>. QED
      BY <1>7, <2>1, <3>2 DEF ImportReturns
  <2>. QED
    BY <1>7, <2>2, <2>3 DEF ImportReturns
<1>8. ASSUME NEW r \in Runs, ImportRejected(r)
      PROVE  TypeOK'
  BY <1>8 DEF ImportRejected
<1>9. ASSUME NEW r \in Runs, ImportResponseLost(r)
      PROVE  TypeOK'
  BY <1>9 DEF ImportResponseLost, Stored
<1>10. ASSUME NEW r \in Runs, MarkAnonymous(r)
       PROVE  TypeOK'
  BY <1>10 DEF MarkAnonymous
<1>11. ASSUME NEW r \in Runs, Mark(r)
       PROVE  TypeOK'
  <2>. DEFINE marked == [mem[r] EXCEPT ![offer[r]] = clock]
  <2>1. marked \in Entries
    OBVIOUS
  <2>2. mem' \in [Runs -> Entries] /\ file' \in Entries
    BY <1>11, <2>1 DEF Mark
  <2>3. excused' \subseteq Identified
    BY <1>11 DEF Mark
  <2>4. pc' \in [Runs -> Stages]
    BY <1>11 DEF Mark
  <2>. QED
    BY <1>11, <2>2, <2>3, <2>4 DEF Mark
<1>12. ASSUME NEW r \in Runs, Release(r)
       PROVE  TypeOK'
  BY <1>12 DEF Release, Freed
<1>13. ASSUME NEW r \in Runs, Finish(r)
       PROVE  TypeOK'
  BY <1>13 DEF Finish
<1>14. ASSUME NEW r \in Runs, Crash(r)
       PROVE  TypeOK'
  BY <1>14 DEF Crash, Freed
<1>15. CASE Tick
  BY <1>15 DEF Tick
<1>16. CASE UNCHANGED vars
  BY <1>16 DEF vars
<1>. QED
  BY <1>1, <1>2, <1>3, <1>4, <1>5, <1>6, <1>7, <1>8, <1>9, <1>10, <1>11,
     <1>12, <1>13, <1>14, <1>15, <1>16 DEF Next, Step, Fault, AllDone

\* Every variable stays in its type, whatever fails.
THEOREM TypeCorrect == Spec => []TypeOK
BY TypeCorrectInit, TypeCorrectStep, PTL DEF Spec

-----------------------------------------------------------------------------
(* Isolation.                                                               *)

\* should_skip's window max(age, 2 * hours_old) is a plain one: an entry is fresh
\* while it is younger than 2 * hours_old.
LEMMA FreshWindow ==
    ASSUME TypeOK, NEW e \in Entries, NEW o \in Offers, NEW h \in HoursOld
    PROVE  Fresh(e, o, h) <=> e[o] # Absent /\ clock - e[o] < 2 * h
<1>1. clock \in Int /\ e[o] \in Int /\ h \in Int
  BY ConstantsOK DEF TypeOK, Entries, Time, Absent
<1>. QED
  BY <1>1 DEF Fresh

\* No stamp lies in the future.
StampsPast == \A o \in Offers : file[o] <= clock

\* What an importing run decided still holds.
AdmittedExpired ==
    \A r \in Runs : pc[r] = "import" => ~IsCached(r)

IsolationInv ==
    /\ TypeOK
    /\ TransactionIsolated
    /\ StampsPast
    /\ AdmittedExpired

LEMMA InitIsolated == Init => IsolationInv
<1>. SUFFICES ASSUME Init PROVE IsolationInv
  OBVIOUS
<1>1. TypeOK
  BY TypeCorrectInit
<1>2. TransactionIsolated /\ AdmittedExpired
  BY DEF Init, TransactionIsolated, AdmittedExpired, InTransaction
<1>3. StampsPast
  BY DEF Init, StampsPast, NoEntries, Absent
<1>. QED
  BY <1>1, <1>2, <1>3 DEF IsolationInv

\* The check of a run depends on its own entries, its job and the time only.
LEMMA CachedFrame ==
    ASSUME NEW q \in Runs, clock' = clock, mem'[q] = mem[q],
           offer'[q] = offer[q], hours'[q] = hours[q]
    PROVE  IsCached(q)' <=> IsCached(q)
BY DEF IsCached, Fresh

\* A step of run r that leaves the file, the lock and the clock alone, and its own
\* entries if it stays in the transaction, keeps the runs isolated.
LEMMA LocalStep ==
    ASSUME IsolationInv, TypeOK', NEW r \in Runs, NEW stage \in Stages,
           Goto(r, stage), UNCHANGED <<file, holder, clock>>,
           \A q \in Runs \ {r} : /\ mem'[q] = mem[q]
                                 /\ offer'[q] = offer[q]
                                 /\ hours'[q] = hours[q],
           stage \in {"check", "import", "mark", "release"}
             => InTransaction(r),
           stage \in {"check", "import", "mark"} => mem'[r] = file,
           stage = "import" => ~IsCached(r)'
    PROVE  IsolationInv'
<1>. USE DEF IsolationInv
<1>1. \A q \in Runs : pc'[q] = IF q = r THEN stage ELSE pc[q]
  BY DEF TypeOK, Goto
<1>2. TransactionIsolated'
  BY <1>1 DEF TransactionIsolated, InTransaction
<1>3. StampsPast'
  BY DEF StampsPast
<1>4. AdmittedExpired'
  <2>. SUFFICES ASSUME NEW q \in Runs, pc'[q] = "import"
                PROVE  ~IsCached(q)'
    BY DEF AdmittedExpired
  <2>1. CASE q = r
    BY <1>1, <2>1
  <2>2. CASE q # r
    BY <1>1, <2>2, CachedFrame DEF AdmittedExpired
  <2>. QED
    BY <2>1, <2>2
<1>. QED
  BY <1>2, <1>3, <1>4

LEMMA IsolationStep == Isolating /\ IsolationInv /\ [Next]_vars => IsolationInv'
<1>. SUFFICES ASSUME Isolating, IsolationInv, [Next]_vars
              PROVE  IsolationInv'
  OBVIOUS
<1>. USE DEF IsolationInv
<1>0. TypeOK'
  BY TypeCorrectStep
<1>1. ASSUME NEW r \in Runs, Start(r)
      PROVE  IsolationInv'
  BY <1>0, <1>1, LocalStep DEF Start, Loads, TypeOK, Stages, history
<1>2. ASSUME NEW r \in Runs, StartWithReset(r)
      PROVE  FALSE
  BY <1>2 DEF StartWithReset, Isolating
<1>3. ASSUME NEW r \in Runs, NextOffer(r)
      PROVE  IsolationInv'
  BY <1>0, <1>3, LocalStep DEF NextOffer, TypeOK, Stages, history
<1>4. ASSUME NEW r \in Runs, Acquire(r)
      PROVE  IsolationInv'
  <2>. USE <1>4 DEF Acquire
  <2>1. mem'[r] = file
    BY DEF Loads, Isolating, TypeOK
  <2>2. \A q \in Runs : ~InTransaction(q)
    BY ConstantsOK DEF TransactionIsolated
  <2>3. \A q \in Runs : pc'[q] = IF q = r THEN "check" ELSE pc[q]
    BY DEF TypeOK, Goto
  <2>4. TransactionIsolated'
    BY <2>1, <2>2, <2>3 DEF TransactionIsolated, InTransaction
  <2>5. StampsPast'
    BY DEF StampsPast
  <2>6. AdmittedExpired'
    BY <2>2, <2>3 DEF AdmittedExpired, InTransaction
  <2>. QED
    BY <1>0, <2>4, <2>5, <2>6
<1>5. ASSUME NEW r \in Runs, LockFails(r)
      PROVE  FALSE
  BY <1>5 DEF LockFails, Isolating
<1>6. ASSUME NEW r \in Runs, SkipDuplicate(r) \/ SkipCached(r)
      PROVE  IsolationInv'
  <2>1. InTransaction(r)
    BY <1>6 DEF SkipDuplicate, SkipCached, InTransaction
  <2>. QED
    BY <1>0, <1>6, <2>1, LocalStep
       DEF SkipDuplicate, SkipCached, Stages, history
<1>7. ASSUME NEW r \in Runs, Admit(r)
      PROVE  IsolationInv'
  <2>1. InTransaction(r) /\ mem'[r] = file
    BY <1>7 DEF Admit, InTransaction, TransactionIsolated
  <2>2. ~IsCached(r)'
    BY <1>7, CachedFrame DEF Admit
  <2>. QED
    BY <1>0, <1>7, <2>1, <2>2, LocalStep DEF Admit, Stages, history
<1>8. ASSUME NEW r \in Runs,
             ImportReturns(r) \/ ImportRejected(r) \/ ImportResponseLost(r)
      PROVE  IsolationInv'
  <2>. DEFINE stage == IF ImportReturns(r) THEN "mark" ELSE "release"
  <2>1. pc[r] = "import" /\ UNCHANGED <<file, holder, clock, mem, offer, hours>>
    BY <1>8 DEF ImportReturns, ImportRejected, ImportResponseLost, history
  <2>2. InTransaction(r) /\ mem'[r] = file
    BY <2>1 DEF InTransaction, TransactionIsolated
  <2>3. Goto(r, stage) /\ stage \in {"mark", "release"}
    BY <1>8 DEF ImportReturns, ImportRejected, ImportResponseLost
  <2>. HIDE DEF stage
  <2>. QED
    BY <1>0, <2>1, <2>2, <2>3, LocalStep DEF Stages
<1>9. ASSUME NEW r \in Runs, MarkAnonymous(r)
      PROVE  IsolationInv'
  <2>1. InTransaction(r)
    BY <1>9 DEF MarkAnonymous, InTransaction
  <2>. QED
    BY <1>0, <1>9, <2>1, LocalStep DEF MarkAnonymous, Stages, history
<1>10. ASSUME NEW r \in Runs, Mark(r)
       PROVE  IsolationInv'
  <2>. USE <1>10 DEF Mark
  <2>1. holder = r /\ mem[r] = file
    BY DEF TransactionIsolated, InTransaction
  <2>2. \A q \in Runs \ {r} : ~InTransaction(q)
    BY <2>1 DEF TransactionIsolated
  <2>3. \A q \in Runs : pc'[q] = IF q = r THEN "release" ELSE pc[q]
    BY DEF TypeOK, Goto
  <2>4. TransactionIsolated'
    BY <2>1, <2>2, <2>3 DEF TransactionIsolated, InTransaction
  <2>5. \A o \in Offers : file'[o] \in {file[o], clock}
    BY <2>1 DEF TypeOK, Entries
  <2>6. StampsPast'
    BY <2>5 DEF StampsPast, TypeOK, Time
  <2>7. AdmittedExpired'
    BY <2>2, <2>3 DEF AdmittedExpired, InTransaction
  <2>. QED
    BY <1>0, <2>4, <2>6, <2>7
<1>11. ASSUME NEW r \in Runs, Release(r) \/ Crash(r)
       PROVE  IsolationInv'
  <2>1. /\ UNCHANGED <<file, clock, mem, offer, hours>>
        /\ Freed(r)
        /\ \A q \in Runs \ {r} : pc'[q] = pc[q]
        /\ pc'[r] \in {"ready", "done"}
    BY <1>11 DEF Release, Crash, history, Goto, TypeOK
  <2>2. TransactionIsolated'
    BY <2>1 DEF TransactionIsolated, InTransaction, Freed
  <2>3. StampsPast'
    BY <2>1 DEF StampsPast
  <2>4. AdmittedExpired'
    BY <2>1, CachedFrame DEF AdmittedExpired
  <2>. QED
    BY <1>0, <2>2, <2>3, <2>4
<1>12. ASSUME NEW r \in Runs, Finish(r)
       PROVE  IsolationInv'
  BY <1>0, <1>12, LocalStep DEF Finish, Stages, history
<1>13. CASE Tick
  <2>1. TransactionIsolated'
    BY <1>13 DEF Tick, procVars, TransactionIsolated, InTransaction
  <2>2. StampsPast'
    BY <1>13 DEF Tick, StampsPast, TypeOK, Time, Entries, Absent
  <2>3. ASSUME NEW q \in Runs, pc[q] = "import", ~IsCached(q)
        PROVE  ~IsCached(q)'
    <3>1. /\ mem[q] \in Entries /\ offer[q] \in Offers /\ hours[q] \in HoursOld
          /\ clock \in Int /\ clock' = clock + 1
          /\ UNCHANGED <<mem, offer, hours>>
      BY <1>13 DEF Tick, procVars, TypeOK, Time
    <3>2. mem[q][offer[q]] \in Int /\ hours[q] \in Int
      <4>1. mem[q][offer[q]] \in Time \cup {Absent}
        BY <3>1 DEF Entries
      <4>2. mem[q][offer[q]] \in Int
        BY <4>1 DEF Time, Absent
      <4>3. HoursOld \subseteq Int
        BY ConstantsOK
      <4>4. hours[q] \in HoursOld
        BY <3>1
      <4>. QED
        BY <4>2, <4>3, <4>4
    <3>3. IsCached(q) <=> /\ offer[q] \in Identified
                          /\ mem[q][offer[q]] # Absent
                          /\ clock - mem[q][offer[q]] < 2 * hours[q]
      BY <3>1, FreshWindow DEF IsCached
    <3>4. TypeOK /\ TypeOK'
      BY <1>0
    <3>5. IsCached(q)' <=> /\ offer[q] \in Identified
                           /\ mem[q][offer[q]] # Absent
                           /\ clock + 1 - mem[q][offer[q]] < 2 * hours[q]
      BY <3>1, <3>2, <3>4 DEF IsCached, Fresh, Absent
    <3>. QED
      BY <2>3, <3>1, <3>2, <3>3, <3>5
  <2>4. AdmittedExpired'
    BY <1>13, <2>3 DEF AdmittedExpired, Tick, procVars
  <2>. QED
    BY <1>0, <2>1, <2>2, <2>4
<1>14. CASE UNCHANGED vars
  <2>1. TransactionIsolated' /\ StampsPast'
    BY <1>14 DEF vars, procVars, TransactionIsolated, InTransaction, StampsPast
  <2>2. AdmittedExpired'
    BY <1>14, CachedFrame DEF vars, procVars, AdmittedExpired
  <2>. QED
    BY <1>0, <2>1, <2>2
<1>. QED
  BY <1>1, <1>2, <1>3, <1>4, <1>5, <1>6, <1>7, <1>8, <1>9, <1>10, <1>11,
     <1>12, <1>13, <1>14 DEF Next, Step, Fault, AllDone

THEOREM Isolation == Isolating => (Spec => []IsolationInv)
<1>. SUFFICES ASSUME Isolating PROVE Spec => []IsolationInv
  OBVIOUS
<1>1. IsolationInv /\ [Next]_vars => IsolationInv'
  BY IsolationStep
<1>. QED
  BY <1>1, InitIsolated, PTL DEF Spec

\* transaction(): the runs exclude each other and work on what the file holds.
THEOREM TransactionsIsolated == Isolating => (Spec => []TransactionIsolated)
<1>. SUFFICES ASSUME Isolating PROVE Spec => []TransactionIsolated
  OBVIOUS
<1>1. IsolationInv => TransactionIsolated
  BY DEF IsolationInv
<1>. QED
  BY <1>1, Isolation, PTL

\* An overlapping run never imports an offer the file holds fresh.
THEOREM NoFreshImports == Isolating => (Spec => NoFreshImport)
<1>. SUFFICES ASSUME Isolating PROVE Spec => NoFreshImport
  OBVIOUS
<1>1. IsolationInv => ~(\E r \in Runs : /\ pc[r] = "import"
                                        /\ offer[r] \in Identified
                                        /\ Fresh(file, offer[r], hours[r]))
  BY DEF IsolationInv, AdmittedExpired, IsCached, TransactionIsolated
<1>2. IsolationInv /\ [Next]_vars
        => [\A r \in Runs :
              pc[r] = "import" /\ pc'[r] # "import" /\ offer[r] \in Identified
              => ~Fresh(file, offer[r], hours[r])]_vars
  BY <1>1
<1>. QED
  BY <1>2, Isolation, PTL DEF Spec, NoFreshImport

\* No run's rewrite of the file drops or rewinds another run's entry.
THEOREM MarksPersistent == Isolating => (Spec => MarksPersist)
<1>. SUFFICES ASSUME Isolating PROVE Spec => MarksPersist
  OBVIOUS
<1>1. IsolationInv /\ [Next]_vars => [\A o \in Offers : file'[o] >= file[o]]_vars
  <2>. SUFFICES ASSUME IsolationInv, [Next]_vars, ~UNCHANGED vars,
                       NEW o \in Offers
                PROVE  file'[o] >= file[o]
    OBVIOUS
  <2>0. file[o] \in Int /\ clock \in Int /\ file[o] <= clock
    BY ConstantsOK DEF IsolationInv, TypeOK, Entries, Time, Absent, StampsPast
  <2>1. ASSUME NEW r \in Runs, Mark(r)
        PROVE  file'[o] \in {file[o], clock}
    <3>1. mem[r] = file
      BY <2>1 DEF Mark, IsolationInv, TransactionIsolated
    <3>. QED
      BY <2>1, <3>1 DEF Mark, IsolationInv, TypeOK, Entries
  <2>2. CASE \E r \in Runs : Mark(r)
    BY <2>0, <2>1, <2>2
  <2>3. CASE ~\E r \in Runs : Mark(r)
    <3>1. UNCHANGED file
      BY <2>3 DEF Next, Step, Fault, Start, StartWithReset, NextOffer, Acquire,
         LockFails, SkipDuplicate, SkipCached, Admit, ImportReturns,
         ImportRejected, ImportResponseLost, MarkAnonymous, Release, Finish,
         Crash, Tick, AllDone, vars, Isolating
    <3>. QED
      BY <2>0, <3>1
  <2>. QED
    BY <2>2, <2>3
<1>. QED
  BY <1>1, Isolation, PTL DEF Spec, MarksPersist

-----------------------------------------------------------------------------
(* What the backend stored and what the cache remembers.                    *)

\* The backend only ever adds storage times, and they are those of the clock.
LEMMA AcceptedFrame ==
    ASSUME TypeOK, [Next]_vars
    PROVE  /\ clock' >= clock
           /\ \A o \in Offers : accepted'[o] \in {accepted[o], clock}
<1>. USE DEF history, procVars
<1>0. clock \in Int /\ accepted \in Entries
  BY DEF TypeOK, Time
<1>1. ASSUME NEW r \in Runs, ImportReturns(r) \/ ImportResponseLost(r)
      PROVE  /\ clock' = clock
             /\ \A o \in Offers : accepted'[o] \in {accepted[o], clock}
  BY <1>0, <1>1 DEF ImportReturns, ImportResponseLost, Stored, Entries
<1>2. ASSUME NEW r \in Runs, Step(r) \/ Fault(r),
             ~ImportReturns(r), ~ImportResponseLost(r)
      PROVE  UNCHANGED <<clock, accepted>>
  BY <1>2 DEF Step, Fault, Start, StartWithReset, NextOffer, Acquire, LockFails,
     SkipDuplicate, SkipCached, Admit, ImportRejected, MarkAnonymous, Mark,
     Release, Finish, Crash
<1>3. CASE Tick
  BY <1>0, <1>3 DEF Tick
<1>4. CASE UNCHANGED vars
  BY <1>0, <1>4 DEF vars
<1>. QED
  BY <1>0, <1>1, <1>2, <1>3, <1>4 DEF Next, AllDone

\* A run that is about to mark an offer has had it stored.
MarkingStored ==
    \A r \in Runs : pc[r] = "mark" => accepted[offer[r]] # Absent

SeenInv == TypeOK /\ SeenWasStored /\ MarkingStored

LEMMA SeenStep == SeenInv /\ [Next]_vars => SeenInv'
<1>. SUFFICES ASSUME SeenInv, [Next]_vars
              PROVE  SeenInv'
  OBVIOUS
<1>. USE DEF SeenInv
<1>0. TypeOK'
  BY TypeCorrectStep
<1>1. clock # Absent
  BY DEF TypeOK, Time, Absent
<1>2. \A o \in Offers : accepted[o] # Absent => accepted'[o] # Absent
  BY <1>1, AcceptedFrame
<1>3. ASSUME NEW r \in Runs, pc'[r] = "mark"
      PROVE  accepted'[offer'[r]] # Absent
  <2>1. CASE ImportReturns(r)
    BY <1>1, <2>1 DEF ImportReturns, Stored, TypeOK, Entries
  <2>2. CASE ~ImportReturns(r)
    <3>1. ASSUME NEW q \in Runs, Step(q) \/ Fault(q), ~ImportReturns(r)
          PROVE  pc[r] = "mark" /\ offer'[r] = offer[r]
      BY <1>3, <3>1 DEF Step, Fault, Start, StartWithReset, NextOffer, Acquire,
         LockFails, SkipDuplicate, SkipCached, Admit, ImportReturns,
         ImportRejected, ImportResponseLost, MarkAnonymous, Mark, Release,
         Finish, Crash, Goto, TypeOK, history
    <3>2. pc[r] = "mark" /\ offer'[r] = offer[r]
      BY <1>3, <2>2, <3>1 DEF Next, Tick, AllDone, vars, procVars
    <3>. QED
      BY <1>2, <3>2 DEF MarkingStored, TypeOK
  <2>. QED
    BY <2>1, <2>2
<1>4. MarkingStored'
  BY <1>3 DEF MarkingStored
<1>5. ASSUME NEW r \in Runs, Start(r) \/ Acquire(r)
      PROVE  SeenWasStored'
  <2>1. /\ file' = file /\ accepted' = accepted
        /\ mem' = [mem EXCEPT ![r] = file] \/ mem' = [mem EXCEPT ![r] = NoEntries]
    BY <1>5 DEF Start, Acquire, Loads, history
  <2>2. ASSUME NEW q \in Runs, NEW o \in Offers, mem'[q][o] # Absent
        PROVE  mem[q][o] # Absent \/ file[o] # Absent
    BY <2>1, <2>2 DEF NoEntries, TypeOK
  <2>. QED
    BY <2>1, <2>2 DEF SeenWasStored
<1>6. ASSUME NEW r \in Runs, StartWithReset(r)
      PROVE  SeenWasStored'
  <2>1. ASSUME NEW q \in Runs, NEW o \in Offers
        PROVE  /\ mem'[q][o] # Absent => mem[q][o] # Absent
               /\ file'[o] # Absent => file[o] # Absent
    BY <1>6 DEF StartWithReset, NoEntries, TypeOK
  <2>. QED
    BY <1>6, <2>1 DEF StartWithReset, SeenWasStored, NoEntries
<1>7. ASSUME NEW r \in Runs, Mark(r)
      PROVE  SeenWasStored'
  <2>. DEFINE marked == [mem[r] EXCEPT ![offer[r]] = clock]
  <2>1. /\ accepted' = accepted /\ accepted[offer[r]] # Absent
        /\ mem' = [mem EXCEPT ![r] = marked]
        /\ file' = marked \/ file' = file
    BY <1>7 DEF Mark, MarkingStored
  <2>2. ASSUME NEW o \in Offers, marked[o] # Absent
        PROVE  accepted[o] # Absent
    BY <2>1, <2>2 DEF SeenWasStored, TypeOK, Entries
  <2>. HIDE DEF marked
  <2>. QED
    BY <2>1, <2>2 DEF SeenWasStored, TypeOK
<1>8. ASSUME UNCHANGED <<file, mem>>
      PROVE  SeenWasStored'
  BY <1>2, <1>8 DEF SeenWasStored
<1>9. SeenWasStored'
  <2>1. ASSUME NEW r \in Runs, Step(r) \/ Fault(r), ~Start(r), ~Acquire(r),
               ~StartWithReset(r), ~Mark(r)
        PROVE  UNCHANGED <<file, mem>>
    BY <2>1 DEF Step, Fault, NextOffer, LockFails, SkipDuplicate, SkipCached,
       Admit, ImportReturns, ImportRejected, ImportResponseLost, MarkAnonymous,
       Release, Finish, Crash
  <2>2. CASE Tick \/ UNCHANGED vars
    BY <1>8, <2>2 DEF Tick, vars, procVars
  <2>. QED
    BY <1>5, <1>6, <1>7, <1>8, <2>1, <2>2 DEF Next, AllDone
<1>. QED
  BY <1>0, <1>4, <1>9

\* No entry, in the file or in a run's memory, for an offer the backend never
\* stored: whatever fails, and with resets, only a real import suppresses.
THEOREM SeenWereStored == Spec => []SeenWasStored
<1>1. Init => SeenInv
  BY TypeCorrectInit
     DEF Init, SeenInv, SeenWasStored, MarkingStored, NoEntries
<1>2. SeenInv => SeenWasStored
  BY DEF SeenInv
<1>. QED
  BY <1>1, <1>2, SeenStep, PTL DEF Spec

\* The backend has no storage time ahead of the clock.
AcceptedPast == \A o \in Offers : accepted[o] <= clock

MarkInv == IsolationInv /\ AcceptedPast /\ StoredIsMarked

\* A step that leaves the file and the stored offers alone, excuses no fewer and
\* takes no run out of its mark keeps every stored offer accounted for.
LEMMA MarkFrame ==
    ASSUME StoredIsMarked, UNCHANGED <<file, accepted>>, excused \subseteq excused',
           \A q \in Runs : pc[q] = "mark" =>
              \/ pc'[q] = "mark" /\ offer'[q] = offer[q]
              \/ offer[q] \notin Identified
              \/ offer[q] \in excused'
    PROVE  StoredIsMarked'
BY DEF StoredIsMarked

LEMMA MarkStep == Isolating /\ MarkInv /\ [Next]_vars => MarkInv'
<1>. SUFFICES ASSUME Isolating, MarkInv, [Next]_vars
              PROVE  MarkInv'
  OBVIOUS
<1>. USE DEF MarkInv
<1>1. IsolationInv'
  BY IsolationStep
<1>2. TypeOK
  BY DEF IsolationInv
<1>3. clock \in Int /\ clock' \in Int
  BY <1>1, <1>2 DEF IsolationInv, TypeOK, Time
<1>4. \A o \in Offers : accepted[o] \in Int
  BY <1>2 DEF TypeOK, Entries, Time, Absent
<1>5. AcceptedPast'
  BY <1>2, <1>3, <1>4, AcceptedFrame DEF AcceptedPast
<1>6. ASSUME NEW r \in Runs, ImportReturns(r)
      PROVE  StoredIsMarked'
  <2>1. /\ pc[r] = "import" /\ pc' = [pc EXCEPT ![r] = "mark"]
        /\ UNCHANGED <<file, offer, excused>>
        /\ accepted' = [accepted EXCEPT ![offer[r]] = clock]
    BY <1>6 DEF ImportReturns, Goto, Stored
  <2>. QED
    BY <1>2, <2>1 DEF StoredIsMarked, TypeOK, Entries, Identified
<1>7. ASSUME NEW r \in Runs, ImportResponseLost(r)
      PROVE  StoredIsMarked'
  <2>1. /\ pc[r] = "import" /\ pc' = [pc EXCEPT ![r] = "release"]
        /\ UNCHANGED <<file, offer>>
        /\ accepted' = [accepted EXCEPT ![offer[r]] = clock]
        /\ excused' = excused \cup ({offer[r]} \cap Identified)
    BY <1>7 DEF ImportResponseLost, Goto, Stored
  <2>. QED
    BY <1>2, <2>1 DEF StoredIsMarked, TypeOK, Entries, Identified
<1>8. ASSUME NEW r \in Runs, Mark(r)
      PROVE  StoredIsMarked'
  <2>1. /\ mem[r] = file /\ offer[r] \in Offers
        /\ pc[r] = "mark" /\ pc' = [pc EXCEPT ![r] = "release"]
        /\ UNCHANGED <<offer, accepted, clock>>
        /\ \/ /\ file' = [file EXCEPT ![offer[r]] = clock]
              /\ excused' = excused \ {offer[r]}
           \/ /\ file' = file
              /\ excused' = excused \cup {offer[r]}
    BY <1>2, <1>8 DEF Mark, Goto, IsolationInv, TransactionIsolated, TypeOK
  <2>2. \A q \in Runs \ {r} : pc'[q] = pc[q]
    BY <1>2, <2>1 DEF TypeOK
  <2>3. ASSUME NEW o \in Identified, o # offer[r]
        PROVE  /\ file'[o] = file[o]
               /\ o \in excused => o \in excused'
    BY <1>2, <2>1, <2>3 DEF TypeOK, Entries, Identified
  <2>4. accepted'[offer[r]] <= file'[offer[r]] \/ offer[r] \in excused'
    BY <1>2, <2>1 DEF AcceptedPast, TypeOK, Entries
  <2>. QED
    BY <2>1, <2>2, <2>3, <2>4 DEF StoredIsMarked
<1>9. ASSUME NEW r \in Runs, Crash(r)
      PROVE  StoredIsMarked'
  <2>1. /\ UNCHANGED <<file, accepted, offer>>
        /\ pc' = [pc EXCEPT ![r] = "done"]
        /\ excused \subseteq excused'
        /\ pc[r] = "mark" /\ offer[r] \in Identified => offer[r] \in excused'
    BY <1>9 DEF Crash, Goto
  <2>. QED
    BY <1>2, <2>1, MarkFrame DEF TypeOK
<1>10. ASSUME NEW r \in Runs, Step(r) \/ Fault(r), ~ImportReturns(r),
              ~ImportResponseLost(r), ~Mark(r), ~Crash(r)
       PROVE  StoredIsMarked'
  <2>1. /\ UNCHANGED <<file, accepted, excused>>
        /\ pc[r] = "mark" => offer[r] \in Anonymous
        /\ \A q \in Runs \ {r} : pc'[q] = pc[q] /\ offer'[q] = offer[q]
    BY <1>2, <1>10 DEF Isolating, Step, Fault, Start, StartWithReset, NextOffer,
       Acquire, LockFails, SkipDuplicate, SkipCached, Admit, ImportRejected,
       MarkAnonymous, Release, Finish, Goto, TypeOK, history
  <2>. QED
    BY <2>1, MarkFrame DEF Identified
<1>11. ASSUME Tick \/ UNCHANGED vars
       PROVE  StoredIsMarked'
  BY <1>11, MarkFrame DEF Tick, vars, procVars, history
<1>. QED
  BY <1>1, <1>5, <1>6, <1>7, <1>8, <1>9, <1>10, <1>11 DEF Next, AllDone

\* Every offer the backend stored is in the file with a stamp at least as late,
\* is about to be marked, or met a fault in between: no write of another run
\* takes a mark away again.
THEOREM StoredAreMarked == Isolating => (Spec => []StoredIsMarked)
<1>. SUFFICES ASSUME Isolating PROVE Spec => []StoredIsMarked
  OBVIOUS
<1>1. Init => MarkInv
  BY InitIsolated
     DEF Init, MarkInv, AcceptedPast, StoredIsMarked, NoEntries, Absent,
         Identified
<1>2. MarkInv /\ [Next]_vars => MarkInv'
  BY MarkStep
<1>3. MarkInv => StoredIsMarked
  BY DEF MarkInv
<1>. QED
  BY <1>1, <1>2, <1>3, PTL DEF Spec

-----------------------------------------------------------------------------
(* Overlapping runs implement one serial ledger.                            *)

LEMMA LedgerInit == Init => Ledger!Init
BY ConstantsOK
   DEF Init, Ledger!Init, Admitted, NoEntries, Absent, Ledger!Absent

\* A step that leaves file and clock alone and does not change what is admitted
\* is a stuttering step of the ledger.
LEMMA LedgerStep ==
    Isolating /\ IsolationInv /\ [Next]_vars => [Ledger!Next]_(Ledger!vars)
<1>. SUFFICES ASSUME Isolating, IsolationInv, [Next]_vars
              PROVE  Ledger!Next \/ UNCHANGED Ledger!vars
  OBVIOUS
<1>. USE DEF IsolationInv
<1>1. \A q \in Runs : InTransaction(q) => holder = q
  BY DEF TransactionIsolated
<1>2. ASSUME NEW r \in Runs, Start(r)
      PROVE  UNCHANGED Ledger!vars
  <2>1. UNCHANGED <<file, clock, holder, offer>> /\ pc[r] = "idle"
        /\ pc' = [pc EXCEPT ![r] = "ready"]
    BY <1>2 DEF Start, Goto, history
  <2>. QED
    BY <2>1 DEF Ledger!vars, Admitted, TypeOK
<1>3. ASSUME NEW r \in Runs,
             StartWithReset(r) \/ LockFails(r)
      PROVE  FALSE
  BY <1>3 DEF StartWithReset, LockFails, Isolating
<1>4. ASSUME NEW r \in Runs, NextOffer(r)
      PROVE  UNCHANGED Ledger!vars
  <2>1. /\ UNCHANGED <<file, clock, holder>> /\ pc[r] = "ready"
        /\ pc' = [pc EXCEPT ![r] = "locking"]
        /\ \A q \in Runs \ {r} : offer'[q] = offer[q]
    BY <1>4 DEF NextOffer, Goto, history, TypeOK
  <2>. QED
    BY <2>1, ConstantsOK DEF Ledger!vars, Admitted, TypeOK
<1>5. ASSUME NEW r \in Runs, Acquire(r)
      PROVE  UNCHANGED Ledger!vars
  <2>1. /\ UNCHANGED <<file, clock, offer>> /\ holder = NoRun /\ holder' = r
        /\ pc' = [pc EXCEPT ![r] = "check"]
    BY <1>5 DEF Acquire, Goto, history
  <2>. QED
    BY <2>1 DEF Ledger!vars, Admitted, TypeOK
<1>6. ASSUME NEW r \in Runs, SkipDuplicate(r) \/ SkipCached(r) \/ Finish(r)
      PROVE  UNCHANGED Ledger!vars
  <2>. PICK stage \in {"release", "done"} : pc' = [pc EXCEPT ![r] = stage]
    BY <1>6 DEF SkipDuplicate, SkipCached, Finish, Goto
  <2>1. UNCHANGED <<file, clock, holder, offer>> /\ pc[r] \in {"check", "ready"}
    BY <1>6 DEF SkipDuplicate, SkipCached, Finish, history
  <2>. QED
    BY <2>1 DEF Ledger!vars, Admitted, TypeOK
<1>7. ASSUME NEW r \in Runs, Admit(r)
      PROVE  Ledger!Admit(offer[r])
  <2>1. /\ UNCHANGED <<file, clock, holder, offer>> /\ pc[r] = "check"
        /\ pc' = [pc EXCEPT ![r] = "import"] /\ ~IsCached(r)
    BY <1>7 DEF Admit, Goto, history
  <2>2. holder = r /\ r # NoRun /\ mem[r] = file
    BY <2>1, ConstantsOK DEF TransactionIsolated, InTransaction
  <2>3. Admitted = NoOffer /\ Admitted' = offer[r]
    BY <2>1, <2>2 DEF Admitted, TypeOK
  <2>4. /\ offer[r] \in Offers /\ hours[r] \in HoursOld /\ file \in Entries
    BY DEF TypeOK
  <2>5. offer[r] \in Anonymous
          \/ \E h \in HoursOld : Ledger!Expired(offer[r], h)
    <3>1. CASE offer[r] \notin Anonymous
      <4>1. ~Fresh(file, offer[r], hours[r])
        BY <2>1, <2>2, <2>4, <3>1 DEF IsCached, Identified
      <4>2. file[offer[r]] = Absent
              \/ ~(clock - file[offer[r]] < 2 * hours[r])
        BY <2>4, <4>1, FreshWindow
      <4>3. file[offer[r]] \in Time \cup {Absent}
        BY <2>4 DEF Entries
      <4>4. file[offer[r]] \in Int /\ clock \in Int
        <5>1. file[offer[r]] \in Int
          BY <4>3 DEF Time, Absent
        <5>2. clock \in Int
          BY DEF TypeOK, Time
        <5>. QED
          BY <5>1, <5>2
      <4>5. hours[r] \in Int
        <5>1. HoursOld \subseteq Int
          BY ConstantsOK
        <5>. QED
          BY <2>4, <5>1
      <4>6. Ledger!Expired(offer[r], hours[r])
        BY <4>2, <4>4, <4>5 DEF Ledger!Expired, Ledger!Absent, Absent
      <4>. QED
        BY <2>4, <4>6
    <3>. QED
      BY <3>1
  <2>. QED
    BY <2>1, <2>3, <2>5 DEF Ledger!Admit
<1>8. ASSUME NEW r \in Runs, ImportReturns(r)
      PROVE  UNCHANGED Ledger!vars
  <2>1. /\ UNCHANGED <<file, clock, holder, offer>> /\ pc[r] = "import"
        /\ pc' = [pc EXCEPT ![r] = "mark"]
    BY <1>8 DEF ImportReturns, Goto
  <2>. QED
    BY <2>1 DEF Ledger!vars, Admitted, TypeOK
<1>9. ASSUME NEW r \in Runs,
             \/ ImportRejected(r)
             \/ ImportResponseLost(r)
             \/ MarkAnonymous(r)
             \/ Mark(r) /\ UNCHANGED file
      PROVE  Ledger!Abandon
  <2>1. /\ UNCHANGED <<file, clock, holder, offer>>
        /\ pc[r] \in {"import", "mark"}
        /\ pc' = [pc EXCEPT ![r] = "release"]
    BY <1>9 DEF ImportRejected, ImportResponseLost, MarkAnonymous, Mark, Goto,
       history
  <2>2. holder = r /\ r # NoRun
    BY <2>1, ConstantsOK DEF TransactionIsolated, InTransaction
  <2>3. Admitted = offer[r] /\ Admitted' = NoOffer
    BY <2>1, <2>2 DEF Admitted, TypeOK
  <2>4. offer[r] # NoOffer
    BY ConstantsOK DEF TypeOK
  <2>. QED
    BY <2>1, <2>3, <2>4 DEF Ledger!Abandon
<1>10. ASSUME NEW r \in Runs, Mark(r), ~UNCHANGED file
       PROVE  Ledger!Confirm
  <2>1. /\ UNCHANGED <<clock, holder, offer>>
        /\ pc[r] = "mark" /\ pc' = [pc EXCEPT ![r] = "release"]
        /\ offer[r] \in Offers \ Anonymous
        /\ file' = [mem[r] EXCEPT ![offer[r]] = clock]
    BY <1>10 DEF Mark, Goto, Identified
  <2>2. holder = r /\ r # NoRun /\ mem[r] = file
    BY <2>1, ConstantsOK DEF TransactionIsolated, InTransaction
  <2>3. Admitted = offer[r] /\ Admitted' = NoOffer
    BY <2>1, <2>2 DEF Admitted, TypeOK
  <2>. QED
    BY <2>1, <2>2, <2>3 DEF Ledger!Confirm
<1>11. ASSUME NEW r \in Runs, Release(r)
       PROVE  UNCHANGED Ledger!vars
  <2>1. /\ UNCHANGED <<file, clock, offer>> /\ pc[r] = "release"
        /\ pc' = [pc EXCEPT ![r] = "ready"]
        /\ holder' = IF holder = r THEN NoRun ELSE holder
    BY <1>11 DEF Release, Goto, Freed, history
  <2>. QED
    BY <2>1 DEF Ledger!vars, Admitted, TypeOK
<1>12. ASSUME NEW r \in Runs, Crash(r)
       PROVE  Ledger!Abandon \/ UNCHANGED Ledger!vars
  <2>1. /\ UNCHANGED <<file, clock, offer>>
        /\ pc' = [pc EXCEPT ![r] = "done"]
        /\ holder' = IF holder = r THEN NoRun ELSE holder
    BY <1>12 DEF Crash, Goto, Freed
  <2>2. CASE holder = r /\ pc[r] \in {"import", "mark"}
    <3>1. Admitted = offer[r] /\ Admitted' = NoOffer /\ offer[r] # NoOffer
      BY <2>1, <2>2, ConstantsOK DEF Admitted, TypeOK
    <3>. QED
      BY <2>1, <3>1 DEF Ledger!Abandon
  <2>3. CASE ~(holder = r /\ pc[r] \in {"import", "mark"})
    BY <2>1, <2>3 DEF Ledger!vars, Admitted, TypeOK
  <2>. QED
    BY <2>2, <2>3
<1>13. CASE Tick
  BY <1>13 DEF Tick, Ledger!Next, Ledger!Tick, procVars, Admitted
<1>14. CASE UNCHANGED vars
  BY <1>14 DEF vars, procVars, Ledger!vars, Admitted
<1>. QED
  BY <1>2, <1>3, <1>4, <1>5, <1>6, <1>7, <1>8, <1>9, <1>10, <1>11, <1>12,
     <1>13, <1>14 DEF Next, Step, Fault, AllDone, Ledger!Next, TypeOK

\* However many runs overlap, the file evolves as OfferLedger: one offer at a
\* time is admitted, checked, imported and recorded.
THEOREM RunsAreSerial == Isolating => (Spec => SerialLedger)
<1>. SUFFICES ASSUME Isolating PROVE Spec => SerialLedger
  OBVIOUS
<1>1. IsolationInv /\ [Next]_vars => [Ledger!Next]_(Ledger!vars)
  BY LedgerStep
<1>. QED
  BY <1>1, LedgerInit, Isolation, PTL DEF Spec, SerialLedger, Ledger!Spec

=============================================================================
