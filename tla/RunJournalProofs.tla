--------------------------- MODULE RunJournalProofs ---------------------------
(****************************************************************************)
(* Theorems about RunJournal, for any number of launchers and any bound on  *)
(* the POST attempts.                                                       *)
(****************************************************************************)
EXTENDS RunJournal, TLAPS

\* While a handoff is being sent an attempt remains.
AttemptsLeft == \A r \in Runs : pc[r] = "sending" => attempts[r] < MaxAttempts

\* Before the handoff none has been used.
Unsent ==
    \A r \in Runs :
        \/ pc[r] = "pipeline"
        \/ /\ pc[r] \in {"locking", "reading", "replacing", "unlocking"}
           /\ line[r] # "delivery"
        => attempts[r] = 0

Typed == TypeOK /\ AttemptsLeft /\ Unsent

LEMMA Bound == MaxAttempts \in Nat /\ 0 < MaxAttempts /\ 0 \in 0 .. MaxAttempts
  BY JournalConfigOK

LEMMA TypedInit == Init => Typed
  <1>. SUFFICES ASSUME Init PROVE Typed
    OBVIOUS
  <1>1. TypeOK
    <2>1. <<>> \in Seq(Line)
      OBVIOUS
    <2>. QED BY <2>1, Bound DEF Init, TypeOK, Stages, LineKinds, Outcomes
  <1>2. AttemptsLeft /\ Unsent
    BY Bound DEF Init, AttemptsLeft, Unsent
  <1>. QED BY <1>1, <1>2 DEF Typed

\* A line of the launcher's making.
LEMMA NewLineType ==
    ASSUME TypeOK, NEW r \in Runs
    PROVE  [run |-> r, kind |-> line[r], outcome |-> outcome[r]] \in Line
  BY DEF TypeOK, Line

LEMMA TypedStep == Typed /\ [Next]_vars => Typed'
  <1>. SUFFICES ASSUME Typed, [Next]_vars PROVE Typed'
    OBVIOUS
  <1>. USE Bound DEF Typed, AttemptsLeft, Unsent
  <1>1. ASSUME NEW r \in Runs, Step(r) PROVE Typed'
    <2>1. CASE RunReturns(r)
      <3>1. PICK kind \in {"own", "run"} : Appends(r, kind)
        BY <2>1 DEF RunReturns
      <3>2. TypeOK'
        BY <2>1, <3>1 DEF RunReturns, Appends, Goto, TypeOK, Stages, LineKinds
      <3>3. AttemptsLeft' /\ Unsent'
        BY <2>1, <3>1 DEF RunReturns, Appends, Goto, TypeOK
      <3>. QED BY <3>2, <3>3
    <2>2. CASE Lock(r)
      BY <2>2 DEF Lock, Goto, TypeOK, Stages
    <2>3. CASE Read(r)
      BY <2>3 DEF Read, Goto, TypeOK, Stages
    <2>4. CASE Replace(r)
      <3>1. journal' \in Seq(Line)
        BY <2>4, NewLineType DEF Replace, TypeOK
      <3>. QED BY <2>4, <3>1 DEF Replace, Goto, TypeOK, Stages
    <2>5. CASE Unlock(r)
      BY <2>5 DEF Unlock, Freed, Appends, Goto, TypeOK, Stages, LineKinds
    <2>6. CASE EnvelopeRefused(r) \/ Disabled(r)
      BY <2>6 DEF EnvelopeRefused, Disabled, Delivered, Appends, Goto, TypeOK,
                  Stages, LineKinds, Outcomes
    <2>7. CASE PostAccepted(r) \/ PostRejected(r) \/ PostGivenUp(r)
      <3>1. attempts' \in [Runs -> 0 .. MaxAttempts]
        <4>1. /\ pc[r] = "sending"
              /\ attempts' = [attempts EXCEPT ![r] = @ + 1]
          BY <2>7 DEF PostAccepted, PostRejected, PostGivenUp, Post
        <4>2. attempts[r] \in 0 .. MaxAttempts /\ attempts[r] < MaxAttempts
          BY <4>1 DEF TypeOK
        <4>3. attempts[r] + 1 \in 0 .. MaxAttempts
          BY <4>2
        <4>. QED BY <4>1, <4>3 DEF TypeOK
      <3>2. reached' \subseteq Runs
        BY <2>7 DEF PostAccepted, PostRejected, PostGivenUp, Unanswered, TypeOK
      <3>3. \E result \in Outcomes : Delivered(r, result)
        BY <2>7 DEF PostAccepted, PostRejected, PostGivenUp, Outcomes
      <3>4. pc[r] = "sending" /\ \A q \in Runs \ {r} : attempts'[q] = attempts[q]
        BY <2>7 DEF PostAccepted, PostRejected, PostGivenUp, Post, TypeOK
      <3>. QED BY <3>1, <3>2, <3>3, <3>4
               DEF Delivered, Appends, Goto, TypeOK, Stages, LineKinds
    <2>8. CASE PostRetried(r)
      <3>1. attempts' \in [Runs -> 0 .. MaxAttempts]
            /\ attempts'[r] < MaxAttempts
        BY <2>8 DEF PostRetried, Post, TypeOK
      <3>. QED BY <2>8, <3>1 DEF PostRetried, Post, Unanswered, TypeOK
    <2>. QED BY <1>1, <2>1, <2>2, <2>3, <2>4, <2>5, <2>6, <2>7, <2>8
             DEF Step, Appending, Sending
  <1>2. ASSUME NEW r \in Runs, Fault(r) PROVE Typed'
    <2>1. CASE RunRaises(r)
      BY <2>1 DEF RunRaises, Goto, TypeOK, Stages
    <2>2. CASE LockFails(r)
      BY <2>2 DEF LockFails, Goto, TypeOK, Stages
    <2>3. CASE ReadFails(r)
      BY <2>3 DEF ReadFails, Goto, TypeOK, Stages
    <2>4. CASE WriteFails(r)
      BY <2>4 DEF WriteFails, Freed, Appends, Goto, TypeOK, Stages, LineKinds
    <2>5. CASE SendRaises(r)
      BY <2>5 DEF SendRaises, Post, Unanswered, Goto, TypeOK, Stages
    <2>6. CASE Crash(r)
      BY <2>6 DEF Crash, Freed, Goto, TypeOK, Stages
    <2>. QED BY <1>2, <2>1, <2>2, <2>3, <2>4, <2>5, <2>6 DEF Fault
  <1>3. CASE UNCHANGED vars
    BY <1>3 DEF vars, TypeOK
  <1>. QED BY <1>1, <1>2, <1>3 DEF Next, AllEnded

\* Type correctness: in particular no launcher POSTs more than MaxAttempts times.
THEOREM TypeCorrect == Spec => []TypeOK
  <1>1. Typed => TypeOK
    BY DEF Typed
  <1>. QED BY <1>1, TypedInit, TypedStep, PTL DEF Spec

LEMMA AlwaysTyped == Spec => []Typed
  BY TypedInit, TypedStep, PTL DEF Spec

-----------------------------------------------------------------------------
(* While locks and reads work, an append works on the current journal.      *)

Critical(r) == pc[r] \in {"reading", "replacing", "unlocking"}

Locked ==
    \A r \in Runs :
        /\ Critical(r) => holder = r
        /\ pc[r] = "replacing" => buf[r] = journal

LockedInv == ~disturbed => Locked

LEMMA LockedInit == Init => LockedInv
  BY DEF Init, LockedInv, Locked, Critical

\* A disturbance is never forgotten.
LEMMA StaysDisturbed ==
    ASSUME [Next]_vars, disturbed
    PROVE  disturbed'
  <1>. USE DEF Delivered
  <1>1. ASSUME NEW r \in Runs, Step(r) PROVE disturbed'
    BY <1>1 DEF Step, RunReturns, Appending, Lock, Read, Replace, Unlock,
                Sending, EnvelopeRefused, Disabled, PostAccepted, PostRejected,
                PostRetried, PostGivenUp
  <1>2. ASSUME NEW r \in Runs, Fault(r) PROVE disturbed'
    BY <1>2 DEF Fault, RunRaises, LockFails, ReadFails, WriteFails, SendRaises,
                Crash
  <1>3. CASE UNCHANGED vars
    BY <1>3 DEF vars
  <1>. QED BY <1>1, <1>2, <1>3 DEF Next, AllEnded

\* A step of r that keeps the journal, keeps or drops r's own lock and leaves r
\* outside the critical section disturbs nobody.
LEMMA OutsideStep ==
    ASSUME TypeOK, Locked, NEW r \in Runs, NEW stage,
           journal' = journal, buf' = buf,
           holder' = holder \/ Freed(r),
           Goto(r, stage), stage \notin {"reading", "replacing", "unlocking"}
    PROVE  Locked'
  <1>1. \A q \in Runs : pc'[q] = IF q = r THEN stage ELSE pc[q]
    BY DEF Goto, TypeOK
  <1>. QED BY <1>1 DEF Locked, Critical, Freed

LEMMA LockedStep == TypeOK /\ LockedInv /\ [Next]_vars => LockedInv'
  <1>. SUFFICES ASSUME TypeOK, LockedInv, [Next]_vars, ~disturbed' PROVE Locked'
    BY DEF LockedInv
  <1>0. Locked
    BY StaysDisturbed DEF LockedInv
  <1>1. ASSUME NEW r \in Runs, Step(r) PROVE Locked'
    <2>1. CASE RunReturns(r)
      BY <2>1, <1>0, OutsideStep DEF RunReturns, Appends
    <2>2. CASE Lock(r)
      <3>1. \A q \in Runs : ~Critical(q)
        BY <2>2, <1>0, JournalConfigOK DEF Lock, Locked
      <3>2. \A q \in Runs : pc'[q] = IF q = r THEN "reading" ELSE pc[q]
        BY <2>2 DEF Lock, Goto, TypeOK
      <3>. QED BY <2>2, <3>1, <3>2 DEF Lock, Locked, Critical
    <2>3. CASE Read(r)
      <3>1. /\ \A q \in Runs : pc'[q] = IF q = r THEN "replacing" ELSE pc[q]
            /\ \A q \in Runs : buf'[q] = IF q = r THEN journal ELSE buf[q]
        BY <2>3 DEF Read, Goto, TypeOK
      <3>. QED BY <2>3, <3>1, <1>0 DEF Read, Locked, Critical
    <2>4. CASE Replace(r)
      <3>1. \A q \in Runs : pc'[q] = IF q = r THEN "unlocking" ELSE pc[q]
        BY <2>4 DEF Replace, Goto, TypeOK
      <3>2. \A q \in Runs : Critical(q) => q = r
        BY <2>4, <1>0 DEF Replace, Locked, Critical
      <3>. QED BY <2>4, <3>1, <3>2, <1>0 DEF Replace, Locked, Critical
    <2>5. CASE Unlock(r)
      <3>1. PICK stage \in {"locking", "sending", "done"} : Goto(r, stage)
        BY <2>5 DEF Unlock, Appends
      <3>. QED BY <2>5, <3>1, <1>0, OutsideStep DEF Unlock
    <2>6. CASE \E result \in Outcomes : Delivered(r, result)
      BY <2>6, <1>0, OutsideStep DEF Delivered, Appends
    <2>7. CASE PostRetried(r)
      BY <2>7, <1>0 DEF PostRetried, Locked, Critical
    <2>. QED BY <1>1, <2>1, <2>2, <2>3, <2>4, <2>5, <2>6, <2>7
             DEF Step, Appending, Sending, EnvelopeRefused, Disabled,
                 PostAccepted, PostRejected, PostGivenUp, Outcomes
  <1>2. ASSUME NEW r \in Runs, Fault(r) PROVE Locked'
    <2>1. CASE RunRaises(r)
      BY <2>1, <1>0, OutsideStep DEF RunRaises
    <2>2. CASE WriteFails(r)
      <3>1. PICK stage \in {"locking", "stopped"} : Goto(r, stage)
        BY <2>2 DEF WriteFails, Appends
      <3>. QED BY <2>2, <3>1, <1>0, OutsideStep DEF WriteFails
    <2>3. CASE SendRaises(r)
      BY <2>3, <1>0, OutsideStep DEF SendRaises
    <2>4. CASE Crash(r)
      BY <2>4, <1>0, OutsideStep DEF Crash
    <2>. QED BY <1>2, <2>1, <2>2, <2>3, <2>4 DEF Fault, LockFails, ReadFails
  <1>3. CASE UNCHANGED vars
    BY <1>3, <1>0 DEF vars, Locked, Critical
  <1>. QED BY <1>1, <1>2, <1>3 DEF Next, AllEnded

LEMMA AlwaysLocked == Spec => []LockedInv
  BY TypeCorrect, LockedInit, LockedStep, PTL DEF Spec

\* While undisturbed a step keeps the journal or appends one line to it.
LEMMA JournalGrows ==
    ASSUME TypeOK, LockedInv, [Next]_vars, ~disturbed'
    PROVE  \/ journal' = journal
           \/ \E r \in Runs :
                 /\ Replace(r)
                 /\ journal' = Append(journal, [run |-> r, kind |-> line[r],
                                                outcome |-> outcome[r]])
  <1>0. Locked
    BY StaysDisturbed DEF LockedInv
  <1>1. ASSUME NEW r \in Runs, Step(r), ~Replace(r) PROVE journal' = journal
    BY <1>1 DEF Step, RunReturns, Appending, Lock, Read, Unlock, Sending,
                EnvelopeRefused, Disabled, PostAccepted, PostRejected,
                PostRetried, PostGivenUp, Delivered
  <1>2. ASSUME NEW r \in Runs, Fault(r) PROVE journal' = journal
    BY <1>2 DEF Fault, RunRaises, LockFails, ReadFails, WriteFails, SendRaises,
                Crash
  <1>3. ASSUME NEW r \in Runs, Replace(r)
        PROVE  journal' = Append(journal, [run |-> r, kind |-> line[r],
                                           outcome |-> outcome[r]])
    BY <1>3, <1>0 DEF Replace, Locked
  <1>4. CASE UNCHANGED vars
    BY <1>4 DEF vars
  <1>. QED BY <1>1, <1>2, <1>3, <1>4 DEF Next, AllEnded

\* Overlapping launchers never drop or change a line while locks and reads work.
THEOREM AppendsOnly == Spec => AppendOnly
  <1>1. TypeOK /\ LockedInv /\ [Next]_vars
        => [~disturbed' =>
              \A i \in 1 .. Len(journal) :
                  i <= Len(journal') /\ journal'[i] = journal[i]]_vars
    <2>. SUFFICES ASSUME TypeOK, LockedInv, Next, ~disturbed',
                         NEW i \in 1 .. Len(journal)
                  PROVE  i <= Len(journal') /\ journal'[i] = journal[i]
      OBVIOUS
    <2>1. journal \in Seq(Line) /\ Len(journal) \in Nat
      BY DEF TypeOK
    <2>2. CASE journal' = journal
      BY <2>1, <2>2
    <2>3. CASE \E l : journal' = Append(journal, l)
      <3>1. PICK l : journal' = Append(journal, l)
        BY <2>3
      <3>2. Len(journal') = Len(journal) + 1 /\ journal'[i] = journal[i]
        BY <3>1, <2>1
      <3>. QED BY <3>2, <2>1
    <2>. QED BY <2>2, <2>3, JournalGrows
  <1>. QED BY <1>1, TypeCorrect, AlwaysLocked, PTL DEF Spec, AppendOnly

-----------------------------------------------------------------------------
(* What a launcher has passed is in the journal.                            *)

Kept(r) ==
    /\ pc[r] = "unlocking" => Recorded(r, line[r])
    /\ pc[r] = "sending" \/ line[r] = "delivery" \/ r \in reached
       => Recorded(r, "run")
    /\ pc[r] = "done" => line[r] = "delivery" /\ Recorded(r, "delivery")

KeptInv == ~disturbed => \A r \in Runs : Kept(r)

LEMMA KeptInit == Init => KeptInv
  BY DEF Init, KeptInv, Kept

\* A recorded line stays recorded, and an append records its own.
LEMMA RecordedStays ==
    ASSUME TypeOK, LockedInv, [Next]_vars, ~disturbed', NEW q, NEW kind,
           Recorded(q, kind)
    PROVE  Recorded(q, kind)'
  <1>1. journal \in Seq(Line) /\ Len(journal) \in Nat
    BY DEF TypeOK
  <1>2. PICK i \in 1 .. Len(journal) :
            journal[i].run = q /\ journal[i].kind = kind
    BY DEF Recorded
  <1>3. i \in 1 .. Len(journal') /\ journal'[i] = journal[i]
    <2>1. CASE journal' = journal
      BY <2>1
    <2>2. CASE \E l : journal' = Append(journal, l)
      <3>1. PICK l : journal' = Append(journal, l)
        BY <2>2
      <3>2. Len(journal') = Len(journal) + 1 /\ journal'[i] = journal[i]
        BY <3>1, <1>1
      <3>. QED BY <3>2, <1>1
    <2>. QED BY <2>1, <2>2, JournalGrows
  <1>. QED BY <1>2, <1>3 DEF Recorded

LEMMA RecordedByReplace ==
    ASSUME TypeOK, NEW r \in Runs, Replace(r)
    PROVE  Recorded(r, line[r])'
  <1>. DEFINE l == [run |-> r, kind |-> line[r], outcome |-> outcome[r]]
              n == Len(buf[r]) + 1
  <1>1. buf[r] \in Seq(Line) /\ journal' = Append(buf[r], l) /\ line' = line
    BY DEF Replace, TypeOK
  <1>2. n \in 1 .. Len(journal') /\ journal'[n] = l
    BY <1>1
  <1>3. l.run = r /\ l.kind = line[r]
    OBVIOUS
  <1>. HIDE DEF l, n
  <1>. QED BY <1>1, <1>2, <1>3 DEF Recorded

LEMMA KeptStep == TypeOK /\ LockedInv /\ KeptInv /\ [Next]_vars => KeptInv'
  <1>. SUFFICES ASSUME TypeOK, LockedInv, KeptInv, [Next]_vars, ~disturbed',
                       NEW q \in Runs
                PROVE  Kept(q)'
    BY DEF KeptInv
  <1>0. Kept(q)
    BY StaysDisturbed DEF KeptInv
  <1>g. \A kind \in LineKinds : Recorded(q, kind) => Recorded(q, kind)'
    BY RecordedStays
  <1>k. line[q] \in LineKinds /\ "run" \in LineKinds /\ "delivery" \in LineKinds
    BY DEF TypeOK, LineKinds
  \* Nothing that Kept(q) depends on changes.
  <1>f. ASSUME pc'[q] = pc[q], line'[q] = line[q], q \in reached' <=> q \in reached
        PROVE  Kept(q)'
    BY <1>f, <1>0, <1>g, <1>k DEF Kept
  <1>1. ASSUME NEW r \in Runs, Step(r) \/ Fault(r), r # q PROVE Kept(q)'
    BY <1>1, <1>f
       DEF Step, RunReturns, Appending, Lock, Read, Replace, Unlock, Sending,
           EnvelopeRefused, Disabled, PostAccepted, PostRejected, PostRetried,
           PostGivenUp, Post, Unanswered, Delivered, Appends, Fault, RunRaises,
           LockFails, ReadFails, WriteFails, SendRaises, Crash, Goto, TypeOK
  <1>2. CASE Step(q)
    <2>1. CASE RunReturns(q)
      <3>1. PICK kind \in {"own", "run"} : Appends(q, kind) /\ reached' = reached
        BY <2>1 DEF RunReturns
      <3>2. pc'[q] = "locking" /\ line'[q] = kind
        BY <3>1 DEF Appends, Goto, TypeOK
      <3>. QED BY <3>1, <3>2, <1>0, <1>g, <1>k DEF Kept
    <2>2. CASE Lock(q) \/ Read(q)
      <3>1. pc'[q] \in {"reading", "replacing"} /\ line' = line /\ reached' = reached
        BY <2>2 DEF Lock, Read, Goto, TypeOK
      <3>2. pc[q] \notin {"sending", "done"}
        BY <2>2 DEF Lock, Read
      <3>. QED BY <3>1, <3>2, <1>0, <1>g, <1>k DEF Kept
    <2>3. CASE Replace(q)
      <3>1. pc'[q] = "unlocking" /\ line' = line /\ reached' = reached
        BY <2>3 DEF Replace, Goto, TypeOK
      <3>2. Recorded(q, line[q])'
        BY <2>3, RecordedByReplace
      <3>. QED BY <3>1, <3>2, <1>0, <1>g, <1>k DEF Kept
    <2>4. CASE Unlock(q)
      <3>1. /\ \A kind \in LineKinds :
                  kind = line[q] => Recorded(q, kind)'
            /\ reached' = reached
        BY <2>4, <1>0, <1>g DEF Unlock, Kept
      <3>2. \/ /\ line[q] = "own" /\ pc'[q] = "locking"
               /\ line'[q] = "run"
            \/ /\ line[q] = "run" /\ pc'[q] = "sending"
               /\ line'[q] = "run"
            \/ /\ line[q] = "delivery" /\ pc'[q] = "done"
               /\ line'[q] = "delivery"
        BY <2>4 DEF Unlock, Appends, Goto, TypeOK
      <3>. QED BY <3>1, <3>2, <1>0, <1>g, <1>k DEF Kept
    <2>5. CASE \E result \in Outcomes : Delivered(q, result) /\ pc[q] = "sending"
      <3>1. pc'[q] = "locking" /\ line'[q] = "delivery"
        BY <2>5 DEF Delivered, Appends, Goto, TypeOK
      <3>2. Recorded(q, "run")'
        BY <2>5, <1>0, <1>g, <1>k DEF Kept
      <3>. QED BY <3>1, <3>2 DEF Kept
    <2>6. CASE PostRetried(q)
      <3>1. pc' = pc /\ line' = line /\ pc[q] = "sending"
        BY <2>6 DEF PostRetried, Post
      <3>2. Recorded(q, "run")'
        BY <3>1, <1>0, <1>g, <1>k DEF Kept
      <3>. QED BY <3>1, <3>2 DEF Kept
    <2>. QED BY <1>2, <2>1, <2>2, <2>3, <2>4, <2>5, <2>6
             DEF Step, Appending, Sending, EnvelopeRefused, Disabled,
                 PostAccepted, PostRejected, PostGivenUp, Post, Outcomes
  <1>3. CASE Fault(q)
    <2>1. CASE SendRaises(q)
      <3>1. pc'[q] = "stopped" /\ line' = line /\ pc[q] = "sending"
        BY <2>1 DEF SendRaises, Post, Goto, TypeOK
      <3>2. Recorded(q, "run")'
        BY <3>1, <1>0, <1>g, <1>k DEF Kept
      <3>. QED BY <3>1, <3>2 DEF Kept
    <2>2. CASE WriteFails(q)
      <3>1. /\ pc'[q] \in {"locking", "stopped"}
            /\ line'[q] = "run" \/ line'[q] = line[q]
            /\ reached' = reached
        BY <2>2 DEF WriteFails, Appends, Goto, TypeOK
      <3>. QED BY <3>1, <1>0, <1>g, <1>k DEF Kept
    <2>3. CASE RunRaises(q) \/ Crash(q)
      <3>1. pc'[q] = "stopped" /\ line' = line /\ reached' = reached
        BY <2>3 DEF RunRaises, Crash, Goto, TypeOK
      <3>. QED BY <3>1, <1>0, <1>g, <1>k DEF Kept
    <2>. QED BY <1>3, <2>1, <2>2, <2>3 DEF Fault, LockFails, ReadFails
  <1>4. CASE UNCHANGED vars
    BY <1>4, <1>f DEF vars
  <1>. QED BY <1>1, <1>2, <1>3, <1>4 DEF Next, AllEnded

LEMMA AlwaysKept == Spec => []KeptInv
  BY TypeCorrect, AlwaysLocked, KeptInit, KeptStep, PTL DEF Spec

\* n8n never hears of a run whose local outcome is not in the journal.
THEOREM RecordsFirst == Spec => []RecordedBeforeHandoff
  <1>1. TypeOK /\ KeptInv => RecordedBeforeHandoff
    BY DEF TypeOK, KeptInv, Kept, RecordedBeforeHandoff
  <1>. QED BY <1>1, TypeCorrect, AlwaysKept, PTL

\* A launcher that ended normally left its run line and its delivery line, and
\* they are still there.
THEOREM CompleteOutcomes == Spec => []OutcomesComplete
  <1>1. KeptInv => OutcomesComplete
    BY DEF KeptInv, Kept, OutcomesComplete
  <1>. QED BY <1>1, AlwaysKept, PTL

-----------------------------------------------------------------------------
(* Acknowledgements, whatever fails.                                        *)

Genuine(l) == l.outcome = "accepted" => l.run \in reached

AcknowledgedInv ==
    /\ \A r \in Runs : outcome[r] = "accepted" => r \in reached
    /\ \A i \in 1 .. Len(journal) : Genuine(journal[i])
    /\ \A r \in Runs : \A i \in 1 .. Len(buf[r]) : Genuine(buf[r][i])

LEMMA AcknowledgedInit == Init => AcknowledgedInv
  BY DEF Init, AcknowledgedInv

\* A step that keeps the files and only adds to reached keeps every line genuine.
LEMMA AcknowledgedFrame ==
    ASSUME TypeOK, AcknowledgedInv, journal' = journal, buf' = buf,
           reached \subseteq reached',
           \A q \in Runs : outcome'[q] = "accepted" => q \in reached'
    PROVE  AcknowledgedInv'
  BY DEF AcknowledgedInv, Genuine

LEMMA AcknowledgedStep == TypeOK /\ AcknowledgedInv /\ [Next]_vars => AcknowledgedInv'
  <1>. SUFFICES ASSUME TypeOK, AcknowledgedInv, [Next]_vars PROVE AcknowledgedInv'
    OBVIOUS
  <1>0. \A q \in Runs : outcome[q] = "accepted" => q \in reached
    BY DEF AcknowledgedInv
  <1>1. ASSUME NEW r \in Runs, Step(r) \/ Fault(r) PROVE AcknowledgedInv'
    <2>1. CASE Read(r) \/ ReadFails(r)
      <3>1. /\ journal' = journal /\ outcome' = outcome /\ reached' = reached
            /\ \/ buf' = [buf EXCEPT ![r] = journal]
               \/ buf' = [buf EXCEPT ![r] = <<>>]
        BY <2>1 DEF Read, ReadFails
      <3>2. \A q \in Runs : buf'[q] \in {buf[q], journal, <<>>}
        BY <3>1 DEF TypeOK
      <3>3. \A q \in Runs : \A i \in 1 .. Len(buf'[q]) : Genuine(buf'[q][i])
        BY <3>2 DEF AcknowledgedInv
      <3>. QED BY <3>1, <3>3 DEF AcknowledgedInv, Genuine
    <2>2. CASE Replace(r)
      <3>. DEFINE l == [run |-> r, kind |-> line[r], outcome |-> outcome[r]]
      <3>1. /\ journal' = Append(buf[r], l) /\ buf[r] \in Seq(Line)
            /\ UNCHANGED <<buf, outcome, reached>>
        BY <2>2 DEF Replace, TypeOK
      <3>2. Genuine(l)
        BY <1>0 DEF Genuine
      <3>3. \A i \in 1 .. Len(journal') :
                \/ journal'[i] = l
                \/ i \in 1 .. Len(buf[r]) /\ journal'[i] = buf[r][i]
        <4>1. l \in Line
          BY DEF TypeOK, Line
        <4>. DEFINE b == buf[r]
        <4>2. b \in Seq(Line) /\ journal' = Append(b, l)
          BY <3>1
        <4>. HIDE DEF l, b
        <4>3. /\ Len(journal') = Len(b) + 1
              /\ journal'[Len(b) + 1] = l
              /\ \A i \in 1 .. Len(b) : journal'[i] = b[i]
              /\ Len(b) \in Nat
          BY <4>1, <4>2
        <4>4. \A i \in 1 .. Len(journal') : i \in 1 .. Len(b) \/ i = Len(b) + 1
          BY <4>3
        <4>. QED BY <4>3, <4>4 DEF b
      <3>4. \A i \in 1 .. Len(journal') : Genuine(journal'[i])
        BY <3>2, <3>3 DEF AcknowledgedInv
      <3>. QED BY <3>1, <3>4 DEF AcknowledgedInv, Genuine
    <2>3. CASE \E result \in Outcomes \ {"accepted"} : Delivered(r, result)
               /\ reached \subseteq reached'
      <3>1. \A q \in Runs : outcome'[q] = "accepted" => outcome[q] = "accepted"
        BY <2>3 DEF Delivered, TypeOK
      <3>. QED BY <2>3, <3>1, <1>0, AcknowledgedFrame DEF Delivered
    <2>4. CASE PostAccepted(r)
      <3>1. \A q \in Runs : outcome'[q] = IF q = r THEN "accepted" ELSE outcome[q]
        BY <2>4 DEF PostAccepted, Delivered, TypeOK
      <3>. QED BY <2>4, <3>1, <1>0, AcknowledgedFrame
               DEF PostAccepted, Delivered
    <2>5. CASE PostRetried(r) \/ SendRaises(r)
      BY <2>5, <1>0, AcknowledgedFrame DEF PostRetried, SendRaises, Unanswered
    <2>6. CASE \/ RunReturns(r) \/ Lock(r) \/ Unlock(r) \/ RunRaises(r)
               \/ LockFails(r) \/ WriteFails(r) \/ Crash(r)
      BY <2>6, <1>0, AcknowledgedFrame
         DEF RunReturns, Lock, Unlock, RunRaises, LockFails, WriteFails, Crash
    <2>7. EnvelopeRefused(r) \/ Disabled(r) \/ PostRejected(r) \/ PostGivenUp(r)
          => \E result \in Outcomes \ {"accepted"} : Delivered(r, result)
             /\ reached \subseteq reached'
      BY DEF EnvelopeRefused, Disabled, PostRejected, PostGivenUp, Unanswered,
             Outcomes
    <2>. QED BY <1>1, <2>1, <2>2, <2>3, <2>4, <2>5, <2>6, <2>7
             DEF Step, Appending, Sending, Fault
  <1>2. CASE UNCHANGED vars
    BY <1>2, <1>0, AcknowledgedFrame DEF vars
  <1>. QED BY <1>1, <1>2 DEF Next, AllEnded

\* An acknowledgement in the journal was given by n8n, whatever failed.
THEOREM NoFalseAcknowledgements == Spec => []NoFalseAcknowledgement
  <1>1. AcknowledgedInv => NoFalseAcknowledgement
    BY DEF AcknowledgedInv, Genuine, NoFalseAcknowledgement
  <1>. QED BY <1>1, TypeCorrect, AcknowledgedInit, AcknowledgedStep, PTL DEF Spec
=============================================================================
