--------------------------- MODULE PipelineProofs ---------------------------
(****************************************************************************)
(* Proofs about the pipeline, for all requests, results, limits, switches   *)
(* and failures, and about the verdicts and the shortlist it rests on.      *)
(****************************************************************************)
EXTENDS Pipeline, Shortlist, OrderingProofs, TLAPS

Importing == {"importing", "unchecked"}

Running == {"gate", "preflight", "searching", "scoring", "reading",
            "notifying", "recording"} \cup Importing

USE DEF searching, scoring, result, Goto, failures, Importing

-----------------------------------------------------------------------------
(* The failures of a run, in order.                                         *)

Listed == labels \in Seq(ToSet(labels))

LEMMA Lengthened ==
    ASSUME NEW s, s \in Seq(ToSet(s)), NEW e
    PROVE  LET longer == Append(s, e)
           IN  /\ ToSet(longer) = ToSet(s) \cup {e}
               /\ longer \in Seq(ToSet(longer))
               /\ Len(longer) = Len(s) + 1
<1>. DEFINE longer == Append(s, e)
            S == ToSet(s) \cup {e}
<1>1. s \in Seq(S) /\ e \in S
  OBVIOUS
<1>2. ToSet(longer) = S
  BY <1>1, InAppend
<1>3. longer \in Seq(S) /\ Len(longer) = Len(s) + 1
  BY <1>1
<1>. QED  BY <1>2, <1>3

LEMMA ShortList ==
    /\ <<>> \in Seq(ToSet(<<>>))
    /\ \A a : <<a>> \in Seq(ToSet(<<a>>)) /\ ToSet(<<a>>) = {a}
    /\ \A a, b : <<a, b>> \in Seq(ToSet(<<a, b>>)) /\ ToSet(<<a, b>>) = {a, b}
<1>1. \A a : ToSet(<<a>>) = {a}
  BY DEF ToSet
<1>2. \A a, b : ToSet(<<a, b>>) = {a, b}
  BY DEF ToSet
<1>. QED  BY <1>1, <1>2

\* An open breaker leaves its own failure, and perhaps the alert's.
LEMMA OpenListed ==
    ASSUME BreakerOpen
    PROVE  /\ Listed'
           /\ Failure("breaker", 0, NoJob) \in failures'
           /\ failures' \subseteq {Failure("breaker", 0, NoJob), Failure("notify", 0, NoJob)}
<1>. DEFINE open == Failure("breaker", 0, NoJob)
            lost == Failure("notify", 0, NoJob)
<1>1. labels' = <<open>> \/ labels' = <<open, lost>>
  BY DEF BreakerOpen
<1>. HIDE DEF open, lost
<1>2. CASE labels' = <<open>>
  <2>1. <<open>> \in Seq(ToSet(<<open>>)) /\ ToSet(<<open>>) = {open}
    BY ShortList
  <2>. QED  BY <1>2, <2>1 DEF Listed, open, lost
<1>3. CASE labels' = <<open, lost>>
  <2>1. <<open, lost>> \in Seq(ToSet(<<open, lost>>)) /\ ToSet(<<open, lost>>) = {open, lost}
    BY ShortList
  <2>. QED  BY <1>3, <2>1 DEF Listed, open, lost
<1>. QED  BY <1>1, <1>2, <1>3

\* A boundary that fails adds its failure to the others.
LEMMA Failing ==
    ASSUME Listed, NEW failure, Fail(failure)
    PROVE  /\ labels' = Append(labels, failure)
           /\ failures' = failures \cup {failure}
           /\ Listed'
           /\ Len(labels') = Len(labels) + 1
           /\ faults' = faults + 1
           /\ UNCHANGED <<sent, told>>
  BY Lengthened DEF Fail, Listed

-----------------------------------------------------------------------------
(* What the breaker is told.                                                *)

\* While a run is on its way it has told nothing, and has counted what it kept.
Counted ==
    /\ faults \in Nat
    /\ Listed
    /\ pc \in Running => told = "nothing" /\ Len(labels) = faults

VerdictInv == Counted /\ VerdictIsTrue

LEMMA VerdictInit == Init => VerdictInv
  BY ShortList DEF Init, VerdictInv, Counted, Listed, VerdictIsTrue, Running

\* The steps of a run that neither start nor end it.
Inner ==
    \/ Attempt \/ PreflightPasses
    \/ Search \/ SearchFails \/ Searched
    \/ \E o \in Offers :
          \/ SkipDuplicate(o) \/ SkipCached(o) \/ CheckFails(o)
          \/ Import(o) \/ ImportUnmarked(o) \/ ImportFails(o)
    \/ Imported \/ Score \/ ScoreFails \/ Scored
    \/ ReadBack \/ Unreadable \/ ReadFails \/ Rank
    \/ Notify \/ NotifyFails

\* An inner step stays within the run, and counts a failure iff it keeps one.
LEMMA InnerStep ==
    ASSUME Inner, Listed
    PROVE  /\ pc \in Running /\ pc' \in Running
           /\ told' = told
           /\ Listed'
           /\ \/ UNCHANGED <<labels, faults>>
              \/ faults' = faults + 1 /\ Len(labels') = Len(labels) + 1
<1>1. CASE Attempt \/ PreflightPasses \/ Search \/ Searched \/ Imported \/ Score \/ Scored
           \/ ReadBack \/ Unreadable \/ Rank \/ Notify
  BY <1>1 DEF Attempt, PreflightPasses, Search, Searched, Imported, Score, Scored, ReadBack,
              Unreadable, Rank, Notify, Running, Listed
<1>2. CASE SearchFails \/ ScoreFails \/ ReadFails \/ NotifyFails
  BY <1>2, Failing DEF SearchFails, ScoreFails, ReadFails, NotifyFails, Running
<1>3. ASSUME NEW o \in Offers, SkipDuplicate(o) \/ SkipCached(o) \/ Import(o)
      PROVE  pc \in Importing /\ pc' \in Importing /\ UNCHANGED <<labels, told, faults>>
  BY <1>3 DEF SkipDuplicate, SkipCached, Import, Post, NextOffer
<1>4. ASSUME NEW o \in Offers, CheckFails(o) \/ ImportUnmarked(o) \/ ImportFails(o)
      PROVE  /\ pc \in Importing /\ pc' \in Importing
             /\ \E failure : Fail(failure)
  BY <1>4 DEF CheckFails, ImportUnmarked, ImportFails, Post, NextOffer
<1>. QED  BY <1>1, <1>2, <1>3, <1>4, Failing DEF Inner, Running, Listed

LEMMA VerdictStep == VerdictInv /\ [Next]_vars => VerdictInv'
<1>. SUFFICES ASSUME VerdictInv, [Next]_vars PROVE VerdictInv'
  OBVIOUS
<1>. USE DEF VerdictInv, Counted
<1>1. CASE Inner
  BY <1>1, InnerStep DEF VerdictIsTrue, Running
<1>2. CASE Begin
  BY <1>2, ShortList DEF Begin, VerdictIsTrue, Running, Listed
<1>3. CASE BreakerOpen
  <2>1. Listed' /\ Failure("breaker", 0, NoJob) \in failures'
    BY <1>3, OpenListed
  <2>. QED  BY <1>3, <2>1 DEF BreakerOpen, VerdictIsTrue, Running
<1>4. CASE PreflightAborts
  <2>1. Listed'
    BY <1>4, ShortList DEF PreflightAborts, Listed
  <2>. QED  BY <1>4, <2>1 DEF PreflightAborts, VerdictIsTrue, Running
<1>5. CASE Record
  <2>1. labels = <<>> <=> faults = 0
    BY <1>5 DEF Record, Listed, Running
  <2>. QED  BY <1>5, <2>1 DEF Record, VerdictIsTrue, Running, Listed
<1>6. CASE Dies
  BY <1>6 DEF Dies, VerdictIsTrue, Running, Listed
<1>7. CASE UNCHANGED vars
  BY <1>7 DEF vars, VerdictIsTrue, Listed
<1>. QED  BY <1>1, <1>2, <1>3, <1>4, <1>5, <1>6, <1>7 DEF Next, Inner

\* The breaker hears of a success iff nothing failed, for any number of failures at
\* any boundaries (JobTrailAutomation.run, step N).
THEOREM VerdictsAreTrue == Spec => []VerdictIsTrue
<1>1. VerdictInv => VerdictIsTrue
  BY DEF VerdictInv
<1>. QED  BY <1>1, VerdictInit, VerdictStep, PTL DEF Spec

-----------------------------------------------------------------------------
(* What the operator is told.                                               *)

NotifierFailed == Failure("notify", 0, NoJob) \in failures

MessageInv ==
    /\ pc = "recording" => NotifierFailed \/ sent = Body
    /\ OperatorKnows

LEMMA MessageInit == Init => MessageInv
  BY DEF Init, MessageInv, OperatorKnows

LEMMA InnerMessage ==
    ASSUME Inner, Listed
    PROVE  /\ pc' # "ended"
           /\ pc' = "recording" => NotifierFailed' \/ sent' = Body'
<1>1. CASE Attempt \/ PreflightPasses \/ Search \/ Searched \/ Imported \/ Score \/ Scored
           \/ ReadBack \/ Unreadable \/ Rank \/ SearchFails \/ ScoreFails \/ ReadFails
  BY <1>1 DEF Attempt, PreflightPasses, Search, Searched, Imported, Score, Scored, ReadBack,
              Unreadable, Rank, SearchFails, ScoreFails, ReadFails
<1>2. CASE Notify
  BY <1>2 DEF Notify, Body
<1>3. CASE NotifyFails
  BY <1>3, Failing DEF NotifyFails, NotifierFailed, Failure
<1>4. ASSUME NEW o \in Offers,
             \/ SkipDuplicate(o) \/ SkipCached(o) \/ CheckFails(o)
             \/ Import(o) \/ ImportUnmarked(o) \/ ImportFails(o)
      PROVE  pc' \in Importing
  BY <1>4 DEF SkipDuplicate, SkipCached, CheckFails, Import, ImportUnmarked, ImportFails,
              Post, NextOffer
<1>. QED  BY <1>1, <1>2, <1>3, <1>4 DEF Inner

\* A summary of no more failures than it has room for has them all.
LEMMA SummaryHasAll ==
    ASSUME Listed
    PROVE  /\ Len(labels) \in Nat
           /\ Len(labels) <= MaxItems =>
                 ToSet(SubSeq(labels, 1, Shorter(MaxItems, Len(labels)))) = failures
<1>. DEFINE S == ToSet(labels)
<1>1. Len(labels) \in Nat /\ SubSeq(labels, 1, Len(labels)) = labels
  <2>1. labels \in Seq(S)
    BY DEF Listed
  <2>. HIDE DEF S
  <2>2. /\ Len(labels) \in Nat
        /\ SubSeq(labels, 1, Len(labels)) \in Seq(S)
        /\ Len(SubSeq(labels, 1, Len(labels))) = Len(labels)
        /\ \A k \in 1 .. Len(labels) : SubSeq(labels, 1, Len(labels))[k] = labels[k]
    BY <2>1
  <2>. QED  BY <2>1, <2>2
<1>2. Len(labels) <= MaxItems => Shorter(MaxItems, Len(labels)) = Len(labels)
  <2>1. MaxItems \in Nat /\ Len(labels) \in Nat
    BY <1>1, PipelineConfigOK
  <2>. QED  BY <2>1 DEF Shorter
<1>3. Len(labels) <= MaxItems => SubSeq(labels, 1, Shorter(MaxItems, Len(labels))) = labels
  BY <1>1, <1>2
<1>. QED  BY <1>1, <1>3

LEMMA MessageStep == Counted /\ MessageInv /\ [Next]_vars => MessageInv'
<1>. SUFFICES ASSUME Counted, MessageInv, [Next]_vars PROVE MessageInv'
  OBVIOUS
<1>1. CASE Inner
  BY <1>1, InnerMessage DEF Counted, MessageInv, OperatorKnows
<1>2. CASE Begin \/ Dies
  BY <1>2 DEF Begin, Dies, MessageInv, OperatorKnows
<1>3. CASE BreakerOpen
  <2>1. Failure("breaker", 0, NoJob) \in failures' /\ pc' = "ended"
    BY <1>3, OpenListed DEF BreakerOpen
  <2>2. Gated'
    BY <2>1 DEF Gated, Failure
  <2>. QED  BY <2>1, <2>2 DEF MessageInv, OperatorKnows
<1>4. CASE PreflightAborts
  <2>1. Failure("preflight", 0, NoJob) \in failures' /\ pc' = "ended"
    BY <1>4, ShortList DEF PreflightAborts
  <2>2. Gated'
    BY <2>1 DEF Gated, Failure
  <2>. QED  BY <2>1, <2>2 DEF MessageInv, OperatorKnows
<1>5. CASE Record
  <2>1. /\ pc' = "ended"
        /\ Len(labels) = faults
        /\ UNCHANGED <<config, labels, shortlist, sent, faults>>
        /\ NotifierFailed \/ sent = Body
    BY <1>5 DEF Record, Counted, Running, MessageInv
  <2>2. ASSUME sent = Body, config.onFailure
        PROVE  /\ sent.count = Len(labels)
               /\ sent.first = SubSeq(labels, 1, Shorter(MaxItems, Len(labels)))
    BY <2>2 DEF Body
  <2>3. ASSUME sent = Body, config.notify, shortlist # <<>>
        PROVE  sent.best = shortlist[1].job
    BY <2>3 DEF Body
  <2>4. OperatorKnows'
    BY <2>1, <2>2, <2>3, SummaryHasAll DEF Counted, OperatorKnows, NotifierFailed
  <2>. QED  BY <2>1, <2>4 DEF MessageInv
<1>6. CASE UNCHANGED vars
  BY <1>6 DEF vars, MessageInv, OperatorKnows, NotifierFailed, Body, Gated
<1>. QED  BY <1>1, <1>2, <1>3, <1>4, <1>5, <1>6 DEF Next, Inner

\* The operator learns the best match, the number of failures and the first of them,
\* or the run knows that the notifier failed, for any failures and any length of the
\* summary (_compose_notification, build_failure_summary).
THEOREM OperatorLearns == Spec => []OperatorKnows
<1>1. VerdictInv => Counted
  BY DEF VerdictInv
<1>2. MessageInv => OperatorKnows
  BY DEF MessageInv
<1>. QED  BY <1>1, <1>2, VerdictInit, VerdictStep, MessageInit, MessageStep, PTL DEF Spec

-----------------------------------------------------------------------------
(* Where the offers went.                                                   *)

LEMMA InPrefix ==
    ASSUME NEW S, NEW s \in Seq(S), NEW m \in Nat
    PROVE  /\ SubSeq(s, 1, Shorter(m, Len(s))) \in Seq(S)
           /\ \A k \in DOMAIN s : s[k] \in ToSet(SubSeq(s, 1, Shorter(m, Len(s)))) \/ k > m
<1>. DEFINE prefix == SubSeq(s, 1, Shorter(m, Len(s)))
<1>1. Shorter(m, Len(s)) \in 0 .. Len(s)
  BY DEF Shorter
<1>2. prefix \in Seq(S)
  BY <1>1
<1>3. \A k \in DOMAIN s : k \leq m => k \in DOMAIN prefix /\ prefix[k] = s[k]
  BY DEF Shorter
<1>. HIDE DEF prefix
<1>4. \A k \in DOMAIN s : s[k] \in ToSet(prefix) \/ k > m
  BY <1>2, <1>3, InSequence
<1>. QED  BY <1>2, <1>4 DEF prefix

Sequences ==
    /\ Listed
    /\ at \in Nat
    /\ found \in Seq(Offers)
    /\ ids \in Seq(Jobs)
    /\ todo \in Seq(Jobs)
    /\ scored \in Seq(Jobs)

\* An offer that needs no import, or whose job is among the imported ones.
Known(o) == JobOf[o] = NoJob \/ JobOf[o] \in ToSet(ids)

Handled(hit) ==
    \/ hit[2] \in fresh
    \/ Failure("import", hit[1], hit[2]) \in failures
    \/ Known(hit[2])

Settled(k) ==
    \/ ids[k] \in ToSet(scored)
    \/ Failure("score", 0, ids[k]) \in failures
    \/ k > MaxScore

\* The hits are handled one by one, then the jobs.
AccountInv ==
    /\ Sequences
    /\ hits \subseteq Nat \X Offers
    /\ \A o \in seen : o \in fresh \/ Known(o)
    /\ \A o \in winners : Known(o)
    /\ pc \in {"gate", "preflight"} => hits = {}
    /\ pc \notin {"idle"} \cup Importing => \A hit \in hits : Handled(hit)
    /\ pc \in Importing =>
          \A hit \in hits : Handled(hit) \/ (hit[1] = at /\ hit[2] \in ToSet(found))
    /\ pc = "scoring" => \A k \in DOMAIN ids : Settled(k) \/ ids[k] \in ToSet(todo)
    /\ pc \in {"reading", "notifying", "recording", "ended"} =>
          hits = {} \/ \A k \in DOMAIN ids : Settled(k)

USE DEF AccountInv, Sequences

LEMMA AccountInit == Init => AccountInv
  BY PipelineConfigOK, ShortList DEF Init, Listed

\* The steps that import nothing and score nothing.
LEMMA AccountFrame ==
    ASSUME AccountInv,
           \/ Attempt \/ BreakerOpen \/ PreflightAborts \/ PreflightPasses
           \/ Dies \/ UNCHANGED vars
           \/ ReadBack \/ Unreadable \/ ReadFails \/ Rank
           \/ Notify \/ NotifyFails \/ Record
           \/ \E o \in Offers : CheckFails(o)
    PROVE  AccountInv'
<1>1. CASE Attempt \/ PreflightPasses
  BY <1>1 DEF Attempt, PreflightPasses, Handled, Known, Settled, Listed
<1>2. CASE BreakerOpen
  BY <1>2, OpenListed DEF BreakerOpen, Handled, Known, Settled
<1>3. CASE PreflightAborts
  <2>1. Listed'
    BY <1>3, ShortList DEF PreflightAborts, Listed
  <2>. QED  BY <1>3, <2>1 DEF PreflightAborts, Handled, Known, Settled
<1>4. CASE Dies \/ UNCHANGED vars
  BY <1>4 DEF Dies, vars, Handled, Known, Settled, Listed
<1>5. CASE ReadBack \/ Unreadable \/ ReadFails
  <2>1. /\ pc = "reading" /\ todo # <<>> /\ todo' = Tail(todo)
        /\ UNCHANGED <<pc, seen, at, found, ids, winners, hits, scored, fresh>>
    BY <1>5 DEF ReadBack, Unreadable, ReadFails
  <2>2. failures \subseteq failures' /\ Listed'
    BY <1>5, Failing DEF ReadBack, Unreadable, ReadFails, Listed
  <2>3. todo' \in Seq(Jobs)
    BY <2>1, InHeadAndTail
  <2>. QED  BY <2>1, <2>2, <2>3 DEF Handled, Known, Settled
<1>6. CASE Rank \/ Notify \/ Record
  BY <1>6 DEF Rank, Notify, Record, Handled, Known, Settled, Listed
<1>7. CASE NotifyFails
  BY <1>7, Failing DEF NotifyFails, Handled, Known, Settled
<1>8. CASE \E o \in Offers : CheckFails(o)
  <2>1. /\ pc = "importing" /\ pc' = "unchecked"
        /\ UNCHANGED <<seen, searching, scoring, fresh>>
    BY <1>8 DEF CheckFails
  <2>2. failures \subseteq failures' /\ Listed'
    BY <1>8, Failing DEF CheckFails
  <2>. QED  BY <2>1, <2>2 DEF Handled, Known, Settled
<1>. QED  BY <1>1, <1>2, <1>3, <1>4, <1>5, <1>6, <1>7, <1>8

LEMMA AccountSearch ==
    ASSUME AccountInv, Search \/ SearchFails \/ Searched \/ Imported
    PROVE  AccountInv'
<1>1. CASE Search
  <2>1. PICK offers \in SearchResults :
            /\ found' = offers
            /\ hits' = hits \cup ({at} \X ToSet(offers))
    BY <1>1 DEF Search
  <2>2. offers \in Seq(Offers)
    BY PipelineConfigOK
  <2>3. ToSet(offers) \subseteq Offers
    BY <2>2, InSequence
  <2>4. /\ pc = "searching" /\ pc' = "importing"
        /\ UNCHANGED <<seen, at, ids, winners, scoring, labels, fresh>>
    BY <1>1 DEF Search
  <2>. QED  BY <2>1, <2>2, <2>3, <2>4 DEF Handled, Known, Settled, Listed
<1>2. CASE SearchFails
  BY <1>2, Failing DEF SearchFails, Handled, Known, Settled, Listed
<1>3. CASE Searched
  BY <1>3, NoneInEmpty DEF Searched, Handled, Known, Settled, Listed
<1>4. CASE Imported
  BY <1>4, InPrefix, PipelineConfigOK DEF Imported, Handled, Known, Settled, Listed
<1>. QED  BY <1>1, <1>2, <1>3, <1>4

LEMMA AccountScore ==
    ASSUME AccountInv, Score \/ ScoreFails \/ Scored
    PROVE  AccountInv'
<1>1. CASE Score
  <2>1. /\ todo # <<>> /\ scored' = Append(scored, Head(todo)) /\ todo' = Tail(todo)
        /\ UNCHANGED <<pc, seen, searching, labels, fresh>> /\ pc = "scoring"
    BY <1>1 DEF Score, result
  <2>2. ToSet(scored') = ToSet(scored) \cup {Head(todo)}
    BY <2>1, InAppend, InHeadAndTail
  <2>3. ToSet(todo) = {Head(todo)} \cup ToSet(todo')
    BY <2>1, InHeadAndTail
  <2>4. \A k \in DOMAIN ids : Settled(k)' \/ ids[k] \in ToSet(todo')
    BY <2>1, <2>2, <2>3 DEF Settled
  <2>5. Sequences'
    BY <2>1, InHeadAndTail DEF Listed
  <2>. QED  BY <2>1, <2>4, <2>5 DEF Handled, Known, Listed
<1>2. CASE ScoreFails
  <2>1. /\ todo # <<>> /\ todo' = Tail(todo) /\ pc = "scoring"
        /\ failures' = failures \cup {Failure("score", 0, Head(todo))} /\ Listed'
        /\ UNCHANGED <<pc, seen, searching, scored, fresh>>
    BY <1>2, Failing DEF ScoreFails
  <2>2. ToSet(todo) = {Head(todo)} \cup ToSet(todo') /\ todo' \in Seq(Jobs)
    BY <2>1, InHeadAndTail
  <2>3. \A k \in DOMAIN ids : Settled(k)' \/ ids[k] \in ToSet(todo')
    BY <2>1, <2>2 DEF Settled
  <2>. QED  BY <2>1, <2>2, <2>3 DEF Handled, Known
<1>3. CASE Scored
  BY <1>3, NoneInEmpty DEF Scored, Handled, Known, Settled, Listed
<1>. QED  BY <1>1, <1>2, <1>3

\* The backend's answer makes the offer known, and forgets no other one.
LEMMA AdmitKnows ==
    ASSUME AccountInv, NEW o \in Offers, Admit(o)
    PROVE  /\ ids' \in Seq(Jobs)
           /\ ToSet(ids) \subseteq ToSet(ids')
           /\ Known(o)'
           /\ \A w \in winners' : w \in winners \/ w = o
<1>1. JobOf[o] # NoJob => JobOf[o] \in Jobs
  BY PipelineConfigOK
<1>2. CASE JobOf[o] # NoJob /\ JobOf[o] \notin ToSet(ids)
  <2>1. ids' = Append(ids, JobOf[o])
    BY <1>2 DEF Admit
  <2>2. ToSet(ids') = ToSet(ids) \cup {JobOf[o]}
    BY <2>1, <1>1, <1>2, InAppend
  <2>. QED  BY <1>1, <1>2, <2>1, <2>2 DEF Admit, Known
<1>3. CASE ~(JobOf[o] # NoJob /\ JobOf[o] \notin ToSet(ids))
  <2>1. ids' = ids
    BY <1>3 DEF Admit
  <2>. QED  BY <1>3, <2>1 DEF Admit, Known
<1>. QED  BY <1>2, <1>3

LEMMA AccountImport ==
    ASSUME AccountInv, NEW o \in Offers,
           \/ SkipDuplicate(o) \/ SkipCached(o)
           \/ Import(o) \/ ImportUnmarked(o) \/ ImportFails(o)
    PROVE  AccountInv'
<1>1. NextOffer(o)
  BY DEF SkipDuplicate, SkipCached, Import, ImportUnmarked, ImportFails, Post
<1>2. /\ pc' = "importing" /\ UNCHANGED <<at, hits, fresh, todo, scored>>
      /\ found' \in Seq(Offers)
      /\ ToSet(found) = {o} \cup ToSet(found')
  BY <1>1, InHeadAndTail DEF NextOffer
<1>3. /\ failures \subseteq failures' /\ Listed' /\ pc \in Importing
      /\ ids' \in Seq(Jobs) /\ ToSet(ids) \subseteq ToSet(ids')
  <2>1. Import(o) \/ ImportUnmarked(o) => Admit(o)
    BY DEF Import, ImportUnmarked
  <2>2. failures \subseteq failures' /\ Listed' /\ pc \in Importing
    BY Failing DEF SkipDuplicate, SkipCached, Import, ImportUnmarked, ImportFails, Post, Listed
  <2>3. CASE Admit(o)
    BY <2>2, <2>3, AdmitKnows
  <2>4. CASE SkipDuplicate(o) \/ SkipCached(o) \/ ImportFails(o)
    BY <2>2, <2>4 DEF SkipDuplicate, SkipCached, ImportFails
  <2>. QED  BY <2>1, <2>3, <2>4
<1>4. \A hit \in hits : Handled(hit) => Handled(hit)'
  BY <1>2, <1>3 DEF Handled, Known
<1>5. /\ \A p \in seen' : p \in fresh \/ Known(p)'
      /\ \A p \in winners' : Known(p)'
  <2>1. \A p \in Offers : Known(p) => Known(p)'
    BY <1>3 DEF Known
  <2>2. CASE Import(o) \/ ImportUnmarked(o)
    <3>1. Admit(o) /\ seen' \subseteq seen \cup {o}
      BY <2>2 DEF Import, ImportUnmarked
    <3>. QED  BY <1>3, <3>1, AdmitKnows DEF Known
  <2>3. CASE SkipDuplicate(o) \/ SkipCached(o) \/ ImportFails(o)
    BY <1>3, <2>3 DEF SkipDuplicate, SkipCached, ImportFails, Known
  <2>. QED  BY <2>2, <2>3
<1>6. \/ o \in fresh \/ Known(o)'
      \/ Failure("import", at, o) \in failures'
  <2>1. CASE Import(o) \/ ImportUnmarked(o)
    BY <2>1, AdmitKnows DEF Import, ImportUnmarked
  <2>2. CASE SkipDuplicate(o) \/ SkipCached(o)
    BY <1>3, <2>2 DEF SkipDuplicate, SkipCached, Known, Duplicate
  <2>3. CASE ImportFails(o)
    BY <2>3, Failing DEF ImportFails
  <2>. QED  BY <2>1, <2>2, <2>3
<1>7. \A hit \in hits : Handled(hit)' \/ (hit[1] = at /\ hit[2] \in ToSet(found'))
  BY <1>2, <1>3, <1>4, <1>6 DEF Handled
<1>. QED  BY <1>2, <1>3, <1>5, <1>7

LEMMA AccountBegin == Begin => AccountInv'
  BY PipelineConfigOK, ShortList DEF Begin, Handled, Known, Settled, Listed

LEMMA AccountStep == AccountInv /\ [Next]_vars => AccountInv'
  BY AccountFrame, AccountSearch, AccountScore, AccountImport, AccountBegin DEF Next

\* No offer is lost between a search and the summary, for any results, limit and
\* failures (JobTrailAutomation.run, steps C to G).
THEOREM NoOfferLost == Spec => []EveryOfferAccountedFor
<1>1. AccountInv => EveryOfferAccountedFor
  <2>. SUFFICES ASSUME AccountInv, pc \in {"notifying", "recording", "ended"},
                       NEW hit \in hits,
                       JobOf[hit[2]] # NoJob, hit[2] \notin fresh,
                       Failure("import", hit[1], hit[2]) \notin failures
                PROVE  \E k \in DOMAIN ids :
                          /\ ids[k] = JobOf[hit[2]]
                          /\ \/ JobOf[hit[2]] \in ToSet(scored)
                             \/ Failure("score", 0, JobOf[hit[2]]) \in failures
                             \/ k > MaxScore
    BY DEF EveryOfferAccountedFor
  <2>1. JobOf[hit[2]] \in ToSet(ids)
    BY DEF Handled, Known
  <2>2. PICK k \in DOMAIN ids : ids[k] = JobOf[hit[2]]
    BY <2>1, InSequence
  <2>. QED  BY <2>2 DEF Settled
<1>. QED  BY <1>1, AccountInit, AccountStep, PTL DEF Spec

-----------------------------------------------------------------------------
(* Which profiles found a job.                                              *)

HIDE DEF AccountInv, Sequences

\* A hit that the profiles of its job show, or need not.
Credited(hit) ==
    LET o == hit[2]
    IN  \/ o \in Anonymous \/ o \in fresh \/ ~Alone(o)
        \/ JobOf[o] = NoJob
        \/ Failure("import", hit[1], o) \in failures
        \/ <<JobOf[o], Requests[hit[1]]>> \in provenance

\* Each imported job has an offer that won it, so that an offer which is cached or
\* whose job is not new, and which is no duplicate, was cached before the run or
\* shares its job.
ProvenanceInv ==
    /\ winners \subseteq Named
    /\ \A pair \in provenance : \E hit \in hits :
          Requests[hit[1]] = pair[2] /\ JobOf[hit[2]] = pair[1]
    /\ pc \in Importing => \A o \in ToSet(found) : <<at, o>> \in hits
    /\ pc = "unchecked" => ~Duplicate(Head(found))
    /\ config.profiled =>
          /\ \A job \in ToSet(ids) : \E o \in winners \cup Anonymous : JobOf[o] = job
          /\ \A o \in seen : o \in fresh \cup winners \/ ~Alone(o) \/ JobOf[o] = NoJob
          /\ pc \in {"searching", "scoring", "reading", "notifying", "recording"} =>
                \A hit \in hits : Credited(hit)
          /\ pc \in Importing => \A hit \in hits :
                Credited(hit) \/ (hit[1] = at /\ hit[2] \in ToSet(found))

LEMMA ProvenanceInit == Init => ProvenanceInv
  BY NoneInEmpty DEF Init, ProvenanceInv

\* A credit is not lost while failures and profiles are only added.
LEMMA StaysCredited ==
    ASSUME NEW hit, Credited(hit), UNCHANGED fresh,
           failures \subseteq failures', provenance \subseteq provenance'
    PROVE  Credited(hit)'
  BY DEF Credited

\* The steps that ask for no offers and take none.
LEMMA ProvenanceFrame ==
    ASSUME AccountInv, ProvenanceInv,
           \/ Attempt \/ BreakerOpen \/ PreflightAborts \/ PreflightPasses
           \/ SearchFails \/ Imported \/ Score \/ ScoreFails \/ Scored
           \/ ReadBack \/ Unreadable \/ ReadFails \/ Rank
           \/ Notify \/ NotifyFails \/ Record \/ Dies \/ UNCHANGED vars
           \/ \E o \in Offers : CheckFails(o)
    PROVE  ProvenanceInv'
<1>. DEFINE past == {"searching", "scoring", "reading", "notifying", "recording"}
<1>1. /\ UNCHANGED <<config, seen, ids, winners, provenance, hits, fresh>>
      /\ pc' \in Importing => pc \in Importing /\ UNCHANGED <<at, found>>
  BY DEF Attempt, BreakerOpen, PreflightAborts, PreflightPasses, SearchFails, Imported, Score,
         ScoreFails, Scored, ReadBack, Unreadable, ReadFails, Rank, Notify, NotifyFails, Record,
         Dies, CheckFails, vars
<1>2. pc' \in past => pc \in past \/ hits = {}
  BY DEF Attempt, BreakerOpen, PreflightAborts, PreflightPasses, SearchFails, Imported, Score,
         ScoreFails, Scored, ReadBack, Unreadable, ReadFails, Rank, Notify, NotifyFails, Record,
         Dies, CheckFails, vars, AccountInv
<1>3. pc' \in past \cup Importing => failures \subseteq failures'
  <2>1. CASE \/ SearchFails \/ ScoreFails \/ ReadFails \/ NotifyFails
             \/ \E o \in Offers : CheckFails(o)
    BY <2>1, Failing
       DEF SearchFails, ScoreFails, ReadFails, NotifyFails, CheckFails, AccountInv, Sequences
  <2>2. CASE \/ Attempt \/ PreflightPasses \/ Imported \/ Score \/ Scored
             \/ ReadBack \/ Unreadable \/ Rank \/ Notify \/ Record \/ Dies \/ UNCHANGED vars
    BY <2>2 DEF Attempt, PreflightPasses, Imported, Score, Scored, ReadBack, Unreadable, Rank,
                Notify, Record, Dies, vars
  <2>3. CASE BreakerOpen \/ PreflightAborts
    BY <2>3 DEF BreakerOpen, PreflightAborts
  <2>. QED  BY <2>1, <2>2, <2>3
<1>4. ASSUME pc' \in past, config.profiled
      PROVE  \A hit \in hits : Credited(hit)'
  BY <1>1, <1>2, <1>3, <1>4, StaysCredited DEF ProvenanceInv
<1>5. ASSUME pc' \in Importing, config.profiled
      PROVE  \A hit \in hits : Credited(hit)' \/ (hit[1] = at /\ hit[2] \in ToSet(found))
  BY <1>1, <1>3, <1>5, StaysCredited DEF ProvenanceInv
<1>6. \A o : Alone(o)' <=> Alone(o)
  BY DEF Alone
<1>7. pc' = "unchecked" => ~Duplicate(Head(found))
  BY DEF Attempt, BreakerOpen, PreflightAborts, PreflightPasses, SearchFails, Imported, Score,
         ScoreFails, Scored, ReadBack, Unreadable, ReadFails, Rank, Notify, NotifyFails, Record,
         Dies, CheckFails, vars, ProvenanceInv
<1>. QED  BY <1>1, <1>4, <1>5, <1>6, <1>7 DEF ProvenanceInv, Duplicate

LEMMA ProvenanceSearch ==
    ASSUME AccountInv, ProvenanceInv, Search \/ Searched
    PROVE  ProvenanceInv'
<1>1. /\ UNCHANGED <<config, seen, ids, winners, provenance, labels, fresh>>
      /\ pc \in {"searching", "importing"}
  BY DEF Search, Searched
<1>2. \A hit : Credited(hit) => Credited(hit)'
  BY <1>1, StaysCredited
<1>3. CASE Search
  <2>1. PICK offers \in SearchResults :
            /\ found' = offers
            /\ hits' = hits \cup ({at} \X ToSet(offers))
    BY <1>3 DEF Search
  <2>2. pc = "searching" /\ pc' = "importing" /\ UNCHANGED at
    BY <1>3 DEF Search
  <2>3. config.profiled => \A hit \in hits' :
            Credited(hit)' \/ (hit[1] = at /\ hit[2] \in ToSet(found'))
    BY <1>2, <2>1, <2>2 DEF ProvenanceInv
  <2>. QED  BY <1>1, <2>1, <2>2, <2>3 DEF ProvenanceInv, Alone
<1>4. CASE Searched
  <2>1. pc = "importing" /\ pc' = "searching" /\ found = <<>> /\ UNCHANGED hits
    BY <1>4 DEF Searched
  <2>2. config.profiled => \A hit \in hits : Credited(hit)'
    BY <1>2, <2>1, NoneInEmpty DEF ProvenanceInv
  <2>. QED  BY <1>1, <2>1, <2>2 DEF ProvenanceInv, Alone
<1>. QED  BY <1>3, <1>4

\* The answer for o: its job has a winner, and o is a winner itself, shares its job or
\* has none.
LEMMA AdmitWins ==
    ASSUME AccountInv, ProvenanceInv, config.profiled,
           NEW o \in Offers, o \notin winners, Admit(o)
    PROVE  /\ winners \subseteq winners'
           /\ provenance \subseteq provenance'
           /\ \A job \in ToSet(ids') : \E w \in winners' \cup Anonymous : JobOf[w] = job
           /\ o \in winners' \cup Anonymous \/ ~Alone(o) \/ JobOf[o] = NoJob
           /\ \/ o \in Anonymous \/ ~Alone(o) \/ JobOf[o] = NoJob
              \/ <<JobOf[o], Requests[at]>> \in provenance'
<1>. DEFINE job == JobOf[o]
<1>1. CASE job # NoJob /\ job \notin ToSet(ids)
  <2>1. /\ ids' = Append(ids, job)
        /\ winners' = winners \cup ({o} \cap Named)
        /\ provenance' = WithProfile(job)
    BY <1>1 DEF Admit
  <2>2. job \in Jobs /\ ids \in Seq(Jobs)
    BY <1>1, PipelineConfigOK DEF AccountInv, Sequences
  <2>3. ToSet(ids') = ToSet(ids) \cup {job}
    BY <2>1, <2>2, InAppend
  <2>4. o \in winners' \cup Anonymous
    BY <2>1 DEF Named
  <2>. QED  BY <2>1, <2>3, <2>4 DEF ProvenanceInv, WithProfile
<1>2. CASE job = NoJob \/ job \in ToSet(ids)
  <2>1. UNCHANGED <<ids, winners, provenance>>
    BY <1>2 DEF Admit
  <2>2. o \in Anonymous \/ ~Alone(o) \/ job = NoJob
    <3>. SUFFICES ASSUME job \in ToSet(ids) PROVE o \in Anonymous \/ ~Alone(o)
      BY <1>2
    <3>1. PICK w \in winners \cup Anonymous : JobOf[w] = job
      BY DEF ProvenanceInv
    <3>2. w \in Offers
      BY <3>1, PipelineConfigOK DEF ProvenanceInv, Named
    <3>. QED  BY <3>1, <3>2 DEF Alone
  <2>. QED  BY <2>1, <2>2 DEF ProvenanceInv
<1>. QED  BY <1>1, <1>2

LEMMA ProvenanceImport ==
    ASSUME AccountInv, ProvenanceInv, NEW o \in Offers,
           \/ SkipDuplicate(o) \/ SkipCached(o)
           \/ Import(o) \/ ImportUnmarked(o) \/ ImportFails(o)
    PROVE  ProvenanceInv'
<1>1. /\ pc \in Importing /\ pc' = "importing" /\ UNCHANGED <<config, at, hits, fresh>>
      /\ found # <<>> /\ o = Head(found) /\ found' = Tail(found)
  BY DEF SkipDuplicate, SkipCached, Import, ImportUnmarked, ImportFails, Post, NextOffer
<1>2. ToSet(found) = {o} \cup ToSet(found') /\ <<at, o>> \in hits
  BY <1>1, InHeadAndTail DEF AccountInv, Sequences, ProvenanceInv
<1>3. failures \subseteq failures'
  BY Failing
     DEF SkipDuplicate, SkipCached, Import, ImportUnmarked, ImportFails, AccountInv, Sequences
<1>4. /\ winners' \subseteq winners \cup ({o} \cap Named)
      /\ provenance' \in {provenance, provenance \cup {<<JobOf[o], Requests[at]>>}}
  BY DEF SkipDuplicate, SkipCached, Import, ImportUnmarked, ImportFails, Admit, WithProfile
<1>5. \A pair \in provenance' : \E hit \in hits :
          Requests[hit[1]] = pair[2] /\ JobOf[hit[2]] = pair[1]
  <2>1. Requests[<<at, o>>[1]] = Requests[at] /\ JobOf[<<at, o>>[2]] = JobOf[o]
    OBVIOUS
  <2>2. \A pair \in provenance' : pair \in provenance \/ pair = <<JobOf[o], Requests[at]>>
    BY <1>4
  <2>. QED  BY <1>2, <2>1, <2>2 DEF ProvenanceInv
<1>6. ASSUME config.profiled
      PROVE  /\ \A job \in ToSet(ids') : \E w \in winners' \cup Anonymous : JobOf[w] = job
             /\ \A p \in seen' : p \in fresh \cup winners' \/ ~Alone(p) \/ JobOf[p] = NoJob
             /\ Credited(<<at, o>>)'
             /\ provenance \subseteq provenance'
  <2>1. CASE SkipDuplicate(o)
    BY <1>1, <1>6, <2>1 DEF SkipDuplicate, ProvenanceInv, Credited, WithProfile
  <2>2. CASE SkipCached(o)
    BY <1>1, <1>6, <2>2 DEF SkipCached, ProvenanceInv, Credited, Duplicate, Alone
  <2>3. CASE Import(o) \/ ImportUnmarked(o)
    <3>1. o \notin winners /\ Admit(o) /\ seen' \subseteq seen \cup ({o} \cap Named)
      BY <1>1, <1>6, <2>3 DEF Import, ImportUnmarked, Post, Duplicate, ProvenanceInv
    <3>2. /\ winners \subseteq winners'
          /\ provenance \subseteq provenance'
          /\ \A job \in ToSet(ids') : \E w \in winners' \cup Anonymous : JobOf[w] = job
          /\ o \in winners' \cup Anonymous \/ ~Alone(o) \/ JobOf[o] = NoJob
          /\ \/ o \in Anonymous \/ ~Alone(o) \/ JobOf[o] = NoJob
             \/ <<JobOf[o], Requests[at]>> \in provenance'
      BY <1>6, <3>1, AdmitWins
    <3>3. \A p \in seen' : p \in fresh \cup winners' \/ ~Alone(p) \/ JobOf[p] = NoJob
      BY <1>6, <3>1, <3>2 DEF ProvenanceInv, Named
    <3>4. Credited(<<at, o>>)'
      BY <1>1, <3>2 DEF Credited, Alone
    <3>. QED  BY <3>2, <3>3, <3>4
  <2>4. CASE ImportFails(o)
    <3>1. Failure("import", at, o) \in failures' /\ UNCHANGED <<seen, ids, winners, provenance>>
      BY <2>4, Failing DEF ImportFails, AccountInv, Sequences
    <3>. QED  BY <1>1, <1>6, <3>1 DEF ProvenanceInv, Credited, Alone
  <2>. QED  BY <2>1, <2>2, <2>3, <2>4
<1>7. ASSUME config.profiled, NEW hit \in hits
      PROVE  Credited(hit)' \/ (hit[1] = at /\ hit[2] \in ToSet(found'))
  <2>1. CASE Credited(hit)
    BY <1>1, <1>3, <1>6, <1>7, <2>1, StaysCredited
  <2>2. CASE hit[1] = at /\ hit[2] = o
    BY <1>1, <1>6, <1>7, <2>2 DEF Credited
  <2>. QED  BY <1>1, <1>2, <1>7, <2>1, <2>2 DEF ProvenanceInv
<1>8. winners' \subseteq Named
  BY <1>4 DEF ProvenanceInv
<1>. QED  BY <1>1, <1>2, <1>5, <1>6, <1>7, <1>8 DEF ProvenanceInv, Alone

LEMMA ProvenanceBegin == Begin => ProvenanceInv'
  BY NoneInEmpty DEF Begin, ProvenanceInv

LEMMA ProvenanceStep == AccountInv /\ ProvenanceInv /\ [Next]_vars => ProvenanceInv'
  BY ProvenanceFrame, ProvenanceSearch, ProvenanceImport, ProvenanceBegin DEF Next

\* A job names the profiles that found it, no other one, and each of them unless its
\* own import failed or the job is shared, for any searches, any merging by the
\* backend and any failures (JobTrailAutomation.run, steps C and D).
THEOREM ProvenanceIsExact == Spec => []ProvenanceExact
<1>1. ProvenanceInv => ProvenanceExact
  BY DEF ProvenanceInv, ProvenanceExact, Credited
<1>. QED  BY <1>1, AccountInit, AccountStep, ProvenanceInit, ProvenanceStep, PTL DEF Spec

-----------------------------------------------------------------------------
(* The verdict on one score, for all scores and thresholds.                 *)

USE DEF Percent, Absent, Lists, Classes, Extended, Or

\* classify_score returns one of its four classes.
LEMMA ClassType ==
    ASSUME NEW fit, NEW coverage
    PROVE  Class(fit, coverage) \in Classes
  BY DEF Class

LEMMA NoteType ==
    ASSUME NEW r \in Results
    PROVE  Note(r) \in Payloads
  BY ClassType DEF Results, Payloads, Note, Classification

\* A written score that is not the whole set of additive fields has none of them.
LEMMA NoteAdditive ==
    ASSUME NEW r \in Results
    PROVE  Additive(Note(r)) <=> Extended(r)
  BY ClassType DEF Results, Note, Additive, Classification

\* The round trip of a verdict through a note: for every validated answer and every
\* threshold, what is eligible when read is what was recommended when written.
LEMMA RoundTrip ==
    ASSUME NEW r \in Results, NEW t \in Percent
    PROVE  Eligible(Note(r), t) <=> Recommended(r, t)
<1>1. CASE Extended(r)
  BY <1>1, NoteAdditive, ClassType
  DEF Results, Note, Eligible, Clear, Recommended, Classification
<1>2. CASE ~Extended(r)
  BY <1>2, NoteAdditive DEF Results, Note, Eligible, Clear, Recommended
<1>. QED  BY <1>1, <1>2

\* Rank: a fit or coverage that is no worse gives a class that is no worse.
AtLeast(class) ==
    CASE class = "SKIP" -> Classes
      [] class = "EXPLORE" -> {"EXPLORE", "REVIEW", "APPLY"}
      [] class = "REVIEW" -> {"REVIEW", "APPLY"}
      [] class = "APPLY" -> {"APPLY"}

\* Improving the fit or the coverage of a job never makes its class worse
\* (classify_score).
THEOREM ClassMonotone ==
    ASSUME NEW fit \in Int, NEW coverage \in Int, NEW fit2 \in Int, NEW coverage2 \in Int,
           fit <= fit2, coverage <= coverage2
    PROVE  Class(fit2, coverage2) \in AtLeast(Class(fit, coverage))
  BY DEF Class, AtLeast, FIT_APPLY_THRESHOLD, COVERAGE_APPLY_THRESHOLD,
         FIT_REVIEW_THRESHOLD, COVERAGE_REVIEW_THRESHOLD

LEMMA ThresholdType == ShortlistSpec => [](threshold \in Percent)
<1>1. ShortlistInit => threshold \in Percent
  BY ShortlistConfigOK DEF ShortlistInit
<1>2. threshold \in Percent /\ [ShortlistNext]_ranking => (threshold \in Percent)'
  BY DEF ShortlistNext, ranking, ReadNote, RankNotes, Done
<1>. QED  BY <1>1, <1>2, PTL DEF ShortlistSpec

\* The shortlist judges each note as the writer of the note judged the answer,
\* for every set of answers and every threshold.
THEOREM VerdictsSurvive == ShortlistSpec => []VerdictSurvivesNote
<1>1. threshold \in Percent => VerdictSurvivesNote
  BY RoundTrip, ShortlistConfigOK DEF VerdictSurvivesNote
<1>. QED  BY <1>1, ThresholdType, PTL

\* A note that lost one of the other fields is closed.
LEMMA DamageHelpsNobody ==
    ASSUME NEW r \in Results, Extended(r), NEW t \in Percent,
           NEW p \in Damaged(Note(r)), Eligible(p, t), p.recommendation # "absent"
    PROVE  Recommended(r, t)
<1>. DEFINE n == Note(r)
<1>1. /\ n \in Payloads
      /\ n.fit # Absent /\ n.coverage # Absent
      /\ n.classification # "absent"
      /\ n.evidence # "absent" /\ n.exclusions # "absent" /\ n.missing # "absent"
      /\ n.missing = "empty" /\ n.exclusions = "empty"
            => n.classification = Class(n.fit, n.coverage)
  BY ClassType, NoteType DEF Results, Note, Classification
<1>. HIDE DEF n
<1>2. Additive(n)
  BY <1>1 DEF Additive
<1>3. ASSUME NEW q \in Damaged(n), Eligible(q, t), q.recommendation # "absent"
      PROVE  Eligible(n, t)
  <2>1. q # [n EXCEPT !.recommendation = "absent"]
    BY <1>1, <1>3 DEF Payloads
  <2>2. Additive(q) /\ q.score = n.score /\ q.recommendation = n.recommendation
    BY <1>1, <1>3, <2>1 DEF Damaged, Additive, Payloads
  <2>3. q.missing = "empty" /\ q.exclusions = "empty" /\ q.fit # Absent /\ q.coverage # Absent
    BY <2>2, <1>3 DEF Eligible, Clear
  <2>4. q = [n EXCEPT !.evidence = "absent"] \/ q = [n EXCEPT !.classification = "absent"]
    BY <1>1, <1>3, <2>1, <2>3 DEF Damaged, Payloads
  <2>5. q.fit = n.fit /\ q.coverage = n.coverage
        /\ n.missing = "empty" /\ n.exclusions = "empty"
    BY <1>1, <2>3, <2>4 DEF Payloads
  <2>6. Class(n.fit, n.coverage) # "SKIP" /\ n.classification # "SKIP"
    BY <1>1, <1>3, <2>2, <2>5 DEF Eligible
  <2>. QED  BY <1>2, <1>3, <2>2, <2>5, <2>6 DEF Eligible, Clear
<1>4. Eligible(Note(r), t)
  BY <1>3 DEF n
<1>. QED  BY <1>4, RoundTrip

\* A note without its recommendation is judged as if it were an APPLY.
LEMMA RestIsJudged ==
    ASSUME NEW r \in Results, Extended(r), NEW t \in Percent,
           NEW p \in Damaged(Note(r)), Eligible(p, t), p.recommendation = "absent"
    PROVE  Recommended([r EXCEPT !.recommendation = "APPLY"], t)
<1>. DEFINE n == Note(r)
            applied == [r EXCEPT !.recommendation = "APPLY"]
<1>1. n \in Payloads /\ n.recommendation # "absent"
  BY NoteType DEF Results, Note
<1>2. applied \in Results /\ Note(applied) = [n EXCEPT !.recommendation = "APPLY"]
  BY DEF Results, Note, Classification
<1>. HIDE DEF n, applied
<1>3. ASSUME NEW q \in Damaged(n), Eligible(q, t), q.recommendation = "absent"
      PROVE  Eligible([n EXCEPT !.recommendation = "APPLY"], t)
  <2>1. q = [n EXCEPT !.recommendation = "absent"]
    BY <1>1, <1>3 DEF Damaged, Payloads
  <2>. QED  BY <1>1, <1>3, <2>1 DEF Eligible, Clear, Additive, Payloads
<1>4. Eligible(Note(applied), t)
  BY <1>2, <1>3 DEF n
<1>5. Recommended(applied, t)
  BY <1>2, <1>4, RoundTrip
<1>. QED  BY <1>5 DEF applied

\* An additive note that lost a field selects its job only on a verdict of
\* ScoreResult, for all answers and thresholds; without its recommendation it is
\* judged by the rest, and an explicit SKIP is lost (eligible_score).
THEOREM StaysClosed == ShortlistSpec => []FailsClosed
<1>1. threshold \in Percent => FailsClosed
  BY DamageHelpsNobody, RestIsJudged, ShortlistConfigOK DEF FailsClosed
<1>. QED  BY <1>1, ThresholdType, PTL

-----------------------------------------------------------------------------
(* The ranking of all candidates.                                           *)

HasScores(list) == \A i \in DOMAIN list : list[i].payload.score \in Int

LEMMA StableOrder ==
    ASSUME NEW S, NEW list \in Seq(S), HasScores(list), NEW t
    PROVE  /\ EligibleAt(list, t) \subseteq 1 .. Len(list)
           /\ IsFiniteSet(EligibleAt(list, t))
           /\ Cardinality(EligibleAt(list, t)) \in Nat
           /\ StrictOrder(EligibleAt(list, t), Ahead(list))
<1>. DEFINE places == EligibleAt(list, t)
            score(i) == list[i].payload.score
<1>1. places \subseteq 1 .. Len(list)
  BY DEF EligibleAt
<1>2. IsFiniteSet(places) /\ Cardinality(places) \in Nat
  BY <1>1, IndexSet
<1>3. \A i, j \in 1 .. Len(list) : <<i, j>> \in Ahead(list) <=>
          score(i) > score(j) \/ (score(i) = score(j) /\ i < j)
  BY DEF Ahead
<1>4. \A i \in 1 .. Len(list) : score(i) \in Int
  BY DEF HasScores
<1>. HIDE DEF places, score
<1>5. StrictOrder(places, Ahead(list))
  <2>1. \A i, j \in 1 .. Len(list) :
            i = j \/ <<i, j>> \in Ahead(list) \/ <<j, i>> \in Ahead(list)
    <3>. SUFFICES ASSUME NEW i \in 1 .. Len(list), NEW j \in 1 .. Len(list), i # j
                  PROVE  <<i, j>> \in Ahead(list) \/ <<j, i>> \in Ahead(list)
      OBVIOUS
    <3>1. score(i) \in Int /\ score(j) \in Int /\ (i < j \/ j < i)
      BY <1>4
    <3>. QED  BY <1>3, <3>1
  <2>2. \A i, j \in 1 .. Len(list) : <<i, j>> \in Ahead(list) => <<j, i>> \notin Ahead(list)
    BY <1>3, <1>4
  <2>3. \A i, j, k \in 1 .. Len(list) :
            <<i, j>> \in Ahead(list) /\ <<j, k>> \in Ahead(list) => <<i, k>> \in Ahead(list)
    BY <1>3, <1>4
  <2>. QED  BY <1>1, <2>1, <2>2, <2>3 DEF StrictOrder
<1>. QED  BY <1>1, <1>2, <1>5 DEF places

\* What is on a shortlist is an eligible candidate, at the place that the number of
\* eligible candidates ahead of it gives it; and every candidate with such a place is.
LEMMA Shortlisted ==
    ASSUME NEW S, NEW list \in Seq(S), HasScores(list), NEW t
    PROVE  LET short == BuildShortlist(list, t)
               places == EligibleAt(list, t)
               before(i) == Cardinality(Predecessors(i, places, Ahead(list)))
           IN  /\ DOMAIN short \subseteq 1 .. ShortlistLength
               /\ \A k \in DOMAIN short : \E i \in places :
                     short[k] = list[i] /\ before(i) = k - 1
               /\ \A i \in places, k \in 1 .. ShortlistLength :
                     before(i) = k - 1 => k \in DOMAIN short /\ short[k] = list[i]
<1>. DEFINE places == EligibleAt(list, t)
            before(i) == Cardinality(Predecessors(i, places, Ahead(list)))
            order == InOrder(places, Ahead(list))
            n == Cardinality(places)
            short == BuildShortlist(list, t)
<1>1. n \in Nat
  BY StableOrder
<1>2. /\ order \in [1 .. n -> places]
      /\ \A i \in places : \E k \in 1 .. n : order[k] = i
      /\ \A k \in 1 .. n : before(order[k]) = k - 1
  BY StableOrder, Ordered
<1>3. short = [k \in 1 .. Shorter(n, ShortlistLength) |-> list[order[k]]]
  BY DEF BuildShortlist
<1>. HIDE DEF places, before, order, n, short
<1>4. /\ DOMAIN short = 1 .. Shorter(n, ShortlistLength)
      /\ \A k \in DOMAIN short : short[k] = list[order[k]]
  BY <1>3
<1>5. \A k \in 1 .. Shorter(n, ShortlistLength) : k \in 1 .. n /\ k \in 1 .. ShortlistLength
  BY <1>1 DEF Shorter, ShortlistLength
<1>6. \A k \in 1 .. n : k \in 1 .. ShortlistLength => k \in 1 .. Shorter(n, ShortlistLength)
  BY <1>1 DEF Shorter, ShortlistLength
<1>7. ASSUME NEW k \in DOMAIN short
      PROVE  \E i \in places : short[k] = list[i] /\ before(i) = k - 1
  BY <1>2, <1>4, <1>5
<1>8. ASSUME NEW i \in places, NEW k \in 1 .. ShortlistLength, before(i) = k - 1
      PROVE  k \in DOMAIN short /\ short[k] = list[i]
  <2>1. PICK m \in 1 .. n : order[m] = i
    BY <1>2
  <2>2. m = k
    BY <1>1, <1>2, <1>8, <2>1 DEF ShortlistLength
  <2>. QED  BY <1>4, <1>6, <2>1, <2>2
<1>. QED  BY <1>4, <1>5, <1>7, <1>8 DEF places, before, short

Noted == [job : Nat, payload : Payloads]

LEMMA NotedScore ==
    ASSUME NEW c \in Noted
    PROVE  c.payload.score \in Int
<1>1. c.payload \in Payloads
  BY DEF Noted
<1>. QED  BY <1>1 DEF Payloads

\* Candidates are numbered as they were found.
Numbered ==
    /\ threshold \in Percent
    /\ notes \in Seq(Noted)
    /\ \A k \in DOMAIN notes : notes[k].job = k

RankInv ==
    /\ Numbered
    /\ ranked \in BOOLEAN
    /\ ranked => selected = BuildShortlist(notes, threshold)

LEMMA RankInit == ShortlistInit => RankInv
<1>. SUFFICES ASSUME ShortlistInit PROVE RankInv
  OBVIOUS
<1>1. notes = <<>> /\ ranked = FALSE /\ threshold \in Percent
  BY ShortlistConfigOK DEF ShortlistInit
<1>2. notes \in Seq(Noted) /\ \A k \in DOMAIN notes : notes[k].job = k
  BY <1>1
<1>. QED  BY <1>1, <1>2 DEF RankInv, Numbered

LEMMA RankStep == RankInv /\ [ShortlistNext]_ranking => RankInv'
<1>. SUFFICES ASSUME RankInv, [ShortlistNext]_ranking PROVE RankInv'
  OBVIOUS
<1>1. CASE ReadNote
  <2>1. PICK r \in Answers : notes' = Append(notes, [job |-> Len(notes) + 1, payload |-> Note(r)])
    BY <1>1 DEF ReadNote
  <2>2. Note(r) \in Payloads
    BY NoteType, ShortlistConfigOK
  <2>. DEFINE c == [job |-> Len(notes) + 1, payload |-> Note(r)]
  <2>3. c \in Noted /\ c.job = Len(notes) + 1
    BY <2>2 DEF RankInv, Numbered, Noted
  <2>. HIDE DEF c
  <2>4. /\ notes' \in Seq(Noted)
        /\ \A k \in DOMAIN notes' : notes'[k].job = k
    BY <2>1, <2>3 DEF RankInv, Numbered, c
  <2>. QED  BY <1>1, <2>4 DEF ReadNote, RankInv, Numbered
<1>2. CASE RankNotes
  BY <1>2 DEF RankNotes, RankInv, Numbered
<1>3. CASE Done \/ UNCHANGED ranking
  <2>1. UNCHANGED <<threshold, notes, ranked, selected>>
    BY <1>3 DEF Done, ranking
  <2>. QED  BY <2>1 DEF RankInv, Numbered
<1>. QED  BY <1>1, <1>2, <1>3 DEF ShortlistNext

\* The better candidates are those ahead of it among the eligible ones.
LEMMA BetterAreAhead ==
    ASSUME Numbered, NEW i \in DOMAIN notes
    PROVE  Cardinality(Better(notes[i])) =
               Cardinality(Predecessors(i, EligibleAt(notes, threshold), Ahead(notes)))
<1>. DEFINE ahead == Predecessors(i, EligibleAt(notes, threshold), Ahead(notes))
            better == Better(notes[i])
            score(j) == notes[j].payload.score
<1>1. /\ DOMAIN notes = 1 .. Len(notes) /\ Len(notes) \in Nat
      /\ \A j \in DOMAIN notes : notes[j].job = j /\ score(j) \in Int
  BY NotedScore DEF Numbered
<1>2. IsFiniteSet(ahead) /\ ahead \subseteq DOMAIN notes
  <2>1. ahead \subseteq 1 .. Len(notes)
    BY DEF Predecessors, EligibleAt, Numbered
  <2>. QED  BY <1>1, <2>1, IndexSet
<1>3. \A j \in DOMAIN notes : j \in ahead <=>
          /\ Eligible(notes[j].payload, threshold)
          /\ score(j) > score(i) \/ (score(j) = score(i) /\ j < i)
  BY <1>1 DEF Predecessors, EligibleAt, Ahead
<1>4. \A d : d \in better <=> \E j \in ahead : d = notes[j]
  <2>1. \A d : d \in better <=>
            /\ d \in ToSet(notes)
            /\ Eligible(d.payload, threshold)
            /\ \/ d.payload.score > score(i)
               \/ d.payload.score = score(i) /\ d.job < i
    BY <1>1 DEF Better
  <2>2. \A d : d \in ToSet(notes) <=> \E j \in DOMAIN notes : notes[j] = d
    BY InSequence DEF Numbered
  <2>. HIDE DEF better, ahead
  <2>. QED  BY <1>1, <1>2, <1>3, <2>1, <2>2
<1>. DEFINE named == [j \in ahead |-> notes[j]]
<1>5. named \in Bijection(ahead, better)
  <2>1. named \in [ahead -> better]
    BY <1>4
  <2>2. \A j, k \in ahead : named[j] = named[k] => j = k
    BY <1>1, <1>2
  <2>3. \A d \in better : \E j \in ahead : named[j] = d
    BY <1>4
  <2>. QED  BY <2>1, <2>2, <2>3 DEF Bijection, Injection, IsInjective, Surjection
<1>6. ExistsBijection(ahead, better)
  BY <1>5 DEF ExistsBijection
<1>. QED  BY <1>2, <1>6, FS_Bijection

\* The shortlist is the best of all eligible candidates, in order, ties as they
\* were found, for any number of candidates, scores and thresholds (build_shortlist).
THEOREM BestComeFirst == ShortlistSpec => []BestFirst
<1>1. RankInv => BestFirst
  <2>. SUFFICES ASSUME RankInv, ranked, NEW c \in ToSet(notes), NEW k \in 1 .. ShortlistLength
                PROVE  (k \in DOMAIN selected /\ selected[k] = c) <=>
                           Eligible(c.payload, threshold) /\ Cardinality(Better(c)) = k - 1
    BY DEF BestFirst
  <2>. DEFINE places == EligibleAt(notes, threshold)
              before(i) == Cardinality(Predecessors(i, places, Ahead(notes)))
  <2>1. Numbered /\ selected = BuildShortlist(notes, threshold)
    BY DEF RankInv
  <2>2. PICK i \in DOMAIN notes : notes[i] = c
    BY <2>1, InSequence DEF Numbered
  <2>3. i \in places <=> Eligible(c.payload, threshold)
    BY <2>2 DEF EligibleAt
  <2>4. Cardinality(Better(c)) = before(i)
    BY <2>1, <2>2, BetterAreAhead
  <2>5. HasScores(notes)
    BY <2>1, NotedScore DEF HasScores, Numbered
  <2>6. /\ \A m \in DOMAIN selected : \E j \in places :
               selected[m] = notes[j] /\ before(j) = m - 1
        /\ \A j \in places, m \in 1 .. ShortlistLength :
               before(j) = m - 1 => m \in DOMAIN selected /\ selected[m] = notes[j]
    BY <2>1, <2>5, Shortlisted DEF Numbered
  <2>7. \A j \in DOMAIN notes : notes[j] = c => j = i
    BY <2>1, <2>2 DEF Numbered
  <2>8. places \subseteq DOMAIN notes
    BY DEF EligibleAt
  <2>. HIDE DEF places, before
  <2>. QED  BY <2>2, <2>3, <2>4, <2>6, <2>7, <2>8
<1>. QED  BY <1>1, RankInit, RankStep, PTL DEF ShortlistSpec

-----------------------------------------------------------------------------
(* What was announced.                                                      *)

Gathering == {"gate", "preflight", "searching"} \cup Importing

Failed(stage, job) == Failure(stage, 0, job) \in failures

\* A job that is scored, or is to be.
Sound(job) == job \in ToSet(ids) /\ ~Failed("score", job) /\ ~Failed("read", job)

\* Each job is scored once and read once, so that its failure leaves no trace of it
\* among the candidates.
AnnounceInv ==
    /\ candidates \in Seq(Candidate)
    /\ IsInjective(ids) /\ IsInjective(todo) /\ IsInjective(scored)
    /\ pc \in Gathering =>
          /\ \A job \in Jobs : ~Failed("score", job) /\ ~Failed("read", job)
          /\ scored = <<>> /\ candidates = <<>>
    /\ pc = "scoring" =>
          /\ \A job \in Jobs : ~Failed("read", job)
          /\ \A job \in ToSet(todo) \cup ToSet(scored) : Sound(job)
          /\ ToSet(todo) \cap ToSet(scored) = {}
          /\ candidates = <<>>
    /\ pc = "reading" =>
          /\ \A job \in ToSet(todo) : Sound(job)
          /\ \A c \in ToSet(candidates) : Sound(c.job) /\ c.job \notin ToSet(todo)
    /\ pc \in Gathering \cup {"scoring", "reading"} => shortlist = <<>>
    /\ AnnouncedWasScored

LEMMA CandidateScore ==
    ASSUME NEW c \in Candidate
    PROVE  c.payload.score \in Int
<1>1. c.payload \in Payloads
  BY DEF Candidate
<1>. QED  BY <1>1 DEF Payloads

LEMMA OnceInPrefix ==
    ASSUME NEW S, NEW s \in Seq(S), IsInjective(s), NEW m \in Nat
    PROVE  /\ IsInjective(SubSeq(s, 1, Shorter(m, Len(s))))
           /\ ToSet(SubSeq(s, 1, Shorter(m, Len(s)))) \subseteq ToSet(s)
<1>. DEFINE prefix == SubSeq(s, 1, Shorter(m, Len(s)))
<1>1. Shorter(m, Len(s)) \in 0 .. Len(s)
  BY DEF Shorter
<1>2. prefix \in Seq(S) /\ \A k \in DOMAIN prefix : k \in DOMAIN s /\ prefix[k] = s[k]
  BY <1>1
<1>3. \A i, j \in DOMAIN s : s[i] = s[j] => i = j
  BY DEF IsInjective
<1>. HIDE DEF prefix
<1>4. \A i, j \in DOMAIN prefix : prefix[i] = prefix[j] => i = j
  BY <1>2, <1>3
<1>5. ToSet(prefix) \subseteq ToSet(s)
  <2>. SUFFICES ASSUME NEW e \in ToSet(prefix) PROVE e \in ToSet(s)
    OBVIOUS
  <2>1. PICK k \in DOMAIN prefix : prefix[k] = e
    BY <1>2, InSequence
  <2>. QED  BY <1>2, <2>1, InSequence
<1>. QED  BY <1>4, <1>5 DEF prefix, IsInjective

LEMMA AnnounceInit == Init => AnnounceInv
<1>. SUFFICES ASSUME Init PROVE AnnounceInv
  OBVIOUS
<1>1. /\ pc = "idle" /\ ids = <<>> /\ todo = <<>> /\ scored = <<>>
      /\ candidates = <<>> /\ shortlist = <<>>
  BY DEF Init
<1>2. candidates \in Seq(Candidate) /\ AnnouncedWasScored
  BY <1>1 DEF AnnouncedWasScored
<1>. QED  BY <1>1, <1>2, OnceEmpty DEF AnnounceInv, Gathering

LEMMA AnnounceBegin == Begin => AnnounceInv'
<1>. SUFFICES ASSUME Begin PROVE AnnounceInv'
  OBVIOUS
<1>1. /\ pc' = "gate" /\ ids' = <<>> /\ todo' = <<>> /\ scored' = <<>>
      /\ candidates' = <<>> /\ shortlist' = <<>> /\ labels' = <<>>
  BY DEF Begin
<1>2. candidates' \in Seq(Candidate) /\ AnnouncedWasScored'
  BY <1>1 DEF AnnouncedWasScored
<1>3. \A job : ~Failed("score", job)' /\ ~Failed("read", job)'
  BY <1>1, NoneInEmpty DEF Failed
<1>. QED  BY <1>1, <1>2, <1>3, OnceEmpty DEF AnnounceInv, Gathering

\* A failure of another stage is no failure of a score or a reading.
LEMMA OtherFailure ==
    ASSUME NEW stage, NEW request, NEW subject, stage \notin {"score", "read"},
           failures' = failures \cup {Failure(stage, request, subject)}
    PROVE  \A job : /\ Failed("score", job)' <=> Failed("score", job)
                    /\ Failed("read", job)' <=> Failed("read", job)
  BY DEF Failed, Failure

\* The steps up to the scoring, but for the imports.
LEMMA AnnounceGather ==
    ASSUME AnnounceInv, Listed, Attempt \/ PreflightPasses \/ Search \/ SearchFails \/ Searched
    PROVE  AnnounceInv'
<1>1. /\ pc \in Gathering /\ pc' \in Gathering
      /\ UNCHANGED <<ids, todo, scored, candidates, shortlist>>
  BY DEF Attempt, PreflightPasses, Search, SearchFails, Searched, Gathering
<1>2. \A job : /\ Failed("score", job)' <=> Failed("score", job)
               /\ Failed("read", job)' <=> Failed("read", job)
  <2>1. ASSUME Attempt \/ PreflightPasses \/ Search \/ Searched PROVE UNCHANGED labels
    BY <2>1 DEF Attempt, PreflightPasses, Search, Searched
  <2>2. ASSUME SearchFails PROVE failures' = failures \cup {Failure("search", at, NoJob)}
    BY <2>2, Failing DEF SearchFails
  <2>. QED  BY <2>1, <2>2, OtherFailure DEF Failed
<1>3. AnnouncedWasScored'
  BY <1>1 DEF AnnounceInv, AnnouncedWasScored
<1>. QED  BY <1>1, <1>2, <1>3 DEF AnnounceInv, Gathering

LEMMA AdmitOnce ==
    ASSUME Sequences, IsInjective(ids), NEW o \in Offers, Admit(o)
    PROVE  IsInjective(ids')
<1>1. CASE JobOf[o] # NoJob /\ JobOf[o] \notin ToSet(ids)
  <2>1. ids' = Append(ids, JobOf[o]) /\ JobOf[o] \in Jobs
    BY <1>1, PipelineConfigOK DEF Admit
  <2>. QED  BY <1>1, <2>1, OnceAppended DEF Sequences
<1>2. CASE ~(JobOf[o] # NoJob /\ JobOf[o] \notin ToSet(ids))
  BY <1>2 DEF Admit
<1>. QED  BY <1>1, <1>2

LEMMA AnnounceImport ==
    ASSUME AnnounceInv, Sequences, NEW o \in Offers,
           \/ SkipDuplicate(o) \/ SkipCached(o) \/ CheckFails(o)
           \/ Import(o) \/ ImportUnmarked(o) \/ ImportFails(o)
    PROVE  AnnounceInv'
<1>1. /\ pc \in Importing /\ pc' \in Importing
      /\ UNCHANGED <<todo, scored, candidates, shortlist>>
  BY DEF SkipDuplicate, SkipCached, CheckFails, Import, ImportUnmarked, ImportFails, Post, NextOffer
<1>2. \A job : /\ Failed("score", job)' <=> Failed("score", job)
               /\ Failed("read", job)' <=> Failed("read", job)
  <2>1. ASSUME SkipDuplicate(o) \/ SkipCached(o) \/ Import(o) PROVE UNCHANGED labels
    BY <2>1 DEF SkipDuplicate, SkipCached, Import
  <2>2. ASSUME ImportUnmarked(o) PROVE failures' = failures \cup {Failure("cache", at, o)}
    BY <2>2, Failing DEF ImportUnmarked, Sequences
  <2>3. ASSUME ImportFails(o) PROVE failures' = failures \cup {Failure("import", at, o)}
    BY <2>3, Failing DEF ImportFails, Sequences
  <2>4. ASSUME CheckFails(o) PROVE failures' = failures \cup {Failure("check", at, o)}
    BY <2>4, Failing DEF CheckFails, Sequences
  <2>. QED  BY <2>1, <2>2, <2>3, <2>4, OtherFailure DEF Failed
<1>3. IsInjective(ids')
  <2>1. Admit(o) \/ UNCHANGED ids
    BY DEF SkipDuplicate, SkipCached, CheckFails, Import, ImportUnmarked, ImportFails
  <2>. QED  BY <2>1, AdmitOnce DEF AnnounceInv
<1>4. AnnouncedWasScored'
  BY <1>1 DEF AnnounceInv, AnnouncedWasScored, Gathering
<1>. QED  BY <1>1, <1>2, <1>3, <1>4 DEF AnnounceInv, Gathering

LEMMA AnnounceScoring ==
    ASSUME AnnounceInv, Sequences, Imported \/ Score \/ ScoreFails \/ Scored
    PROVE  AnnounceInv'
<1>1. CASE Imported
  <2>1. /\ pc = "searching" /\ pc' = "scoring"
        /\ todo' = SubSeq(ids, 1, Shorter(MaxScore, Len(ids)))
        /\ UNCHANGED <<ids, scored, candidates, shortlist, labels>>
    BY <1>1 DEF Imported
  <2>2. IsInjective(todo') /\ ToSet(todo') \subseteq ToSet(ids)
    BY <2>1, OnceInPrefix, PipelineConfigOK DEF AnnounceInv, Sequences
  <2>3. \A job \in ToSet(ids) : job \in Jobs
    BY InSequence DEF Sequences
  <2>4. /\ scored = <<>> /\ candidates = <<>> /\ shortlist = <<>>
        /\ \A job \in Jobs : ~Failed("score", job) /\ ~Failed("read", job)
    BY <2>1 DEF AnnounceInv, Gathering
  <2>5. \A job \in ToSet(todo') \cup ToSet(scored) : Sound(job)'
    BY <2>1, <2>2, <2>3, <2>4, NoneInEmpty DEF Sound, Failed
  <2>6. AnnouncedWasScored'
    BY <2>1, <2>4 DEF AnnouncedWasScored
  <2>. QED  BY <2>1, <2>2, <2>4, <2>5, <2>6, NoneInEmpty DEF AnnounceInv, Gathering, Failed
<1>2. CASE Score
  <2>1. /\ pc = "scoring" /\ pc' = "scoring" /\ todo # <<>>
        /\ scored' = Append(scored, Head(todo)) /\ todo' = Tail(todo)
        /\ UNCHANGED <<ids, candidates, shortlist, labels>>
    BY <1>2 DEF Score
  <2>2. /\ Head(todo) \in Jobs /\ Head(todo) \notin ToSet(todo') /\ IsInjective(todo')
        /\ ToSet(todo) = {Head(todo)} \cup ToSet(todo')
    BY <2>1, InHeadAndTail, OnceInTail DEF AnnounceInv, Sequences
  <2>3. Head(todo) \notin ToSet(scored)
    BY <2>1, <2>2 DEF AnnounceInv
  <2>4. IsInjective(scored') /\ ToSet(scored') = ToSet(scored) \cup {Head(todo)}
    BY <2>1, <2>2, <2>3, InAppend, OnceAppended DEF AnnounceInv, Sequences
  <2>5. ToSet(todo') \cap ToSet(scored') = {}
    BY <2>1, <2>2, <2>4 DEF AnnounceInv
  <2>6. \A job \in ToSet(todo') \cup ToSet(scored') : Sound(job)'
    BY <2>1, <2>2, <2>4 DEF AnnounceInv, Sound, Failed
  <2>7. AnnouncedWasScored'
    BY <2>1 DEF AnnounceInv, AnnouncedWasScored
  <2>. QED  BY <2>1, <2>2, <2>4, <2>5, <2>6, <2>7 DEF AnnounceInv, Gathering, Failed
<1>3. CASE ScoreFails
  <2>1. /\ pc = "scoring" /\ pc' = "scoring" /\ todo # <<>> /\ todo' = Tail(todo)
        /\ failures' = failures \cup {Failure("score", 0, Head(todo))}
        /\ UNCHANGED <<ids, scored, candidates, shortlist>>
    BY <1>3, Failing DEF ScoreFails, Sequences
  <2>2. /\ Head(todo) \notin ToSet(todo') /\ IsInjective(todo')
        /\ ToSet(todo) = {Head(todo)} \cup ToSet(todo')
    BY <2>1, InHeadAndTail, OnceInTail DEF AnnounceInv, Sequences
  <2>3. \A job : /\ Failed("score", job)' <=> Failed("score", job) \/ job = Head(todo)
                 /\ Failed("read", job)' <=> Failed("read", job)
    BY <2>1 DEF Failed, Failure
  <2>4. \A job \in ToSet(todo') \cup ToSet(scored) : Sound(job)'
    BY <2>1, <2>2, <2>3 DEF AnnounceInv, Sound
  <2>5. ToSet(todo') \cap ToSet(scored) = {}
    BY <2>1, <2>2 DEF AnnounceInv
  <2>6. AnnouncedWasScored'
    BY <2>1 DEF AnnounceInv, AnnouncedWasScored
  <2>. QED  BY <2>1, <2>2, <2>3, <2>4, <2>5, <2>6 DEF AnnounceInv, Gathering
<1>4. CASE Scored
  <2>1. /\ pc = "scoring" /\ pc' = "reading" /\ todo' = scored
        /\ UNCHANGED <<ids, scored, candidates, shortlist, labels>>
    BY <1>4 DEF Scored
  <2>2. \A job \in ToSet(todo') : Sound(job)'
    BY <2>1 DEF AnnounceInv, Sound, Failed
  <2>3. ToSet(candidates') = {}
    BY <2>1, NoneInEmpty DEF AnnounceInv
  <2>4. AnnouncedWasScored'
    BY <2>1 DEF AnnounceInv, AnnouncedWasScored
  <2>. QED  BY <2>1, <2>2, <2>3, <2>4 DEF AnnounceInv, Gathering
<1>. QED  BY <1>1, <1>2, <1>3, <1>4

LEMMA AnnounceReading ==
    ASSUME AnnounceInv, Sequences, ReadBack \/ Unreadable \/ ReadFails
    PROVE  AnnounceInv'
<1>1. /\ pc = "reading" /\ pc' = "reading" /\ todo # <<>> /\ todo' = Tail(todo)
      /\ UNCHANGED <<ids, scored, shortlist>>
  BY DEF ReadBack, Unreadable, ReadFails
<1>2. /\ Head(todo) \in Jobs /\ Head(todo) \notin ToSet(todo') /\ IsInjective(todo')
      /\ ToSet(todo) = {Head(todo)} \cup ToSet(todo')
  BY <1>1, InHeadAndTail, OnceInTail DEF AnnounceInv, Sequences
<1>3. AnnouncedWasScored'
  BY <1>1 DEF AnnounceInv, AnnouncedWasScored
<1>4. CASE ReadBack
  <2>1. PICK payload \in Readable :
            candidates' = Append(candidates, [job |-> Head(todo), payload |-> payload])
    BY <1>4 DEF ReadBack
  <2>. DEFINE c == [job |-> Head(todo), payload |-> payload]
  <2>2. c \in Candidate /\ c.job = Head(todo)
    BY <1>2, PipelineConfigOK DEF Candidate
  <2>. HIDE DEF c
  <2>3. candidates' \in Seq(Candidate) /\ ToSet(candidates') = ToSet(candidates) \cup {c}
    BY <2>1, <2>2, InAppend DEF AnnounceInv, c
  <2>4. UNCHANGED labels
    BY <1>4 DEF ReadBack
  <2>5. \A d \in ToSet(candidates') : Sound(d.job)' /\ d.job \notin ToSet(todo')
    BY <1>1, <1>2, <2>2, <2>3, <2>4 DEF AnnounceInv, Sound, Failed
  <2>6. \A job \in ToSet(todo') : Sound(job)'
    BY <1>1, <1>2, <2>4 DEF AnnounceInv, Sound, Failed
  <2>. QED  BY <1>1, <1>2, <1>3, <2>3, <2>5, <2>6 DEF AnnounceInv, Gathering
<1>5. CASE Unreadable
  <2>1. UNCHANGED <<candidates, labels>>
    BY <1>5 DEF Unreadable
  <2>. QED  BY <1>1, <1>2, <1>3, <2>1 DEF AnnounceInv, Gathering, Sound, Failed
<1>6. CASE ReadFails
  <2>1. /\ failures' = failures \cup {Failure("read", 0, Head(todo))}
        /\ UNCHANGED candidates
    BY <1>6, Failing DEF ReadFails, Sequences
  <2>2. \A job : /\ Failed("score", job)' <=> Failed("score", job)
                 /\ Failed("read", job)' <=> Failed("read", job) \/ job = Head(todo)
    BY <2>1 DEF Failed, Failure
  <2>3. \A job \in ToSet(todo') : Sound(job)'
    BY <1>1, <1>2, <2>2 DEF AnnounceInv, Sound
  <2>4. \A c \in ToSet(candidates) : Sound(c.job)' /\ c.job \notin ToSet(todo')
    BY <1>1, <1>2, <2>2 DEF AnnounceInv, Sound
  <2>. QED  BY <1>1, <1>2, <1>3, <2>1, <2>3, <2>4 DEF AnnounceInv, Gathering
<1>. QED  BY <1>4, <1>5, <1>6

LEMMA AnnounceRank ==
    ASSUME AnnounceInv, Rank
    PROVE  AnnounceInv'
<1>1. /\ pc = "reading" /\ pc' = "notifying"
      /\ shortlist' = BuildShortlist(candidates, Threshold)
      /\ UNCHANGED <<ids, todo, scored, candidates, labels>>
  BY DEF Rank
<1>2. candidates \in Seq(Candidate) /\ \A c \in ToSet(candidates) : Sound(c.job)
  BY <1>1 DEF AnnounceInv
<1>3. HasScores(candidates)
  BY <1>2, CandidateScore DEF HasScores
<1>4. \A k \in DOMAIN shortlist' : \E i \in EligibleAt(candidates, Threshold) :
          shortlist'[k] = candidates[i]
  BY <1>1, <1>2, <1>3, Shortlisted
<1>5. ASSUME NEW k \in DOMAIN shortlist'
      PROVE  Sound(shortlist'[k].job)
  <2>1. PICK i \in DOMAIN candidates : shortlist'[k] = candidates[i]
    BY <1>4, <1>5 DEF EligibleAt
  <2>2. candidates[i] \in ToSet(candidates)
    BY <1>2, InSequence
  <2>. QED  BY <1>2, <2>1, <2>2
<1>6. AnnouncedWasScored'
  BY <1>1, <1>5 DEF AnnouncedWasScored, Sound, Failed
<1>. QED  BY <1>1, <1>6 DEF AnnounceInv, Gathering

\* The steps at a gate and after the shortlist.
LEMMA AnnounceEnd ==
    ASSUME AnnounceInv, Listed,
           \/ BreakerOpen \/ PreflightAborts \/ Notify \/ NotifyFails \/ Record \/ Dies
           \/ UNCHANGED vars
    PROVE  AnnounceInv'
<1>1. UNCHANGED <<ids, todo, scored, candidates, shortlist>>
  BY DEF BreakerOpen, PreflightAborts, Notify, NotifyFails, Record, Dies, vars
<1>2. CASE BreakerOpen \/ PreflightAborts
  <2>1. pc \in Gathering /\ pc' = "ended"
    BY <1>2 DEF BreakerOpen, PreflightAborts, Gathering
  <2>2. AnnouncedWasScored'
    BY <1>1, <2>1 DEF AnnounceInv, AnnouncedWasScored
  <2>. QED  BY <1>1, <2>1, <2>2 DEF AnnounceInv, Gathering
<1>3. CASE NotifyFails
  <2>1. /\ pc' = "recording"
        /\ failures' = failures \cup {Failure("notify", 0, NoJob)}
    BY <1>3, Failing DEF NotifyFails
  <2>2. \A job : /\ Failed("score", job)' <=> Failed("score", job)
                 /\ Failed("read", job)' <=> Failed("read", job)
    BY <2>1, OtherFailure
  <2>3. AnnouncedWasScored'
    BY <1>1, <2>2 DEF AnnounceInv, AnnouncedWasScored, Failed
  <2>. QED  BY <1>1, <2>1, <2>3 DEF AnnounceInv, Gathering
<1>4. CASE Notify \/ Record \/ Dies \/ UNCHANGED vars
  <2>1. UNCHANGED labels /\ (pc' \in {"recording", "ended", "idle"} \/ UNCHANGED pc)
    BY <1>4 DEF Notify, Record, Dies, vars
  <2>2. AnnouncedWasScored'
    BY <1>1, <2>1 DEF AnnounceInv, AnnouncedWasScored
  <2>. QED  BY <1>1, <2>1, <2>2 DEF AnnounceInv, Gathering, Sound, Failed
<1>. QED  BY <1>2, <1>3, <1>4

LEMMA AnnounceStep == AccountInv /\ AnnounceInv /\ [Next]_vars => AnnounceInv'
  BY AnnounceBegin, AnnounceGather, AnnounceImport, AnnounceScoring, AnnounceReading,
     AnnounceRank, AnnounceEnd
     DEF Next, AccountInv, Sequences

\* What is on the shortlist, and is announced, was scored and read in this run, for
\* any jobs, results, limit and failures (JobTrailAutomation.run, steps E to H).
THEOREM OnlyScoredAnnounced == Spec => []AnnouncedWasScored
<1>1. AnnounceInv => AnnouncedWasScored
  BY DEF AnnounceInv
<1>. QED  BY <1>1, AccountInit, AccountStep, AnnounceInit, AnnounceStep, PTL DEF Spec

-----------------------------------------------------------------------------
(* The types.                                                               *)

LEMMA ShortlistOf ==
    ASSUME NEW S, NEW list \in Seq(S), HasScores(list), NEW t
    PROVE  BuildShortlist(list, t) \in Seq(S)
<1>. DEFINE places == EligibleAt(list, t)
            n == Cardinality(places)
            order == InOrder(places, Ahead(list))
            length == Shorter(n, ShortlistLength)
<1>1. n \in Nat /\ order \in [1 .. n -> places]
  BY StableOrder, Ordered
<1>2. places \subseteq DOMAIN list
  BY DEF EligibleAt
<1>3. BuildShortlist(list, t) = [k \in 1 .. length |-> list[order[k]]]
  BY DEF BuildShortlist
<1>4. length \in Nat /\ length <= n
  BY <1>1 DEF Shorter, ShortlistLength
<1>. HIDE DEF places, n, order, length
<1>5. \A k \in 1 .. length : list[order[k]] \in S
  BY <1>1, <1>2, <1>4
<1>. QED  BY <1>3, <1>4, <1>5

LEMMA RequestNumbers == Len(Requests) \in Nat /\ DOMAIN Requests = 1 .. Len(Requests)
  BY PipelineConfigOK

\* What the other invariants do not say of the types, and why a duplicate has a
\* job: an offer without one never wins.
Typed ==
    /\ config \in Configs
    /\ pc \in {"idle", "gate", "preflight", "searching", "importing", "unchecked",
               "scoring", "reading", "notifying", "recording", "ended"}
    /\ seen \subseteq Named
    /\ at \in 0 .. Len(Requests) + 1
    /\ pc \in Importing => at \in DOMAIN Requests
    /\ winners \subseteq Named
    /\ \A o \in winners : JobOf[o] \in Jobs
    /\ provenance \subseteq Jobs \X Profiles
    /\ shortlist \in Seq(Candidate)
    /\ labels \in Seq(Failures)
    /\ sent \in Messages
    /\ told \in {"nothing", "failure", "success"}
    /\ fresh \subseteq Named
    /\ hits \subseteq (1 .. Len(Requests)) \X Offers
    /\ faults \in 0 .. MaxFaults

LEMMA TypedInit == Init => Typed
<1>. SUFFICES ASSUME Init PROVE Typed
  OBVIOUS
<1>1. Nothing \in Messages
  BY DEF Nothing, Messages
<1>2. shortlist \in Seq(Candidate)
  BY DEF Init
<1>. QED  BY <1>1, <1>2, RequestNumbers, PipelineConfigOK DEF Init, Typed

LEMMA FailureType ==
    ASSUME NEW stage \in {"breaker", "preflight", "search", "check", "import", "cache",
                          "score", "read", "notify"},
           NEW request \in 0 .. Len(Requests),
           NEW subject \in Offers \cup Jobs \cup {NoJob}
    PROVE  Failure(stage, request, subject) \in Failures
  BY DEF Failure, Failures

LEMMA FailTyped ==
    ASSUME Typed, NEW failure \in Failures, Fail(failure)
    PROVE  /\ labels' \in Seq(Failures)
           /\ faults' \in 0 .. MaxFaults
           /\ UNCHANGED <<sent, told>>
  BY PipelineConfigOK DEF Typed, Fail

LEMMA BeginTyped == Typed /\ Begin => Typed'
<1>. SUFFICES ASSUME Typed, Begin PROVE Typed'
  OBVIOUS
<1>1. sent' \in Messages /\ shortlist' \in Seq(Candidate)
  BY DEF Begin, Nothing, Messages
<1>2. seen' \subseteq Named /\ fresh' \subseteq Named
  BY DEF Typed, Begin
<1>. QED  BY <1>1, <1>2, RequestNumbers, PipelineConfigOK DEF Typed, Begin

LEMMA GateTyped ==
    ASSUME Typed, Attempt \/ BreakerOpen \/ PreflightAborts \/ PreflightPasses
    PROVE  Typed'
<1>1. /\ Failure("breaker", 0, NoJob) \in Failures
      /\ Failure("notify", 0, NoJob) \in Failures
      /\ Failure("preflight", 0, NoJob) \in Failures
  BY FailureType, RequestNumbers
<1>2. CASE Attempt
  BY <1>2 DEF Attempt, Typed
<1>3. CASE BreakerOpen
  <2>1. labels' \in Seq(Failures)
    <3>1. \A f, g \in Failures : <<f>> \in Seq(Failures) /\ <<f, g>> \in Seq(Failures)
      OBVIOUS
    <3>. QED  BY <1>1, <1>3, <3>1 DEF BreakerOpen
  <2>. QED  BY <1>3, <2>1 DEF BreakerOpen, Typed
<1>4. CASE PreflightAborts
  <2>1. labels' \in Seq(Failures) /\ told' \in {"nothing", "failure", "success"}
    BY <1>1, <1>4 DEF PreflightAborts
  <2>2. faults' \in 0 .. MaxFaults
    BY <1>4, PipelineConfigOK DEF PreflightAborts, Typed
  <2>. QED  BY <1>4, <2>1, <2>2 DEF PreflightAborts, Typed
<1>5. CASE PreflightPasses
  BY <1>5, RequestNumbers DEF PreflightPasses, Typed
<1>. QED  BY <1>2, <1>3, <1>4, <1>5

LEMMA SearchTyped ==
    ASSUME Typed, Search \/ SearchFails \/ Searched
    PROVE  Typed'
<1>1. CASE Search
  <2>1. PICK offers \in SearchResults : hits' = hits \cup ({at} \X ToSet(offers))
    BY <1>1 DEF Search
  <2>2. ToSet(offers) \subseteq Offers
    BY InSequence, PipelineConfigOK
  <2>3. hits' \subseteq (1 .. Len(Requests)) \X Offers
    BY <1>1, <2>1, <2>2, RequestNumbers DEF Search, Typed
  <2>. QED  BY <1>1, <2>3 DEF Search, Typed
<1>2. CASE SearchFails
  <2>1. at \in 1 .. Len(Requests) /\ pc \notin Importing /\ UNCHANGED pc
    BY <1>2, RequestNumbers DEF SearchFails
  <2>2. Failure("search", at, NoJob) \in Failures
    BY <2>1, FailureType, RequestNumbers
  <2>3. /\ labels' \in Seq(Failures) /\ faults' \in 0 .. MaxFaults
        /\ UNCHANGED <<sent, told>>
    BY <1>2, <2>2, FailTyped DEF SearchFails
  <2>4. at' \in 0 .. Len(Requests) + 1
    BY <1>2, <2>1, RequestNumbers DEF SearchFails
  <2>. QED  BY <1>2, <2>1, <2>3, <2>4 DEF SearchFails, Typed
<1>3. CASE Searched
  <2>1. at \in 1 .. Len(Requests)
    BY <1>3, RequestNumbers DEF Searched, Typed
  <2>2. at' \in 0 .. Len(Requests) + 1 /\ pc' = "searching"
    BY <1>3, <2>1, RequestNumbers DEF Searched
  <2>. QED  BY <1>3, <2>2 DEF Searched, Typed
<1>. QED  BY <1>1, <1>2, <1>3

LEMMA AdmitTyped ==
    ASSUME Typed, NEW o \in Offers, Admit(o), pc \in Importing
    PROVE  /\ winners' \subseteq Named
           /\ \A p \in winners' : JobOf[p] \in Jobs
           /\ provenance' \subseteq Jobs \X Profiles
<1>1. at \in DOMAIN Requests /\ Requests[at] \in Profiles
  BY RequestNumbers, InSequence, PipelineConfigOK DEF Typed, Profiles
<1>2. JobOf[o] # NoJob => JobOf[o] \in Jobs
  BY PipelineConfigOK
<1>3. JobOf[o] \in Jobs => WithProfile(JobOf[o]) \subseteq Jobs \X Profiles
  BY <1>1 DEF WithProfile, Typed
<1>. QED  BY <1>2, <1>3 DEF Admit, Typed

LEMMA ImportTyped ==
    ASSUME Typed, NEW o \in Offers,
           \/ SkipDuplicate(o) \/ SkipCached(o) \/ CheckFails(o)
           \/ Import(o) \/ ImportUnmarked(o) \/ ImportFails(o)
    PROVE  Typed'
<1>1. /\ pc \in Importing /\ pc' \in Importing
      /\ UNCHANGED <<config, at, hits, shortlist, fresh>>
  BY DEF SkipDuplicate, SkipCached, CheckFails, Import, ImportUnmarked, ImportFails, Post, NextOffer
<1>2. at \in 1 .. Len(Requests)
  BY <1>1, RequestNumbers DEF Typed
<1>3. seen' \subseteq Named
  BY DEF SkipDuplicate, SkipCached, CheckFails, Import, ImportUnmarked, ImportFails, Typed
<1>4. /\ winners' \subseteq Named
      /\ \A p \in winners' : JobOf[p] \in Jobs
      /\ provenance' \subseteq Jobs \X Profiles
  <2>1. CASE SkipDuplicate(o)
    <3>1. o \in winners /\ provenance' = WithProfile(JobOf[o]) /\ UNCHANGED winners
      BY <2>1 DEF SkipDuplicate, Duplicate
    <3>2. Requests[at] \in Profiles
      BY <1>2, RequestNumbers, InSequence, PipelineConfigOK DEF Profiles
    <3>. QED  BY <3>1, <3>2 DEF Typed, WithProfile
  <2>2. CASE SkipCached(o) \/ CheckFails(o) \/ ImportFails(o)
    BY <2>2 DEF SkipCached, CheckFails, ImportFails, Typed
  <2>3. CASE Import(o) \/ ImportUnmarked(o)
    BY <1>1, <2>3, AdmitTyped DEF Import, ImportUnmarked
  <2>. QED  BY <2>1, <2>2, <2>3
<1>5. /\ labels' \in Seq(Failures) /\ faults' \in 0 .. MaxFaults
      /\ UNCHANGED <<sent, told>>
  <2>1. CASE SkipDuplicate(o) \/ SkipCached(o) \/ Import(o)
    BY <2>1 DEF SkipDuplicate, SkipCached, Import, result, Typed
  <2>2. CASE CheckFails(o) \/ ImportUnmarked(o) \/ ImportFails(o)
    <3>1. /\ Failure("cache", at, o) \in Failures /\ Failure("import", at, o) \in Failures
          /\ Failure("check", at, o) \in Failures
      BY <1>2, FailureType, RequestNumbers
    <3>. QED  BY <2>2, <3>1, FailTyped DEF CheckFails, ImportUnmarked, ImportFails
  <2>. QED  BY <2>1, <2>2
<1>. QED  BY <1>1, <1>3, <1>4, <1>5 DEF Typed

LEMMA ScoringTyped ==
    ASSUME Typed, Sequences, AnnounceInv,
           \/ Imported \/ Score \/ ScoreFails \/ Scored
           \/ ReadBack \/ Unreadable \/ ReadFails \/ Rank
    PROVE  Typed'
<1>1. CASE Imported \/ Score \/ Scored \/ ReadBack \/ Unreadable
  BY <1>1 DEF Imported, Score, Scored, ReadBack, Unreadable, Typed
<1>2. CASE ScoreFails \/ ReadFails
  <2>1. todo # <<>>
    BY <1>2 DEF ScoreFails, ReadFails
  <2>2. Head(todo) \in Jobs
    BY <2>1, InHeadAndTail DEF Sequences
  <2>3. /\ Failure("score", 0, Head(todo)) \in Failures
        /\ Failure("read", 0, Head(todo)) \in Failures
    BY <2>2, FailureType, RequestNumbers
  <2>4. /\ labels' \in Seq(Failures) /\ faults' \in 0 .. MaxFaults
        /\ UNCHANGED <<sent, told>>
    BY <1>2, <2>3, FailTyped DEF ScoreFails, ReadFails
  <2>. QED  BY <1>2, <2>4 DEF ScoreFails, ReadFails, Typed
<1>3. CASE Rank
  <2>1. candidates \in Seq(Candidate)
    BY DEF AnnounceInv
  <2>2. HasScores(candidates)
    BY <2>1, CandidateScore DEF HasScores
  <2>3. shortlist' \in Seq(Candidate)
    BY <1>3, <2>1, <2>2, ShortlistOf DEF Rank
  <2>. QED  BY <1>3, <2>3 DEF Rank, Typed
<1>. QED  BY <1>1, <1>2, <1>3

LEMMA EndTyped ==
    ASSUME Typed, Notify \/ NotifyFails \/ Record \/ Dies \/ UNCHANGED vars
    PROVE  Typed'
<1>1. CASE Notify
  <2>1. shortlist # <<>> => shortlist[1].job \in Jobs
    <3>. SUFFICES ASSUME shortlist # <<>> PROVE shortlist[1] \in Candidate
      BY DEF Candidate
    <3>. QED  BY DEF Typed
  <2>2. config.notify \in BOOLEAN /\ labels \in Seq(Failures)
    BY PipelineConfigOK DEF Typed
  <2>3. /\ Len(labels) \in Nat
        /\ SubSeq(labels, 1, Shorter(MaxItems, Len(labels))) \in Seq(Failures)
    BY <2>2, InPrefix, PipelineConfigOK
  <2>4. Body \in Messages
    BY <2>1, <2>2, <2>3 DEF Body, Messages
  <2>. QED  BY <1>1, <2>4 DEF Notify, Typed
<1>2. CASE NotifyFails
  <2>1. Failure("notify", 0, NoJob) \in Failures
    BY FailureType, RequestNumbers
  <2>2. /\ labels' \in Seq(Failures) /\ faults' \in 0 .. MaxFaults
        /\ UNCHANGED <<sent, told>>
    BY <1>2, <2>1, FailTyped DEF NotifyFails
  <2>. QED  BY <1>2, <2>2 DEF NotifyFails, Typed
<1>3. CASE Record \/ Dies \/ UNCHANGED vars
  BY <1>3 DEF Record, Dies, vars, Typed
<1>. QED  BY <1>1, <1>2, <1>3

LEMMA TypedStep == AccountInv /\ AnnounceInv /\ Typed /\ [Next]_vars => Typed'
  BY BeginTyped, GateTyped, SearchTyped, ImportTyped, ScoringTyped, EndTyped
     DEF Next, AccountInv

\* Every variable of the pipeline keeps its type, for any requests, results, limits
\* and failures: among others no request is numbered beyond the last, a duplicate
\* always has a job, and messages name imported jobs and failures that can happen.
THEOREM TypeCorrect == Spec => []TypeOK
<1>1. AccountInv /\ AnnounceInv /\ Typed => TypeOK
  BY DEF AccountInv, Sequences, AnnounceInv, Typed, TypeOK
<1>. QED  BY <1>1, AccountInit, AccountStep, AnnounceInit, AnnounceStep,
             TypedInit, TypedStep, PTL DEF Spec

\* The types of the shortlist, for any answers, thresholds and number of candidates.
ShortlistTyped ==
    /\ RankInv
    /\ threshold \in Thresholds
    /\ notes \in Seq([job : 1 .. MaxCandidates, payload : Payloads])
    /\ selected \in Seq([job : 1 .. MaxCandidates, payload : Payloads])

LEMMA ShortlistTypedStep ==
    ShortlistTyped /\ [ShortlistNext]_ranking => ShortlistTyped'
<1>. SUFFICES ASSUME ShortlistTyped, [ShortlistNext]_ranking PROVE ShortlistTyped'
  OBVIOUS
<1>. DEFINE Read == [job : 1 .. MaxCandidates, payload : Payloads]
<1>1. RankInv'
  BY RankStep DEF ShortlistTyped
<1>2. CASE ReadNote
  <2>1. PICK r \in Answers : notes' = Append(notes, [job |-> Len(notes) + 1, payload |-> Note(r)])
    BY <1>2 DEF ReadNote
  <2>2. Note(r) \in Payloads
    BY NoteType, ShortlistConfigOK
  <2>3. Len(notes) + 1 \in 1 .. MaxCandidates
    BY <1>2, ShortlistConfigOK DEF ReadNote, ShortlistTyped
  <2>. DEFINE c == [job |-> Len(notes) + 1, payload |-> Note(r)]
  <2>4. c \in Read
    BY <2>2, <2>3
  <2>. HIDE DEF c
  <2>5. notes' \in Seq(Read)
    BY <2>1, <2>4 DEF ShortlistTyped, c
  <2>. QED  BY <1>1, <1>2, <2>5 DEF ReadNote, ShortlistTyped
<1>3. CASE RankNotes
  <2>1. notes \in Seq(Read)
    BY DEF ShortlistTyped
  <2>2. HasScores(notes)
    BY NotedScore DEF HasScores, ShortlistTyped, RankInv, Numbered
  <2>3. selected' \in Seq(Read)
    BY <1>3, <2>1, <2>2, ShortlistOf DEF RankNotes
  <2>. QED  BY <1>1, <1>3, <2>3 DEF RankNotes, ShortlistTyped
<1>4. CASE Done \/ UNCHANGED ranking
  BY <1>1, <1>4 DEF Done, ranking, ShortlistTyped
<1>. QED  BY <1>2, <1>3, <1>4 DEF ShortlistNext

\* The shortlist and the notes it is made from keep their types, and no more notes
\* are read than JOB_SEARCH_MAX_SCORE.
THEOREM ShortlistTypeCorrect == ShortlistSpec => []ShortlistTypeOK
<1>1. ShortlistInit => ShortlistTyped
  <2>. SUFFICES ASSUME ShortlistInit PROVE ShortlistTyped
    OBVIOUS
  <2>1. notes = <<>> /\ selected = <<>> /\ threshold \in Thresholds
    BY DEF ShortlistInit
  <2>. QED  BY <2>1, RankInit DEF ShortlistTyped
<1>2. ShortlistTyped => ShortlistTypeOK
  BY DEF ShortlistTyped, ShortlistTypeOK, RankInv
<1>. QED  BY <1>1, <1>2, ShortlistTypedStep, PTL DEF ShortlistSpec
=============================================================================
