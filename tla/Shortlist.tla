------------------------------ MODULE Shortlist ------------------------------
(****************************************************************************)
(* The automation reads its scored jobs back, one after the other, and      *)
(* makes the shortlist of them (the middle of JobTrailAutomation.run), of   *)
(* which the first is announced.                                            *)
(****************************************************************************)
EXTENDS Scores

CONSTANTS
    Answers,        \* what providers answer for the jobs of a run
    Probes,         \* the answers single notes are checked with
    Thresholds,
    MaxCandidates   \* JOB_SEARCH_MAX_SCORE

ASSUME ShortlistConfigOK ==
    /\ Answers \subseteq Results
    /\ Probes \subseteq Results
    /\ Thresholds \subseteq Percent
    /\ MaxCandidates \in Nat

VARIABLES
    threshold,
    notes,      \* the candidates
    ranked,
    selected    \* the shortlist

ranking == <<threshold, notes, ranked, selected>>

ShortlistTypeOK ==
    /\ threshold \in Thresholds
    /\ notes \in Seq([job : 1 .. MaxCandidates, payload : Payloads])
    /\ ranked \in BOOLEAN
    /\ selected \in Seq([job : 1 .. MaxCandidates, payload : Payloads])

ShortlistInit ==
    /\ threshold \in Thresholds
    /\ notes = <<>>
    /\ ranked = FALSE
    /\ selected = <<>>

\* The next scored job has a readable note.
ReadNote ==
    /\ ~ranked
    /\ Len(notes) < MaxCandidates
    /\ \E r \in Answers :
          notes' = Append(notes, [job |-> Len(notes) + 1, payload |-> Note(r)])
    /\ UNCHANGED <<threshold, ranked, selected>>

\* All are read; those that cannot be are no candidates.
RankNotes ==
    /\ ~ranked
    /\ ranked' = TRUE
    /\ selected' = BuildShortlist(notes, threshold)
    /\ UNCHANGED <<threshold, notes>>

Done == ranked /\ UNCHANGED ranking

ShortlistNext == ReadNote \/ RankNotes \/ Done

ShortlistSpec == ShortlistInit /\ [][ShortlistNext]_ranking

-----------------------------------------------------------------------------
(* Properties.                                                              *)

\* The candidates that come before c: a higher score, or as high and found first.
Better(c) ==
    {d \in ToSet(notes) :
        /\ Eligible(d.payload, threshold)
        /\ \/ d.payload.score > c.payload.score
           \/ d.payload.score = c.payload.score /\ d.job < c.job}

\* A ranked shortlist has each eligible candidate at its place, up to three of
\* them, and nothing else (build_shortlist, notification of the best one).
BestFirst ==
    ranked =>
        \A c \in ToSet(notes) : \A k \in 1 .. ShortlistLength :
            (k \in DOMAIN selected /\ selected[k] = c) <=>
                Eligible(c.payload, threshold) /\ Cardinality(Better(c)) = k - 1

\* What ScoreResult concluded of an answer, the shortlist reads from its note: the
\* round trip through a note neither rescues nor loses a job.
Recommended(r, t) ==
    /\ r.score >= t
    /\ r.recommendation # "SKIP"
    /\ r.missing = "empty"
    /\ r.exclusions # "some"
    /\ Extended(r) => Classification(r) # "SKIP"

VerdictSurvivesNote ==
    \A r \in Probes : Eligible(Note(r), threshold) <=> Recommended(r, threshold)

\* The note p after one of its fields got lost.
Damaged(p) ==
    {[p EXCEPT !.recommendation = "absent"],
     [p EXCEPT !.fit = Absent], [p EXCEPT !.coverage = Absent],
     [p EXCEPT !.missing = "absent"], [p EXCEPT !.exclusions = "absent"],
     [p EXCEPT !.evidence = "absent"], [p EXCEPT !.classification = "absent"]}

\* "Pure, fail-closed recommendation eligibility" (shortlist.py:1): when an additive
\* note has lost a field, its job is selected only on a verdict that ScoreResult
\* reached.  One field is not closed: a note without its recommendation is judged by
\* all the rest, so that an explicit SKIP gets lost with it.  Notes from before the
\* additive fields are trusted as they are.
FailsClosed ==
    \A r \in {x \in Probes : Extended(x)} : \A p \in Damaged(Note(r)) :
        Eligible(p, threshold) =>
            IF p.recommendation = "absent"
            THEN Recommended([r EXCEPT !.recommendation = "APPLY"], threshold)
            ELSE Recommended(r, threshold)
=============================================================================
