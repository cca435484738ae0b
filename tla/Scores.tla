-------------------------------- MODULE Scores --------------------------------
(****************************************************************************)
(* What happens to one score between the provider and the shortlist:        *)
(* models.ScoreResult validates and completes it, scoring._serialize_note   *)
(* writes it, scoring.eligible_score judges what was read, and              *)
(* shortlist.build_shortlist ranks the candidates.                          *)
(*                                                                          *)
(* A list is represented by whether it is there and empty.  Results are     *)
(* those that pass the field checks of ScoreResult; others store nothing.   *)
(****************************************************************************)
EXTENDS Integers, SequencesExt, Ordering

Absent == -1

Percent == 0 .. 100
Classes == {"APPLY", "REVIEW", "EXPLORE", "SKIP"}
Lists == {"absent", "empty", "some"}

\* A provider's answer: only the additive fields may be absent.
Results ==
    [score : Percent,
     recommendation : {"PRIORITY_APPLY", "APPLY", "REVIEW", "SKIP"},
     missing : {"empty", "some"},
     fit : Percent \cup {Absent},
     coverage : Percent \cup {Absent},
     evidence : Lists,
     exclusions : Lists,
     extra : BOOLEAN]  \* a classification, which is not used, or a field that is null

\* The payload of a note; only the score is never absent (parse_score_note).
Payloads ==
    [score : Percent,
     recommendation : {"PRIORITY_APPLY", "APPLY", "REVIEW", "SKIP", "absent"},
     missing : Lists,
     fit : Percent \cup {Absent},
     coverage : Percent \cup {Absent},
     evidence : Lists,
     exclusions : Lists,
     classification : Classes \cup {"absent"}]

FIT_APPLY_THRESHOLD == 70
COVERAGE_APPLY_THRESHOLD == 70
FIT_REVIEW_THRESHOLD == 50
COVERAGE_REVIEW_THRESHOLD == 50

\* classify_score without signals against the job.
Class(fit, coverage) ==
    IF fit >= FIT_APPLY_THRESHOLD /\ coverage >= COVERAGE_APPLY_THRESHOLD THEN "APPLY"
    ELSE IF \/ fit >= FIT_REVIEW_THRESHOLD /\ coverage >= COVERAGE_REVIEW_THRESHOLD
            \/ fit >= FIT_APPLY_THRESHOLD
         THEN "REVIEW"
    ELSE IF coverage >= COVERAGE_REVIEW_THRESHOLD THEN "EXPLORE"
    ELSE "SKIP"

Or(value, default) == IF value = Absent THEN default ELSE value

\* ScoreResult: both scores default to the legacy one, and the classification
\* is derived.
Classification(r) ==
    IF r.exclusions = "some" \/ r.missing = "some" THEN "SKIP"
    ELSE Class(Or(r.fit, r.score), Or(r.coverage, r.score))

\* Whether the answer has any additive field.
Extended(r) ==
    \/ r.fit # Absent
    \/ r.coverage # Absent
    \/ r.evidence # "absent"
    \/ r.exclusions # "absent"
    \/ r.extra

\* Deviation: absent additive fields stay absent.
NoteAsGiven(r) ==
    [score |-> r.score,
     recommendation |-> r.recommendation,
     missing |-> r.missing,
     fit |-> r.fit,
     coverage |-> r.coverage,
     evidence |-> r.evidence,
     exclusions |-> r.exclusions,
     classification |-> IF r.extra THEN Classification(r) ELSE "absent"]

\* _serialize_note: all additive fields, or none.
Note(r) ==
    LET all == Extended(r)
        list(value) == IF ~all THEN "absent" ELSE IF value = "some" THEN "some" ELSE "empty"
    IN  [score |-> r.score,
         recommendation |-> r.recommendation,
         missing |-> r.missing,
         fit |-> IF all THEN Or(r.fit, r.score) ELSE Absent,
         coverage |-> IF all THEN Or(r.coverage, r.score) ELSE Absent,
         evidence |-> list(r.evidence),
         exclusions |-> list(r.exclusions),
         classification |-> IF all THEN Classification(r) ELSE "absent"]

Additive(p) ==
    \/ p.fit # Absent
    \/ p.coverage # Absent
    \/ p.classification # "absent"
    \/ p.evidence # "absent"
    \/ p.exclusions # "absent"

\* Deviation: an absent list is an empty one.
EligibleIfUnknown(p, threshold) ==
    /\ p.score >= threshold
    /\ p.recommendation # "SKIP"
    /\ p.classification # "SKIP"
    /\ p.missing # "some"
    /\ p.exclusions # "some"

\* Lists that hold nothing against the job; an absent one is trusted only in a
\* note from before the additive fields.
Clear(p) == IF Additive(p) THEN {"empty"} ELSE {"empty", "absent"}

\* eligible_score; a recommendation is tested only where there is one.
Eligible(p, threshold) ==
    /\ p.score >= threshold
    /\ p.recommendation # "SKIP"
    /\ p.classification # "SKIP"
    /\ p.missing \in Clear(p)
    /\ p.exclusions \in Clear(p)
    /\ Additive(p) =>
          /\ p.fit \in Percent
          /\ p.coverage \in Percent
          /\ Class(p.fit, p.coverage) # "SKIP"

-----------------------------------------------------------------------------

ShortlistLength == 3

Shorter(m, n) == IF m < n THEN m ELSE n

EligibleAt(candidates, threshold) ==
    {i \in DOMAIN candidates : Eligible(candidates[i].payload, threshold)}

\* The sort by descending score is stable.
Ahead(candidates) ==
    {pair \in (1 .. Len(candidates)) \X (1 .. Len(candidates)) :
        LET score(i) == candidates[i].payload.score
        IN  \/ score(pair[1]) > score(pair[2])
            \/ score(pair[1]) = score(pair[2]) /\ pair[1] < pair[2]}

\* Deviation: cut before the candidates are ranked.
FirstEligible(candidates, threshold) ==
    LET eligible == EligibleAt(candidates, threshold)
    IN  [k \in 1 .. Shorter(Cardinality(eligible), ShortlistLength) |->
            candidates[Ascending(eligible)[k]]]

\* build_shortlist: filter, sort and cut.
BuildShortlist(candidates, threshold) ==
    LET eligible == EligibleAt(candidates, threshold)
        order == InOrder(eligible, Ahead(candidates))
    IN  [k \in 1 .. Shorter(Cardinality(eligible), ShortlistLength) |-> candidates[order[k]]]
=============================================================================
