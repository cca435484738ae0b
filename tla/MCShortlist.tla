----------------------------- MODULE MCShortlist -----------------------------
(* Answers at the boundaries of every comparison; README.md says which. *)
EXTENDS Shortlist

Answer(score, recommendation, fit) ==
    [score |-> score, recommendation |-> recommendation, missing |-> "empty",
     fit |-> fit, coverage |-> fit, evidence |-> "absent", exclusions |-> "absent",
     extra |-> FALSE]

MCAnswers ==
    {Answer(79, "APPLY", Absent), Answer(80, "APPLY", Absent), Answer(90, "APPLY", 60),
     Answer(95, "APPLY", 49), Answer(100, "REVIEW", 70)}

Edges == {49, 50, 70}

MCProbes ==
    [score : {49, 80}, recommendation : {"APPLY", "SKIP"},
     missing : {"empty", "some"}, fit : Edges \cup {Absent},
     coverage : Edges \cup {Absent}, evidence : {"absent"},
     exclusions : Lists, extra : BOOLEAN]
=============================================================================
