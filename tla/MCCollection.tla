---------------------------- MODULE MCCollection ----------------------------
(* Limits of one and two ticks, pages of two rows; README.md gives the bounds. *)
EXTENDS Collection

MCConfigured == <<"jobspy", "lever", "greenhouse", "adzuna">>
MCProfiles == <<0>>
MCPages ==
    {<<>>, <<"job", "job">>, <<"noise", "job">>, <<"idless", "job">>}
=============================================================================
