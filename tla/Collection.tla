----------------------------- MODULE Collection -----------------------------
(****************************************************************************)
(* The first half of JobTrailAutomation.run with a preflight runner: the    *)
(* probes decide whether any source is asked, and the probes that are still *)
(* unanswered go on during the searches, up to the end of the process,      *)
(* which joins their threads.                                               *)
(****************************************************************************)
EXTENDS Preflight, Sources

VARIABLE exited   \* the process has ended

collection == <<preflight, sources, exited>>

CollectionInit ==
    /\ PreflightInit
    /\ SourcesInit
    /\ exited = FALSE

\* The threads of the pool run on, whatever the launcher does.
PoolRuns ==
    /\ Threads
    /\ UNCHANGED <<sources, exited>>

Checking ==
    /\ RunPreflight
    /\ UNCHANGED <<sources, exited>>

Collecting ==
    /\ verdict = "pass"
    /\ Search
    /\ UNCHANGED <<preflight, exited>>

\* The interpreter waits for the threads of the pool before it ends.
Exit ==
    /\ ~exited
    /\ verdict = "abort" \/ (verdict = "pass" /\ search > Len(Searches))
    /\ \A c \in Names : Answered(c)
    /\ exited' = TRUE
    /\ UNCHANGED <<preflight, sources>>

Ended ==
    /\ exited
    /\ UNCHANGED collection

CollectionNext == PoolRuns \/ Checking \/ Collecting \/ Exit \/ Ended

\* The launcher runs on, and every probe has a time limit of its own, in httpx
\* or subprocess, so that its thread comes to an end.
CollectionSpec ==
    /\ CollectionInit
    /\ [][CollectionNext]_collection
    /\ WF_collection(Checking \/ Collecting \/ Exit)
    /\ \A i \in DOMAIN Checks : WF_collection(StartProbe(i) /\ UNCHANGED <<sources, exited>>)
    /\ \A c \in Names : WF_collection(ProbeEnds(c) /\ UNCHANGED <<sources, exited>>)

CollectionTypeOK ==
    /\ PreflightTypeOK
    /\ SourcesTypeOK
    /\ exited \in BOOLEAN

-----------------------------------------------------------------------------
\* A run whose preflight asks for the abort asks no source, and a run that goes
\* ahead asks every source, whichever of them fails.
AllOrNoneAsked ==
    \A s \in DOMAIN Searches : (result[s] = "none") <=> (verdict = "abort")

\* Every run ends, with probes that hang and sources that only fail, and it has
\* asked all its sources or none.
EveryRunEnds == <>(exited /\ AllOrNoneAsked)
=============================================================================
