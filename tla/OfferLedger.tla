----------------------------- MODULE OfferLedger -----------------------------
(****************************************************************************)
(* What SeenCache.transaction() promises its callers (seen_cache.py:75-95): *)
(* however many runs overlap, check/import/mark happens for one offer at a  *)
(* time, against one ledger of first-seen times.  An offer is admitted to   *)
(* the backend only when the ledger no longer holds it fresh, and only the  *)
(* admitted offer's entry ever changes.                                     *)
(****************************************************************************)
EXTENDS Integers

CONSTANTS Offers, Anonymous, HoursOld, MaxTime, NoOffer

VARIABLES ledger, admitted, clock

vars == <<ledger, admitted, clock>>

Absent == -1

Init ==
    /\ ledger = [o \in Offers |-> Absent]
    /\ admitted = NoOffer
    /\ clock = 0

\* The TTL window: an entry suppresses its offer for 2 * hours_old hours.
Expired(o, h) == ledger[o] = Absent \/ clock - ledger[o] >= 2 * h

\* An offer without identity is admitted every time.
Admit(o) ==
    /\ admitted = NoOffer
    /\ o \in Anonymous \/ \E h \in HoursOld : Expired(o, h)
    /\ admitted' = o
    /\ UNCHANGED <<ledger, clock>>

\* The import succeeded and was recorded.
Confirm ==
    /\ admitted \in Offers \ Anonymous
    /\ ledger' = [ledger EXCEPT ![admitted] = clock]
    /\ admitted' = NoOffer
    /\ UNCHANGED clock

\* The import failed, could not be recorded, or has nothing to record.
Abandon ==
    /\ admitted # NoOffer
    /\ admitted' = NoOffer
    /\ UNCHANGED <<ledger, clock>>

Tick ==
    /\ clock < MaxTime
    /\ clock' = clock + 1
    /\ UNCHANGED <<ledger, admitted>>

Next == (\E o \in Offers : Admit(o)) \/ Confirm \/ Abandon \/ Tick

Spec == Init /\ [][Next]_vars
=============================================================================
