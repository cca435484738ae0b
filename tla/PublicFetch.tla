----------------------------- MODULE PublicFetch -----------------------------
(****************************************************************************)
(* public_http.PublicFetcher: one fetcher fetches public pages one after    *)
(* the other, with budgets that all its fetches and redirects share, and    *)
(* bounded_resolve, whose lookup threads cannot be cancelled and share the  *)
(* DNS slots of the process.                                                *)
(*                                                                          *)
(* Sizes are in blocks of bytes.  A lookup that is not the one the fetcher  *)
(* waits for, abandoned or of another fetcher, is only counted.             *)
(****************************************************************************)
EXTENDS Integers, SequencesExt

CONSTANTS
    Urls,         \* the URLs that pass _safe_url
    Numeric,      \* those that name a public address
    DNSSlots,
    MaxResponse,  \* MAX_RESPONSE_BYTES
    MaxTotal,     \* MAX_TOTAL_BYTES
    MaxAttempts,
    MaxRedirects,
    Lengths       \* content lengths a response may declare

ASSUME FetchConfigOK ==
    /\ Numeric \subseteq Urls
    /\ DNSSlots \in Nat
    /\ MaxResponse \in Nat
    /\ MaxTotal \in Nat
    /\ MaxAttempts \in Nat
    /\ MaxRedirects \in Nat
    /\ Lengths \subseteq Nat

VARIABLES
    \* The fetcher.
    expired,   \* its deadline has passed
    attempts,
    bytes,
    \* The current fetch, or the last one.
    pc,
    status,
    current,   \* its URL, after redirects
    seen,
    hop,
    answer,    \* of the lookup
    \* The current response.
    used,      \* its wire bytes
    body,
    framing,
    declared,
    kind,
    \* The process.
    slots,     \* free DNS slots
    lookup,    \* the lookup that is waited for
    others,    \* other lookups that hold a slot
    \* History, read by the properties only.
    asked,     \* URLs connected for in this fetch
    lookedUp   \* the URL of the last lookup

fetch == <<status, current, seen, hop, answer, asked, lookedUp>>
response == <<used, body, framing, declared, kind>>
dns == <<slots, lookup, others>>
vars == <<expired, attempts, bytes, pc, fetch, response, dns>>

-----------------------------------------------------------------------------

TypeOK ==
    /\ expired \in BOOLEAN
    /\ attempts \in 0 .. MaxAttempts
    /\ bytes \in 0 .. MaxTotal
    /\ pc \in {"idle", "hop", "waiting", "resolved", "connecting", "headers", "body", "whole"}
    /\ status \in {"none", "ok", "blocked", "failed", "timed_out", "budget_exhausted",
                   "unsupported", "raised"}
    /\ current \in Urls
    /\ seen \subseteq Urls
    /\ hop \in 0 .. MaxRedirects
    /\ answer \in {"none", "public", "unsafe", "error"}
    /\ used \in 0 .. MaxResponse
    /\ body \in 0 .. MaxResponse
    /\ framing \in {"length", "chunked", "close"}
    /\ declared \in Lengths \cup {0}
    /\ kind \in {"page", "redirect", "other"}
    /\ slots \in 0 .. DNSSlots
    /\ lookup \in {"none", "running", "released", "done"}
    /\ others \in 0 .. DNSSlots
    /\ asked \in Seq(Urls)
    /\ lookedUp \in Urls

Init ==
    /\ expired = FALSE
    /\ attempts = 0
    /\ bytes = 0
    /\ pc = "idle"
    /\ status = "none"
    /\ current \in Urls
    /\ seen = {}
    /\ hop = 0
    /\ answer = "none"
    /\ used = 0
    /\ body = 0
    /\ framing = "close"
    /\ declared = 0
    /\ kind = "other"
    /\ slots = DNSSlots
    /\ lookup = "none"
    /\ others = 0
    /\ asked = <<>>
    /\ lookedUp = current

Goto(place) == pc' = place

Return(outcome) ==
    /\ Goto("idle")
    /\ status' = outcome
    /\ UNCHANGED <<current, seen, hop, asked>>

-----------------------------------------------------------------------------
(* The start of a fetch and of each hop.                                    *)

Fetch ==
    /\ pc = "idle"
    /\ current' \in Urls
    /\ status' = "none"
    /\ seen' = {}
    /\ hop' = 0
    /\ asked' = <<>>
    /\ Goto("hop")
    /\ UNCHANGED <<expired, attempts, bytes, answer, lookedUp, response, dns>>

UnsafeUrl ==
    /\ pc = "idle"
    /\ Return("blocked")
    /\ UNCHANGED <<expired, attempts, bytes, answer, lookedUp, response, dns>>

\* _remaining() raises.
OutOfTime ==
    /\ expired
    /\ pc \in {"hop", "resolved", "connecting", "headers", "body"}
    /\ Return("timed_out")
    /\ UNCHANGED <<expired, attempts, bytes, answer, lookedUp, response, dns>>

Spent == attempts >= MaxAttempts \/ bytes >= MaxTotal

OutOfBudget ==
    /\ pc = "hop"
    /\ ~expired
    /\ Spent
    /\ Return("budget_exhausted")
    /\ UNCHANGED <<expired, attempts, bytes, answer, lookedUp, response, dns>>

RedirectLoop ==
    /\ pc = "hop"
    /\ ~expired
    /\ ~Spent
    /\ current \in seen
    /\ Return("blocked")
    /\ UNCHANGED <<expired, attempts, bytes, answer, lookedUp, response, dns>>

\* The address of the current URL is needed.
Enter ==
    /\ pc = "hop"
    /\ ~expired
    /\ ~Spent
    /\ current \notin seen
    /\ seen' = seen \cup {current}
    /\ UNCHANGED <<expired, attempts, bytes, current, hop, asked, response>>

NumericHost ==
    /\ Enter
    /\ current \in Numeric
    /\ answer' = "public"
    /\ lookedUp' = current
    /\ Goto("resolved")
    /\ UNCHANGED <<status, dns>>

-----------------------------------------------------------------------------
(* bounded_resolve.                                                         *)

LookUp ==
    /\ Enter
    /\ current \notin Numeric
    /\ slots > 0
    /\ slots' = slots - 1
    /\ lookup' = "running"
    /\ lookedUp' = current
    /\ answer' = "none"
    /\ Goto("waiting")
    /\ UNCHANGED <<status, others>>

DNSBusy ==
    /\ Enter
    /\ current \notin Numeric
    /\ slots = 0
    /\ Goto("idle")
    /\ status' = "failed"
    /\ UNCHANGED <<answer, lookedUp, dns>>

\* Deviation: only a lookup gives its slot back.
ThreadFailsWithSlot ==
    /\ Enter
    /\ current \notin Numeric
    /\ slots > 0
    /\ slots' = slots - 1
    /\ Goto("idle")
    /\ status' = "raised"
    /\ UNCHANGED <<answer, lookedUp, lookup, others>>

\* No thread can be started; RuntimeError leaves fetch().
ThreadFails ==
    /\ Enter
    /\ current \notin Numeric
    /\ slots > 0
    /\ Goto("idle")
    /\ status' = "raised"
    /\ UNCHANGED <<answer, lookedUp, dns>>

\* The thread has its answer and gives the slot back, before it tells.
LookupEnds ==
    /\ lookup = "running"
    /\ answer' \in {"public", "unsafe", "error"}
    /\ slots' = slots + 1
    /\ lookup' = "released"
    /\ UNCHANGED <<expired, attempts, bytes, pc, status, current, seen, hop, asked, lookedUp,
                   response, others>>

LookupTells ==
    /\ lookup = "released"
    /\ lookup' = "done"
    /\ UNCHANGED <<expired, attempts, bytes, pc, fetch, response, slots, others>>

Resolved ==
    /\ pc = "waiting"
    /\ lookup = "done"
    /\ lookup' = "none"
    /\ \/ /\ answer = "error"
          /\ Return("failed")
       \/ /\ answer # "error"
          /\ Goto("resolved")
          /\ UNCHANGED <<status, current, seen, hop, asked>>
    /\ UNCHANGED <<expired, attempts, bytes, answer, lookedUp, response, slots, others>>

\* Deviation: the fetcher waits for the answer, however long it takes.
WaitForAnswer ==
    /\ pc = "waiting"
    /\ lookup = "released"
    /\ lookup' = "none"
    /\ Return("timed_out")
    /\ UNCHANGED <<expired, attempts, bytes, answer, lookedUp, response, slots, others>>

\* The thread goes on and keeps its slot.
WaitTimesOut ==
    /\ pc = "waiting"
    /\ lookup \in {"running", "released"}
    /\ lookup' = "none"
    /\ others' = IF lookup = "running" THEN others + 1 ELSE others
    /\ Return("timed_out")
    /\ UNCHANGED <<expired, attempts, bytes, answer, lookedUp, response, slots>>

\* One of the answers is not a public address, or there is none.
UnsafeAnswer ==
    /\ pc = "resolved"
    /\ ~expired
    /\ answer = "unsafe"
    /\ Return("blocked")
    /\ UNCHANGED <<expired, attempts, bytes, answer, lookedUp, response, dns>>

-----------------------------------------------------------------------------
(* The connection and its response.                                         *)

Connect ==
    /\ pc = "resolved"
    /\ ~expired
    /\ answer = "public"
    /\ attempts' = attempts + 1
    /\ asked' = Append(asked, current)
    /\ used' = 0
    /\ body' = 0
    /\ Goto("connecting")
    /\ UNCHANGED <<expired, bytes, status, current, seen, hop, answer, lookedUp,
                   framing, declared, kind, dns>>

Connected ==
    /\ pc = "connecting"
    /\ ~expired
    /\ Goto("headers")
    /\ UNCHANGED <<expired, attempts, bytes, fetch, response, dns>>

\* TCP, TLS or HTTP fails, or a socket times out.
NetworkFails ==
    /\ pc \in {"connecting", "headers", "body"}
    /\ \E outcome \in {"failed", "timed_out"} : Return(outcome)
    /\ UNCHANGED <<expired, attempts, bytes, answer, lookedUp, response, dns>>

Min2(m, n) == IF m < n THEN m ELSE n

\* _ByteBudget.allowance for a large read.
Allowance == Min2(MaxResponse - used, MaxTotal - bytes)

Receive(n) ==
    /\ n <= Allowance
    /\ used' = used + n
    /\ bytes' = bytes + n

\* A read is needed, but not allowed.
OutOfBytes ==
    /\ \/ pc = "headers"
       \/ pc = "body" /\ (framing = "length" => body < declared)
    /\ ~expired
    /\ Allowance <= 0
    /\ Return("budget_exhausted")
    /\ UNCHANGED <<expired, attempts, bytes, answer, lookedUp, response, dns>>

\* The headers are a block.
Headers ==
    /\ pc = "headers"
    /\ ~expired
    /\ Receive(1)
    /\ framing' \in {"length", "chunked", "close"}
    /\ declared' \in IF framing' = "length" THEN Lengths ELSE {0}
    /\ kind' \in {"page", "redirect", "other"}
    /\ Goto("body")
    /\ UNCHANGED <<expired, attempts, fetch, body, dns>>

BadHeaders ==
    /\ pc = "headers"
    /\ ~expired
    /\ Receive(1)
    /\ \E outcome \in {"failed", "unsupported"} : Return(outcome)
    /\ UNCHANGED <<expired, attempts, answer, lookedUp, body, framing, declared, kind, dns>>

Body ==
    /\ pc = "body"
    /\ ~expired
    /\ \E n \in 1 .. MaxResponse :
          /\ framing = "length" => body + n <= declared
          /\ Receive(n)
          /\ body' = body + n
    /\ UNCHANGED <<expired, attempts, pc, fetch, framing, declared, kind, dns>>

LastChunk ==
    /\ pc = "body"
    /\ ~expired
    /\ framing = "chunked"
    /\ Receive(1)
    /\ Goto("whole")
    /\ UNCHANGED <<expired, attempts, fetch, body, framing, declared, kind, dns>>

DeclaredLength ==
    /\ pc = "body"
    /\ ~expired
    /\ framing = "length"
    /\ body = declared
    /\ Goto("whole")
    /\ UNCHANGED <<expired, attempts, bytes, fetch, response, dns>>

\* Deviation: what has come is the page.
ClosedIsWhole ==
    /\ pc = "body"
    /\ ~expired
    /\ framing = "length" => body < declared
    /\ Allowance > 0
    /\ Goto("whole")
    /\ UNCHANGED <<status, current, seen, hop, asked>>
    /\ UNCHANGED <<expired, attempts, bytes, answer, lookedUp, response, dns>>

\* The peer closes: the end of the page, or a truncated one.
Closed ==
    /\ pc = "body"
    /\ ~expired
    /\ framing = "length" => body < declared
    /\ Allowance > 0
    /\ \/ /\ framing = "close"
          /\ Goto("whole")
          /\ UNCHANGED <<status, current, seen, hop, asked>>
       \/ /\ framing # "close"
          /\ Return("failed")
    /\ UNCHANGED <<expired, attempts, bytes, answer, lookedUp, response, dns>>

Page ==
    /\ pc = "whole"
    /\ kind = "page"
    /\ Return("ok")
    /\ UNCHANGED <<expired, attempts, bytes, answer, lookedUp, response, dns>>

\* Another status, media type or charset.
NoPage ==
    /\ pc = "whole"
    /\ kind = "other"
    /\ \E outcome \in {"failed", "unsupported"} : Return(outcome)
    /\ UNCHANGED <<expired, attempts, bytes, answer, lookedUp, response, dns>>

\* Deviation: a redirect goes to the address the last URL had.
RedirectPinned ==
    /\ pc = "whole"
    /\ kind = "redirect"
    /\ hop < MaxRedirects
    /\ current' \in Urls
    /\ hop' = hop + 1
    /\ Goto("resolved")
    /\ UNCHANGED <<expired, attempts, bytes, status, seen, asked, answer, lookedUp, response, dns>>

Redirect ==
    /\ pc = "whole"
    /\ kind = "redirect"
    /\ hop < MaxRedirects
    /\ current' \in Urls
    /\ hop' = hop + 1
    /\ Goto("hop")
    /\ UNCHANGED <<expired, attempts, bytes, status, seen, asked, answer, lookedUp, response, dns>>

\* One hop too many, an unsafe location or none.
RedirectRefused ==
    /\ pc = "whole"
    /\ kind = "redirect"
    /\ \E outcome \in {"blocked", "failed"} : Return(outcome)
    /\ UNCHANGED <<expired, attempts, bytes, answer, lookedUp, response, dns>>

-----------------------------------------------------------------------------
(* Time, and the other lookups of the process.                              *)

Expire ==
    /\ ~expired
    /\ expired' = TRUE
    /\ UNCHANGED <<attempts, bytes, pc, fetch, response, dns>>

OtherStarts ==
    /\ slots > 0
    /\ slots' = slots - 1
    /\ others' = others + 1
    /\ UNCHANGED <<expired, attempts, bytes, pc, fetch, response, lookup>>

OtherEnds ==
    /\ others > 0
    /\ slots' = slots + 1
    /\ others' = others - 1
    /\ UNCHANGED <<expired, attempts, bytes, pc, fetch, response, lookup>>

-----------------------------------------------------------------------------

\* What a fetch does by itself once it is called.
Step ==
    \/ OutOfTime \/ OutOfBudget \/ RedirectLoop \/ NumericHost
    \/ LookUp \/ DNSBusy \/ ThreadFails \/ Resolved \/ WaitTimesOut \/ UnsafeAnswer
    \/ Connect \/ Connected \/ NetworkFails
    \/ Headers \/ BadHeaders \/ Body \/ LastChunk \/ DeclaredLength \/ Closed \/ OutOfBytes
    \/ Page \/ NoPage \/ Redirect \/ RedirectRefused

Next ==
    \/ Fetch \/ UnsafeUrl \/ Step
    \/ LookupEnds \/ LookupTells
    \/ Expire \/ OtherStarts \/ OtherEnds

Spec == Init /\ [][Next]_vars /\ WF_vars(Step)

-----------------------------------------------------------------------------
(* Properties.                                                              *)

\* Each slot is free, or held by one lookup that still runs: none is leaked and
\* none released twice, whoever waits, gives up or never gets a thread.
SlotsExact ==
    slots + others + (IF lookup = "running" THEN 1 ELSE 0) = DNSSlots

\* A page is complete, or it is none ("truncated_response").
CompleteOrNothing ==
    status = "ok" /\ framing = "length" => body = declared

\* Every connection, also the one of a redirect, goes to a public address that was
\* looked up for that very URL; no fetch asks for a URL twice, or follows more than
\* MaxRedirects redirects.
EachHopAnew ==
    /\ pc = "connecting" => answer = "public" /\ lookedUp = current
    /\ IsInjective(asked)
    /\ Len(asked) <= MaxRedirects + 1

\* Every fetch returns, even if its lookups never do and its peers trickle.
FetchEnds == pc # "idle" ~> pc = "idle"
=============================================================================
