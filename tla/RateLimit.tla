----------------------------- MODULE RateLimit ------------------------------
(***************************************************************************)
(* The fixed window rate limit (core/rate_limit.py) for one key and one    *)
(* address: a Redis counter whose expiry is set by the request that        *)
(* created it.  The limiter lets a request pass when Redis fails.          *)
(***************************************************************************)
EXTENDS Requests, Naturals, FiniteSets

CONSTANTS
    Limit,
    MaxHits,      \* bound: requests counted in one window
    MaxFailures   \* bound: commands Redis fails in one window

ASSUME RateAssumption == Limit \in Nat

VARIABLES
    hits,      \* the counter, 0 when the key is absent
    expires,   \* has the key an expiry?
    passed,    \* requests let through since the key was created
    failed,    \* those of them let through because Redis failed
    faults     \* has a key been left whose creator will not set its expiry?

rateVars == <<request, hits, expires, passed, failed, faults>>

RateInit ==
    /\ request = AllIdle
    /\ hits = 0 /\ expires = FALSE /\ passed = 0 /\ failed = 0 /\ faults = FALSE

(* INCR, which answers the new count.                                      *)
Hit(h) ==
    /\ Free(h) /\ hits < MaxHits
    /\ hits' = hits + 1
    /\ Goto(h, [op |-> "hit", count |-> hits + 1])
    /\ UNCHANGED <<expires, passed, failed, faults>>

(* Mistake: the count is compared with the one before INCR.                *)
StartsWindowLate(count) == count = 0

(* The request that created the key gives it its expiry.                   *)
StartsWindow(count) == count = 1

SetExpiry(h) ==
    /\ Doing(h, "hit") /\ StartsWindow(request[h].count)
    /\ expires' = (hits > 0)
    /\ Goto(h, [op |-> "counted", count |-> request[h].count])
    /\ UNCHANGED <<hits, passed, failed, faults>>

Ready(h) == Doing(h, "counted") \/ (Doing(h, "hit") /\ ~StartsWindow(request[h].count))

(* Mistake: off by one, the limit is passed before it binds.               *)
DecideAboveLimit(h) ==
    /\ Ready(h)
    /\ passed' = IF request[h].count > Limit + 1 THEN passed ELSE passed + 1
    /\ Finish(h)
    /\ UNCHANGED <<hits, expires, failed, faults>>

(* Over the limit the answer is 429.                                       *)
Decide(h) ==
    /\ Ready(h)
    /\ passed' = IF request[h].count > Limit THEN passed ELSE passed + 1
    /\ Finish(h)
    /\ UNCHANGED <<hits, expires, failed, faults>>

(* The limiter fails open: a request whose INCR raises is let through,     *)
(* whether Redis has counted it or not.                                    *)
IncrFails(h) ==
    /\ Free(h) /\ failed < MaxFailures
    /\ \/ UNCHANGED <<hits, faults>>
       \/ /\ hits < MaxHits
          /\ hits' = hits + 1
          /\ faults' = (faults \/ hits = 0)
    /\ passed' = passed + 1 /\ failed' = failed + 1
    /\ UNCHANGED <<request, expires>>

(* So is one whose EXPIRE raises.                                          *)
ExpireFails(h) ==
    /\ Doing(h, "hit") /\ StartsWindow(request[h].count) /\ failed < MaxFailures
    /\ \/ faults' = TRUE /\ UNCHANGED expires
       \/ expires' = (hits > 0) /\ UNCHANGED faults
    /\ passed' = passed + 1 /\ failed' = failed + 1
    /\ Finish(h)
    /\ UNCHANGED hits

(* The process of the API dies, and its requests with it.                  *)
Restart ==
    /\ request' = AllIdle
    /\ faults' = (faults \/ \E h \in Handlers : Doing(h, "hit") /\ StartsWindow(request[h].count))
    /\ UNCHANGED <<hits, expires, passed, failed>>

WindowEnds ==
    /\ expires
    /\ hits' = 0 /\ expires' = FALSE /\ passed' = 0 /\ failed' = 0
    /\ UNCHANGED <<request, faults>>

RateNext ==
    \/ WindowEnds
    \/ Restart
    \/ \E h \in Handlers :
        Hit(h) \/ SetExpiry(h) \/ Decide(h) \/ IncrFails(h) \/ ExpireFails(h)

RateSpec == RateInit /\ [][RateNext]_rateVars

(* Redis expires its keys, and a handler that runs reaches EXPIRE.         *)
RateFairness ==
    /\ WF_rateVars(WindowEnds)
    /\ \A h \in Handlers : WF_rateVars(SetExpiry(h))

-----------------------------------------------------------------------------
(* Blocking ends: an address over the limit is let in again when its       *)
(* window closes, unless a failing EXPIRE, a lost answer of the INCR that   *)
(* created the key or a crash between the two left a key without expiry.   *)
BlockLifted == (hits > Limit) ~> (hits = 0 \/ faults)

(* Unless that happened, a counter without an expiry is one whose creator  *)
(* is about to give it one.                                                *)
KeyExpires ==
    hits > 0 /\ ~expires /\ ~faults =>
        \E h \in Handlers : Doing(h, "hit") /\ StartsWindow(request[h].count)

(* A window lets through what the limit allows, those for which Redis       *)
(* failed, and at most the requests that were counted in the window before *)
(* and were still in flight.                                               *)
PassedBounded == passed <= Limit + Cardinality(Handlers) + failed
=============================================================================
