----------------------------- MODULE RateLimit -----------------------------
(***************************************************************************)
(* The panel's request limiter: counters in limit_bucket rows, one of the  *)
(* session a request presents and one of its address, and the way a        *)
(* request passes them (web/rate_limit.py, Call in web/server.py).  Every  *)
(* statement is atomic; a request is a sequence of them.  Times are in     *)
(* units that need not be seconds.                                         *)
(***************************************************************************)
EXTENDS Integers, Functions

CONSTANTS
    Calls,          \* requests in flight at once
    Window, Hold, Retention,              \* window_seconds, hold_seconds, bucket_retention_seconds
    Ceiling,        \* max_requests_per_user and max_requests_per_address
    Threshold,      \* auth_failures_before_hold
    LastTime,       \* when the model's clock stops
    MaxRequests     \* bound on requests

ASSUME PeriodsAssumption == Window \in Nat /\ Hold \in Nat /\ Retention \in Nat

Buckets == {"session", "address"}
NoRow == [start |-> 0, count |-> 0, failures |-> 0, held |-> 0, expires |-> 0, there |-> FALSE]

VARIABLES
    row,        \* limit_bucket
    call,       \* each request: its step and whether it proved who it is
    now,
    requests

limitVars == <<row, call, now, requests>>

NotCalled == [pc |-> "idle", known |-> FALSE]

LimitInit ==
    /\ row = [b \in Buckets |-> NoRow]
    /\ call = [c \in Calls |-> NotCalled]
    /\ now = 1
    /\ requests = 0

TimePasses ==
    /\ now < LastTime
    /\ now' = now + 1
    /\ UNCHANGED <<row, call, requests>>

Latest(a, b) == IF a >= b THEN a ELSE b

\* _STALE: the window the row counts in is over.
Stale(r) == r.start <= now - Window

\* Faulty: a row expires with its window, also one on hold.
ExpiresWithWindow(r) == r.start + Window + Retention

\* _EXPIRES_AT reads window_start after it was set.
ExpiresAt(r) == Latest(r.start + Window, r.held) + Retention

\* _touch: the upsert that counts a request.
Touched(r) ==
    LET fresh == ~r.there \/ Stale(r)
        counted == [r EXCEPT !.there = TRUE,
                             !.start = IF fresh THEN now ELSE @,
                             !.count = IF fresh THEN 1 ELSE @ + 1,
                             !.failures = IF fresh THEN 0 ELSE @]
    IN [counted EXCEPT !.expires = ExpiresAt(counted)]

\* record_auth_failure: held_until is set from the old counters, and only then do they move.
Failed(r) ==
    LET fresh == ~r.there \/ Stale(r)
        failures == IF fresh THEN 1 ELSE r.failures + 1
        counted == [r EXCEPT !.there = TRUE,
                             !.start = IF fresh THEN now ELSE @,
                             !.failures = failures,
                             !.held = IF failures >= Threshold THEN now + Hold ELSE @]
    IN [counted EXCEPT !.expires = ExpiresAt(counted)]

OnHold(r) == r.there /\ r.held > now
Refused(r) == OnHold(r) \/ r.count > Ceiling

-----------------------------------------------------------------------------
(* A request *)

To(c, pc) == call' = [call EXCEPT ![c].pc = pc]

\* _limited: the bucket of the session it presents.
Limited(c) ==
    LET r == Touched(row["session"]) IN
    /\ call[c].pc = "idle" /\ requests < MaxRequests
    /\ requests' = requests + 1
    /\ row' = [row EXCEPT !["session"] = r]
    /\ IF Refused(r) THEN UNCHANGED call ELSE To(c, "prove")
    /\ UNCHANGED now

\* _prove_identity: the session is live, or not.
ProveIdentity(c) ==
    /\ call[c].pc = "prove"
    /\ \E known \in BOOLEAN :
         call' = [call EXCEPT ![c] = [pc |-> IF known THEN "handle" ELSE "stranger", known |-> known]]
    /\ UNCHANGED <<row, now, requests>>

\* _refused_as_a_stranger: who is known does not pay for its address.  A call of the proxy
\* asks only whether the address is on hold.
RefusedAsStranger(c) ==
    LET r == Touched(row["address"]) IN
    /\ call[c].pc = "stranger"
    /\ \/ /\ row' = [row EXCEPT !["address"] = r]
          /\ IF Refused(r) THEN call' = [call EXCEPT ![c] = NotCalled] ELSE To(c, "handle")
       \/ /\ IF OnHold(row["address"]) THEN call' = [call EXCEPT ![c] = NotCalled] ELSE To(c, "handle")
          /\ UNCHANGED row
    /\ UNCHANGED <<now, requests>>

\* The handler answers; a 401 or 403 to one who is not known counts in each bucket.
Answer(c) ==
    /\ call[c].pc = "handle"
    /\ \/ call[c].known /\ call' = [call EXCEPT ![c] = NotCalled]
       \/ ~call[c].known /\ To(c, "session")
       \/ ~call[c].known /\ call' = [call EXCEPT ![c] = NotCalled]
    /\ UNCHANGED <<row, now, requests>>

\* _failed_auth, one statement for each bucket.
RecordFailure(c) ==
    \E b \in Buckets :
      /\ call[c].pc = b
      /\ row' = [row EXCEPT ![b] = Failed(@)]
      /\ IF b = "session" THEN To(c, "address") ELSE call' = [call EXCEPT ![c] = NotCalled]
      /\ UNCHANGED <<now, requests>>

\* prune, by the periodic command.
PruneBuckets ==
    /\ \E b \in Buckets : row[b].there /\ row[b].expires <= now
    /\ row' = [b \in Buckets |-> IF row[b].there /\ row[b].expires <= now THEN NoRow ELSE row[b]]
    /\ UNCHANGED <<call, now, requests>>

LimitNext ==
    \/ \E c \in Calls : Limited(c) \/ ProveIdentity(c) \/ RefusedAsStranger(c) \/ Answer(c) \/ RecordFailure(c)
    \/ TimePasses \/ PruneBuckets

LimitSpec == LimitInit /\ [][LimitNext]_limitVars

-----------------------------------------------------------------------------
(* Properties *)

\* Only time ends a hold: no later request, failure, new window or prune shortens it.
HoldLasts ==
    [][\A b \in Buckets : OnHold(row[b]) => row'[b].there /\ row'[b].held >= row[b].held]_limitVars

=============================================================================
