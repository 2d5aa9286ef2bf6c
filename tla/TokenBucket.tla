----------------------------- MODULE TokenBucket -----------------------------
(***************************************************************************)
(* throttle.py: the token bucket that SECClient asks before each request.  *)
(* Time passes in ticks, one tick refills one unit, and a request costs    *)
(* Cost units: with the rate and the capacity of client.py, a token, a     *)
(* tenth of a second and ten tokens are Cost, Cost and 10 * Cost.  The     *)
(* clock moves between any two calls, and sleep may return late.           *)
(***************************************************************************)
EXTENDS Integers, Sequences

CONSTANTS
  Cost,      (* units that a request takes, n in acquire                   *)
  Capacity,  (* units that the bucket holds                                *)
  MaxTime,   (* bound: ticks of the clock                                  *)
  MaxSends   (* bound: requests                                            *)

ASSUME BucketAssumption ==
  {Cost, Capacity, MaxTime, MaxSends} \subseteq Nat /\ Cost <= Capacity

VARIABLES
  tokens, last,  (* _tokens and _last                                      *)
  now,           (* the monotonic clock                                    *)
  wake,          (* when the sleep is over, -1 = not inside a sleep        *)
  sends          (* history: when acquire returned, request by request     *)

bucket == <<tokens, last, now, wake, sends>>

(* _refill.  Mutant: it forgets the capacity.                              *)
RefilledOver(t) == t + (now - last)
Refilled(t) == IF t + (now - last) > Capacity THEN Capacity ELSE t + (now - last)

Tick ==
  /\ now < MaxTime
  /\ now' = now + 1
  /\ UNCHANGED <<tokens, last, wake, sends>>

(* acquire finds enough tokens.                                            *)
Acquire ==
  /\ wake = -1 /\ Len(sends) < MaxSends
  /\ Refilled(tokens) >= Cost
  /\ tokens' = Refilled(tokens) - Cost
  /\ last' = now
  /\ sends' = Append(sends, now)
  /\ UNCHANGED <<now, wake>>

(* acquire does not, and sleeps for the deficit.                           *)
Sleep ==
  /\ wake = -1 /\ Len(sends) < MaxSends
  /\ Refilled(tokens) < Cost
  /\ tokens' = Refilled(tokens)
  /\ last' = now
  /\ wake' = now + (Cost - Refilled(tokens))
  /\ UNCHANGED <<now, sends>>

(* The sleep is over; the tokens are taken without another look.           *)
Awake ==
  /\ wake >= 0 /\ now >= wake
  /\ tokens' = Refilled(tokens) - Cost
  /\ last' = now
  /\ wake' = -1
  /\ sends' = Append(sends, now)
  /\ UNCHANGED now

BucketInit ==
  /\ tokens = Capacity /\ last = 0 /\ now = 0 /\ wake = -1 /\ sends = <<>>

BucketNext == Tick \/ Acquire \/ Sleep \/ Awake

BucketSpec == BucketInit /\ [][BucketNext]_bucket

-----------------------------------------------------------------------------
BucketTyped ==
  /\ tokens \in 0..Capacity
  /\ last \in Nat /\ now \in Nat /\ wake \in Nat \cup {-1}
  /\ sends \in Seq(Nat)

(* Between any two requests, however the calls and the sleeps fall, the bucket
   lets through what it holds and what the time between them refills: over any
   window, not only since the start.                                         *)
RateHolds ==
  \A i, j \in DOMAIN sends :
    i <= j => (j - i + 1) * Cost <= Capacity + (sends[j] - sends[i])

=============================================================================
