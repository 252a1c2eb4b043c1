---------------------------- MODULE RateLimiter ----------------------------
(***************************************************************************)
(* The per-key sliding window (gateway/ratelimit.py): a deque of the       *)
(* instants at which the key's recent requests were allowed. The clock is  *)
(* discrete; several requests may come at the same instant. A limit of 0,  *)
(* which switches the limiter off, is not modelled.                        *)
(***************************************************************************)
EXTENDS Integers, Sequences

CONSTANTS
    Keys,       \* the ids of API keys
    PerMinute,  \* rate_limit_per_minute
    Window      \* the 60 seconds of the window

ASSUME LimiterAssumption == PerMinute \in Nat \ {0} /\ Window \in Nat

VARIABLES
    now,     \* time.monotonic()
    hits,    \* the deque of each key
    grants,  \* history: every instant at which this process allowed a request
    refused  \* history: the instant of the key's last refused request

limiter == <<now, hits, grants, refused>>

LimiterInit ==
    /\ now = 0
    /\ hits = [k \in Keys |-> <<>>]
    /\ grants = [k \in Keys |-> <<>>]
    /\ refused = [k \in Keys |-> -1]

\* Faulty variant: a hit exactly as old as the window is dropped.
TooOldOrEqual(t) == t <= now - Window

TooOld(t) == t < now - Window

\* What may be left of the deque when its old hits are popped from the left.
Rests(k) ==
    {SubSeq(hits[k], n + 1, Len(hits[k])) : n \in
        {m \in 0 .. Len(hits[k]) :
            /\ \A i \in 1 .. m : TooOld(hits[k][i])
            /\ m < Len(hits[k]) => ~TooOld(hits[k][m + 1])}}

Allow(k) ==
    \E rest \in Rests(k) :
        /\ Len(rest) < PerMinute
        /\ hits' = [hits EXCEPT ![k] = Append(rest, now)]
        /\ grants' = [grants EXCEPT ![k] = Append(@, now)]
        /\ UNCHANGED <<now, refused>>

\* Faulty variant: the refused request is recorded as a hit as well.
RefuseRecording(k) ==
    \E rest \in Rests(k) :
        /\ Len(rest) >= PerMinute
        /\ hits' = [hits EXCEPT ![k] = Append(rest, now)]
        /\ refused' = [refused EXCEPT ![k] = now]
        /\ UNCHANGED <<now, grants>>

Refuse(k) ==
    \E rest \in Rests(k) :
        /\ Len(rest) >= PerMinute
        /\ hits' = [hits EXCEPT ![k] = rest]
        /\ refused' = [refused EXCEPT ![k] = now]
        /\ UNCHANGED <<now, grants>>

Tick ==
    /\ now' = now + 1
    /\ UNCHANGED <<hits, grants, refused>>

\* The deques live in the process.
Forget ==
    /\ hits' = [k \in Keys |-> <<>>]
    /\ grants' = [k \in Keys |-> <<>>]
    /\ refused' = [k \in Keys |-> -1]
    /\ UNCHANGED now
-----------------------------------------------------------------------------
LimiterTypeOK ==
    /\ now \in Nat
    /\ hits \in [Keys -> Seq(Nat)]
    /\ grants \in [Keys -> Seq(Nat)]
    /\ refused \in [Keys -> Nat \cup {-1}]

\* No window of 60 seconds, its two ends included, holds more than PerMinute
\* allowed requests of a key: the one PerMinute later came more than 60 s later.
WindowBound ==
    \A k \in Keys : \A i \in 1 .. Len(grants[k]) - PerMinute :
        grants[k][i + PerMinute] > grants[k][i] + Window

\* A request is refused only when the 60 seconds before it hold PerMinute
\* allowed ones: refused requests and those of other keys take no one's place.
RefusedOnlyWhenFull ==
    \A k \in Keys : refused[k] # -1 =>
        \E i \in 1 .. Len(grants[k]) - PerMinute + 1 :
            /\ grants[k][i] >= refused[k] - Window
            /\ grants[k][i + PerMinute - 1] <= refused[k]
=============================================================================
