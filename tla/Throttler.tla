------------------------------ MODULE Throttler ------------------------------
(***************************************************************************)
(* The Throttler of pkg/api/throttle.go, shared by every request: an       *)
(* upstream that answered that it is rate limited is left alone for a      *)
(* while, longer each time in a row.  Each method holds the mutex, so each *)
(* is one step; an entry that is absent from one of the maps is 0.         *)
(***************************************************************************)
EXTENDS NodeLists

CONSTANTS
    Base,         \* first backoff (30 s in the code)
    MaxBackoff    \* longest backoff (10 min)

ASSUME ThrottlerAssumption == /\ Base \in Nat \ {0}
                              /\ MaxBackoff \in Nat
                              /\ Base <= MaxBackoff

VARIABLES
    now,        \* the clock
    until,      \* end of each upstream's window
    backoffs    \* 429 answers in a row

ThrottlerTypeOK ==
    /\ now \in Nat
    /\ until \in [Urls -> Nat]
    /\ backoffs \in [Urls -> Nat]

NewThrottler ==
    /\ until = [url \in Urls |-> 0]
    /\ backoffs = [url \in Urls |-> 0]

IsThrottled(url) == now < until[url]

\* The loop of Mark429: the backoff doubles once for each 429 after the
\* first, until it meets MaxBackoff.
Doubled[n \in Nat] ==
    IF n <= 1 THEN Base
    ELSE LET twice == 2 * Doubled[n - 1]
         IN  IF twice < MaxBackoff THEN twice ELSE MaxBackoff

\* Mutant of Backoff: halved instead of doubled.
BackoffHalved(n) == Base \div 2^(n - 1)

\* The n-th backoff in a row.
Backoff(n) == Doubled[n]

Mark429(url) ==
    /\ backoffs' = [backoffs EXCEPT ![url] = @ + 1]
    /\ until' = [until EXCEPT ![url] = now + Backoff(backoffs[url] + 1)]

\* Mutant of Reset: the window is removed, the count stays.
ResetUntil(url) ==
    /\ until' = [until EXCEPT ![url] = 0]
    /\ UNCHANGED backoffs

Reset(url) ==
    /\ until' = [until EXCEPT ![url] = 0]
    /\ backoffs' = [backoffs EXCEPT ![url] = 0]

\* Whatever requests do concurrently, no upstream is left alone for longer
\* than MaxBackoff from now on, and one with a window is one with a count.
BackoffBounded ==
    \A url \in Urls : /\ until[url] <= now + MaxBackoff
                      /\ until[url] = 0 <=> backoffs[url] = 0

\* One more 429 answer never shortens a window, however many requests mark
\* the upstream at once.
WindowGrows ==
    [][\A url \in Urls : backoffs'[url] > backoffs[url] => until'[url] >= until[url]]_<<until, backoffs>>

=============================================================================
