----------------------------- MODULE RateLimiter -----------------------------
(***************************************************************************)
(* httpx.IPRateLimiter, the token bucket in front of the public attendance *)
(* form.  Middleware reads the clock and then calls allow, which takes the *)
(* lock: of several requests of one IP the one that read the clock first   *)
(* need not get the lock first, so allow sees times that go backwards.     *)
(*                                                                         *)
(* Time passes in ticks.  The code counts tokens in fractions, Burst of    *)
(* them per Window; here a token is cut into Window parts, so that Burst   *)
(* parts come back per tick and every quantity is an integer.  Rounding of *)
(* float64 is left out.                                                    *)
(***************************************************************************)
EXTENDS Integers

CONSTANTS
    IP,        \* the keys of the bucket map
    Call,      \* requests that can be in the middleware at a time
    Burst,     \* requests a full bucket admits
    Window,    \* ticks in which an empty bucket fills up
    MaxClock,  \* the last tick of a behaviour
    None       \* no request in the middleware

ASSUME LimitsPositive == Burst \in Nat \ {0} /\ Window \in Nat \ {0}
ASSUME ClockBound == MaxClock \in Nat
ASSUME NoneIsNoCall == None \notin [ip : IP, now : Nat]

VARIABLES
    clock,     \* time.Now()
    call,      \* per request, the key and the time passed to allow
    buckets,   \* the IPs that have a bucket
    tokens,    \* parts of tokens in the bucket; below 0 after a late call
    last,      \* the time the bucket was last brought up to date
    from, to,  \* an interval of arrival times, chosen at the start
    admitted,  \* history: requests admitted that arrived in from .. to
    newest     \* history: the latest arrival the bucket has seen

limiter == <<buckets, tokens, last>>
vars == <<clock, call, limiter, from, to, admitted, newest>>

Init ==
    /\ clock = 0
    /\ call = [c \in Call |-> None]
    /\ buckets = {}
    /\ tokens = [i \in IP |-> 0]
    /\ last = [i \in IP |-> 0]
    /\ from \in 0 .. MaxClock /\ to \in from .. MaxClock
    /\ admitted = [i \in IP |-> 0]
    /\ newest = [i \in IP |-> 0]

AtMost(n, bound) == IF n > bound THEN bound ELSE n

(***************************************************************************)
(* Mistakes in allow that the runs must notice.                            *)
(***************************************************************************)
\* Tokens come back without the cap at burst.
RefilledUncapped(ip, now) ==
    IF ip \in buckets THEN tokens[ip] + Burst * (now - last[ip])
                      ELSE Burst * Window

\* A negative elapsed time is taken for 0, but last is still set back to now.
RefilledForwardOnly(ip, now) ==
    IF ip \in buckets /\ now < last[ip] THEN tokens[ip]
    ELSE IF ip \in buckets
       THEN AtMost(tokens[ip] + Burst * (now - last[ip]), Burst * Window)
       ELSE Burst * Window

\* Only whole windows are refilled, as a fixed-window counter would.
RefilledByWindow(ip, now) ==
    IF ip \in buckets
       THEN IF now - last[ip] >= Window THEN Burst * Window ELSE tokens[ip]
       ELSE Burst * Window

\* The parts in the bucket of ip at time now: a new bucket is full, another
\* one has been refilled, or drained if now lies before its last update.
Refilled(ip, now) ==
    IF ip \in buckets
       THEN AtMost(tokens[ip] + Burst * (now - last[ip]), Burst * Window)
       ELSE Burst * Window

-----------------------------------------------------------------------------
Tick ==
    /\ clock < MaxClock
    /\ clock' = clock + 1
    /\ UNCHANGED <<call, limiter, from, to, admitted, newest>>

\* Middleware: a request of ip reads the clock.
Arrive(c, ip) ==
    /\ call[c] = None
    /\ call' = [call EXCEPT ![c] = [ip |-> ip, now |-> clock]]
    /\ UNCHANGED <<clock, limiter, from, to, admitted, newest>>

\* allow, under the lock: bring the bucket up to date and take a token.
Allow(c) ==
    LET ip  == call[c].ip
        now == call[c].now
        ok  == Refilled(ip, now) >= Window
    IN  /\ call[c] # None
        /\ buckets' = buckets \cup {ip}
        /\ tokens' = [tokens EXCEPT ![ip] =
                         Refilled(ip, now) - (IF ok THEN Window ELSE 0)]
        /\ last' = [last EXCEPT ![ip] = now]
        /\ call' = [call EXCEPT ![c] = None]
        /\ admitted' = IF ok /\ now \in from .. to
                          THEN [admitted EXCEPT ![ip] = @ + 1] ELSE admitted
        /\ newest' = IF now > newest[ip]
                        THEN [newest EXCEPT ![ip] = now] ELSE newest
        /\ UNCHANGED <<clock, from, to>>

Next ==
    \/ Tick
    \/ \E c \in Call, ip \in IP : Arrive(c, ip)
    \/ \E c \in Call : Allow(c)

Spec == Init /\ [][Next]_vars

-----------------------------------------------------------------------------
(***************************************************************************)
(* Correctness.                                                            *)
(***************************************************************************)
\* A bucket never holds more than Burst tokens and never runs ahead of time.
TypeOK ==
    /\ clock \in 0 .. MaxClock
    /\ call \in [Call -> [ip : IP, now : 0 .. clock] \cup {None}]
    /\ buckets \subseteq IP
    /\ tokens \in [IP -> Int]
    /\ \A i \in IP : tokens[i] <= Burst * Window
    /\ last \in [IP -> 0 .. clock]
    /\ from \in 0 .. MaxClock /\ to \in from .. MaxClock
    /\ admitted \in [IP -> Nat]
    /\ newest \in [IP -> 0 .. clock]

\* Of the requests of one IP that arrive in any interval, at most a full
\* bucket and what is refilled during the interval is admitted, even when
\* allow handles them out of order.  This is the limit the middleware gives
\* the public form; it is Burst requests for a single tick and up to
\* 2 * Burst for a whole Window.
IntervalLimit ==
    \A i \in IP :
        admitted[i] * Window <= Burst * Window + Burst * (to - from)

\* A request is admitted if its IP has been quiet long enough for one token
\* to come back, counted from the newest request handled before it.  Late
\* calls, which drain the bucket below zero, never lock a visitor out.
AdmitStep ==
    \A c \in Call :
        LET ip == call[c].ip
        IN  /\ call[c] # None /\ call'[c] = None
            /\ Burst * (call[c].now - newest[ip]) >= Window
            => tokens'[ip] = Refilled(ip, call[c].now) - Window
QuietIsAdmitted == [][AdmitStep]_vars
=============================================================================
