----------------------------- MODULE RateLimiter -----------------------------
(***************************************************************************)
(* The sliding-window limiter every router of the API depends on, for one  *)
(* identifier (the X-API-Key all requests of one BFF share).  A request    *)
(* reads the monotonic clock first and takes the lock afterwards, so       *)
(* requests may enter the critical section in another order than they      *)
(* read the clock, and a later reading has then already dropped hits that  *)
(* an earlier one would still count.                                       *)
(*                                                                         *)
(* A list of time stamps is a set of <<stamp, n>>: the n-th hit with that  *)
(* stamp.  Only the length of the list and the stamps matter.              *)
(***************************************************************************)
EXTENDS Naturals, FiniteSets

CONSTANTS
    Threads,      \* threads of the pool that serve requests
    MaxRequests,  \* RATE_LIMIT_MAX_REQUESTS
    Window,       \* RATE_LIMIT_WINDOW_SECONDS
    LastTick,     \* bound: the clock stops here
    NotReading    \* "no request in this thread"

ASSUME MaxRequestsAssumption == MaxRequests \in Nat
ASSUME WindowAssumption == Window \in Nat \ {0}
ASSUME LastTickAssumption == LastTick \in Nat
ASSUME ThreadsAssumption == IsFiniteSet(Threads) /\ Threads # {}
ASSUME NotReadingAssumption == NotReading \notin Nat

VARIABLES
    clock,    \* time.monotonic()
    hits,     \* self._hits[identifier]
    reading,  \* the clock value the request of a thread has read
    admitted  \* history: every hit ever admitted

limiterVars == <<clock, hits, reading, admitted>>

Hits == Nat \X Nat

LimiterTypeOK ==
    /\ clock \in Nat
    /\ admitted \subseteq Hits
    /\ hits \subseteq admitted
    /\ reading \in [Threads -> Nat \cup {NotReading}]

LimiterInit ==
    /\ clock = 0
    /\ hits = {}
    /\ reading = [t \in Threads |-> NotReading]
    /\ admitted = {}

WithStamp(set, stamp) == {h \in set : h[1] = stamp}

\* The hits a reading of the clock still counts: hit > now - window_seconds.
Live(set, now) == {h \in set : h[1] + Window > now}

\* now = self._time_func(), before the lock.
ReadClock(t) ==
    /\ reading[t] = NotReading
    /\ reading' = [reading EXCEPT ![t] = clock]
    /\ UNCHANGED <<clock, hits, admitted>>

Leave(t) == reading' = [reading EXCEPT ![t] = NotReading]

Refuse(t) ==
    LET live == Live(hits, reading[t])
    IN  /\ reading[t] # NotReading
        /\ Cardinality(live) >= MaxRequests
        /\ hits' = live
        /\ Leave(t)
        /\ UNCHANGED <<clock, admitted>>

AdmitOneMore(t) ==   \* variant of Admit: len(hits) > max_requests refuses
    LET now == reading[t]
        live == Live(hits, now)
        hit == <<now, Cardinality(WithStamp(admitted, now)) + 1>>
    IN  /\ now # NotReading
        /\ Cardinality(live) <= MaxRequests
        /\ hits' = live \cup {hit}
        /\ admitted' = admitted \cup {hit}
        /\ Leave(t)
        /\ UNCHANGED clock

Admit(t) ==
    LET now == reading[t]
        live == Live(hits, now)
        hit == <<now, Cardinality(WithStamp(admitted, now)) + 1>>
    IN  /\ now # NotReading
        /\ Cardinality(live) < MaxRequests
        /\ hits' = live \cup {hit}
        /\ admitted' = admitted \cup {hit}
        /\ Leave(t)
        /\ UNCHANGED clock

TickClock ==
    /\ clock < LastTick
    /\ clock' = clock + 1
    /\ UNCHANGED <<hits, reading, admitted>>

LimiterNext ==
    \/ \E t \in Threads : ReadClock(t) \/ Refuse(t) \/ Admit(t)
    \/ TickClock

LimiterSpec == LimiterInit /\ [][LimiterNext]_limiterVars

-----------------------------------------------------------------------------
(* Properties. *)

\* The hits admitted with a stamp in the window that ends at w.
InWindow(w) == {h \in admitted : h[1] <= w /\ h[1] + Window > w}

\* What RATE_LIMIT_MAX_REQUESTS bounds although the clock is read outside the
\* lock: no window of the configured length ever holds more than the maximum
\* plus one request for each other thread, those that had read the clock
\* before a later reading dropped the hits they should have counted.
AdmittedPerWindow ==
    \A w \in 0..clock :
        Cardinality(InWindow(w)) + 1 <= MaxRequests + Cardinality(Threads)

=============================================================================
