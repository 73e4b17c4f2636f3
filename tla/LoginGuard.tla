----------------------------- MODULE LoginGuard ------------------------------
(***************************************************************************)
(* The brute-force guard of the login route for one identity (organization *)
(* and normalized e-mail): the failures inside the window and the time the *)
(* identity is locked until.  Its three methods are critical sections of   *)
(* their own; each reads the clock before it takes the lock, so every one  *)
(* of them works with a time that may already be in the past.  The login   *)
(* route that calls them is in module Access.                              *)
(***************************************************************************)
EXTENDS Naturals, FiniteSets

CONSTANTS
    MaxAttempts,    \* LOGIN_LOCKOUT_MAX_ATTEMPTS
    FailureWindow,  \* LOGIN_LOCKOUT_WINDOW_SECONDS
    Lockout,        \* LOGIN_LOCKOUT_DURATION_SECONDS
    LastTime        \* bound: the clock stops here

ASSUME MaxAttemptsAssumption == MaxAttempts \in Nat \ {0}
ASSUME FailureWindowAssumption == FailureWindow \in Nat \ {0}
ASSUME LockoutAssumption == Lockout \in Nat \ {0}
ASSUME LastTimeAssumption == LastTime \in Nat

VARIABLES
    time,        \* time.monotonic()
    failures,    \* self._failures[identity]: <<stamp, n>>, the n-th failure of that stamp
    lockedUntil  \* self._locked_until[identity], 0 when there is none

guardVars == <<time, failures, lockedUntil>>

GuardTypeOK ==
    /\ time \in 0..LastTime
    /\ failures \subseteq (0..LastTime) \X Nat
    /\ IsFiniteSet(failures)
    /\ lockedUntil \in 0..(LastTime + Lockout)

GuardInit ==
    /\ time = 0
    /\ failures = {}
    /\ lockedUntil = 0

Locked(now) == lockedUntil > now

\* check(): a lock that has elapsed goes together with the failures behind it.
ClearElapsedLock(now) ==
    /\ ~ Locked(now)
    /\ lockedUntil' = 0
    /\ failures' = IF lockedUntil = 0 THEN failures ELSE {}

\* The failures left after the window is applied, and this one.
WithFailure(now) ==
    {f \in failures : f[1] + FailureWindow > now}
        \cup {<<now, Cardinality({f \in failures : f[1] = now}) + 1>>}

RecordFailureLate(now) ==   \* variant of RecordFailure: locks one failure too late
    /\ failures' = WithFailure(now)
    /\ lockedUntil' = IF Cardinality(WithFailure(now)) > MaxAttempts
                      THEN now + Lockout ELSE lockedUntil

RecordFailureExtends(now) ==   \* variant of RecordFailure: adds to a lock that stands
    /\ failures' = WithFailure(now)
    /\ lockedUntil' = IF Cardinality(WithFailure(now)) >= MaxAttempts
                      THEN lockedUntil + now + Lockout ELSE lockedUntil

RecordFailure(now) ==
    /\ failures' = WithFailure(now)
    /\ lockedUntil' = IF Cardinality(WithFailure(now)) >= MaxAttempts
                      THEN now + Lockout ELSE lockedUntil

\* record_success() clears the history and the lock.
RecordSuccess ==
    /\ failures' = {}
    /\ lockedUntil' = 0

\* The guard lives in the memory of the process.
ForgetAll == RecordSuccess

PassTime ==
    /\ time < LastTime
    /\ time' = time + 1
    /\ UNCHANGED <<failures, lockedUntil>>

=============================================================================
