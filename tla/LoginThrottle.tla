--------------------------- MODULE LoginThrottle ---------------------------
(***************************************************************************)
(* The limit on wrong passwords per login (admin/auth/login-throttle.ts):  *)
(* a sliding window of the times of the failures, kept in memory.  Logins  *)
(* are the normalized ones.  The operators are parts of the actions of     *)
(* AdminSessions, which verifies a password between Allowed and Fail.      *)
(***************************************************************************)
EXTENDS Integers, Sequences, FiniteSets

CONSTANTS Logins,       \* names typed into the login field
          MaxAttempts,  \* ADMIN_LOGIN_MAX_ATTEMPTS
          Window,       \* ADMIN_LOGIN_WINDOW_SEC, in ticks of the clock
          TicksPerSecond   \* the clock counts milliseconds: 1000

ASSUME ThrottleAssumption == /\ MaxAttempts \in Nat \ {0}
                             /\ Window \in Nat \ {0}
                             /\ TicksPerSecond \in Nat \ {0}

VARIABLES now,       \* the clock
          failures   \* login -> times of its failures, oldest first

----------------------------------------------------------------------------
(* splice(0, drop): the stamps are in ascending order. *)
Fresh(stamps, time) ==
    LET drop == Cardinality({i \in DOMAIN stamps : stamps[i] <= time - Window})
    IN  SubSeq(stamps, drop + 1, Len(stamps))

Pruned == [l \in Logins |-> Fresh(failures[l], now)]

(* Defect: one more attempt. *)
AllowedOnceMore(login) == Len(Pruned[login]) <= MaxAttempts

Allowed(login) == Len(Pruned[login]) < MaxAttempts

(* Defect: ticks until the oldest failure leaves the window, right only    *)
(* while no failure beyond the limit was counted.                          *)
LockedForOldest(login) == Pruned[login][1] + Window - now

(* Ticks until the window holds fewer than MaxAttempts of the failures it  *)
(* holds now.                                                              *)
LockedFor(login) ==
    LET stamps == Pruned[login]
    IN  stamps[Len(stamps) - MaxAttempts + 1] + Window - now

(* Defect: the seconds are rounded down.                                   *)
RetryAfterFloor(login) ==
    LET seconds == LockedFor(login) \div TicksPerSecond
    IN  IF seconds > 1 THEN seconds ELSE 1

(* The wait told to a locked login: whole seconds, rounded up, at least 1. *)
RetryAfter(login) ==
    LET seconds == (LockedFor(login) + TicksPerSecond - 1) \div TicksPerSecond
    IN  IF seconds > 1 THEN seconds ELSE 1

Check == failures' = Pruned

Fail(login) == failures' = [Pruned EXCEPT ![login] = Append(@, now)]

Reset(login) == failures' = [failures EXCEPT ![login] = <<>>]

Forget == failures' = [l \in Logins |-> <<>>]

----------------------------------------------------------------------------
(* The seconds of the 429 answer are right: a login that tries again after *)
(* them is let through, even when parallel attempts had gone over the      *)
(* limit; a whole second earlier it would not have been; and nobody waits  *)
(* longer than the window, rounded up to a second.                         *)
WaitIsEnough ==
    \A l \in Logins : ~Allowed(l) =>
        LET told == RetryAfter(l) * TicksPerSecond
        IN  /\ RetryAfter(l) \in Nat \ {0}
            /\ told < Window + TicksPerSecond
            /\ Len(Fresh(failures[l], now + told)) < MaxAttempts
            /\ Len(Fresh(failures[l], now + told - TicksPerSecond)) >= MaxAttempts
============================================================================
