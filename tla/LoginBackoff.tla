---------------------------- MODULE LoginBackoff ----------------------------
(***************************************************************************)
(* The back-off of one address (api.ts, ipLock...): a counter of failed    *)
(* logins and a lock in Redis, and the logins that check and change them,  *)
(* one command at a time.                                                  *)
(***************************************************************************)
EXTENDS Naturals, Sequences

CONSTANTS
  Logins,   \* the logins under way from one address
  Delay,    \* loginBackoff.delay: seconds to wait after the nth failure
  MaxNum    \* bound: the failures that are counted

ASSUME BackoffAssumption ==
  /\ Delay \in Seq(Nat) /\ Len(Delay) > 0
  /\ MaxNum \in Nat

VARIABLES
  keep,        \* whether loginBackoff.keep is set
  num,         \* Redis: failures counted, 0 if there is no key
  numExpires,  \* whether the counter has an expiry
  lock,        \* Redis: "none", "set" without expiry, or "expiring"
  login,       \* the logins
  elapsed,     \* history: no lock a failure calls for has yet to run out
  crashed      \* whether the process has died

backoffVars == <<keep, num, numExpires, lock, login, elapsed, crashed>>

NoLogin == [at |-> "idle", wait |-> 0, first |-> FALSE]

BackoffInit ==
  /\ keep \in BOOLEAN
  /\ num = 0 /\ numExpires = FALSE /\ lock = "none"
  /\ login = [l \in Logins |-> NoLogin]
  /\ elapsed = TRUE /\ crashed = FALSE

\* ipLockAssert: a positive TTL refuses the login, and ipLockOnFail does not count it.
\* A key without expiry has the TTL -1.
AssertUnlocked(l) ==
  /\ login[l].at = "idle" /\ lock # "expiring" /\ num < MaxNum
  /\ login' = [login EXCEPT ![l].at = "checked"]
  /\ UNCHANGED <<keep, num, numExpires, lock, elapsed, crashed>>

\* The name and password, or the token, are good (see Sessions).
Passed(l) ==
  /\ login[l].at = "checked"
  /\ login' = [login EXCEPT ![l].at = "passed"]
  /\ UNCHANGED <<keep, num, numExpires, lock, elapsed, crashed>>

\* Mutant of OnSuccess: the second key is deleted.
OnSuccessUnlock(l) ==
  /\ login[l].at = "passed"
  /\ login' = [login EXCEPT ![l] = NoLogin]
  /\ lock' = IF keep THEN lock ELSE "none"
  /\ UNCHANGED <<keep, num, numExpires, elapsed, crashed>>

OnSuccess(l) ==
  /\ login[l].at = "passed"
  /\ login' = [login EXCEPT ![l] = NoLogin]
  /\ num' = IF keep THEN num ELSE 0
  /\ numExpires' = (keep /\ numExpires)
  /\ UNCHANGED <<keep, lock, elapsed, crashed>>

\* ipLockOnFail: INCR keeps an expiry the key has.
Count(l) ==
  /\ login[l].at = "checked"
  /\ num' = num + 1
  /\ LET i == IF num' < Len(Delay) THEN num' ELSE Len(Delay)
         w == Delay[i]
     IN /\ login' = [login EXCEPT ![l] =
             [at |-> IF w > 0 THEN "lock" ELSE "keep", wait |-> w, first |-> num' = 1]]
        /\ elapsed' = (elapsed /\ w = 0)
  /\ UNCHANGED <<keep, numExpires, lock, crashed>>

\* SET discards the expiry of a lock that is there.
SetLock(l) ==
  /\ login[l].at = "lock"
  /\ lock' = "set"
  /\ login' = [login EXCEPT ![l].at = "expire"]
  /\ UNCHANGED <<keep, num, numExpires, elapsed, crashed>>

ExpireLock(l) ==
  /\ login[l].at = "expire"
  /\ lock' = IF lock = "none" THEN "none" ELSE "expiring"
  /\ login' = [login EXCEPT ![l].at = "keep"]
  /\ UNCHANGED <<keep, num, numExpires, elapsed, crashed>>

\* The first failure starts the count-down of the counter.
KeepCounter(l) ==
  /\ login[l].at = "keep"
  /\ numExpires' = (numExpires \/ (keep /\ login[l].first /\ num > 0))
  /\ login' = [login EXCEPT ![l] = NoLogin]
  /\ UNCHANGED <<keep, num, lock, elapsed, crashed>>

LockElapses ==
  /\ lock = "expiring" /\ lock' = "none" /\ elapsed' = TRUE
  /\ UNCHANGED <<keep, num, numExpires, login, crashed>>

CounterElapses ==
  /\ numExpires /\ num' = 0 /\ numExpires' = FALSE
  /\ UNCHANGED <<keep, lock, login, elapsed, crashed>>

\* The process dies: what its logins had still to do is not done.
Die ==
  /\ ~crashed /\ crashed' = TRUE
  /\ login' = [l \in Logins |-> NoLogin]
  /\ UNCHANGED <<keep, num, numExpires, lock, elapsed>>

BackoffStep ==
  \/ \E l \in Logins :
       AssertUnlocked(l) \/ Passed(l) \/ OnSuccess(l) \/ Count(l) \/ SetLock(l) \/ ExpireLock(l) \/ KeepCounter(l)
  \/ LockElapses \/ CounterElapses \/ Die

BackoffSpec == BackoffInit /\ [][BackoffStep]_backoffVars

-----------------------------------------------------------------------------
\* A lock without expiry, which a login takes for none (its TTL is -1), is about to get
\* one; so is a counter that is to be kept for a time only: the failure that began it is
\* about to set it.  A crash may leave either (api.ts:271-279).
ExpiriesSet ==
  crashed \/
    /\ lock = "set" => \E l \in Logins : login[l].at = "expire"
    /\ keep /\ num > 0 /\ ~numExpires =>
         \E l \in Logins : login[l].first /\ login[l].at \in {"lock", "expire", "keep"}

\* Whatever logins from an address do at the same time: when they are over, a failure
\* that calls for a wait has blocked the address until the wait is over (api.ts:256-281).
FailuresBlock ==
  ~crashed /\ ~elapsed /\ (\A l \in Logins : login[l].at = "idle") => lock = "expiring"

\* A wait neither gets lost nor lasts for good (api.ts:256-281).
BackoffHolds == ExpiriesSet /\ FailuresBlock

=============================================================================
