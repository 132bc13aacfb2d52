------------------------------- MODULE Quota -------------------------------
(***************************************************************************)
(* The download quota of one user (common/quota.ts): a sorted set in Redis *)
(* with one member per debit, which expires as a whole one period after    *)
(* the first.  Quota.assert reads the set, compares, and only then adds    *)
(* to it, so downloads of the same user interleave between the two.        *)
(*                                                                         *)
(* A request downloads one file (FileStorage.get) or the files of a        *)
(* release in an archive (ReleaseStorage.download).  The user's plan is    *)
(* limited and does not change; files are neither the user's nor public.   *)
(***************************************************************************)
EXTENDS Integers, FiniteSetsExt

CONSTANTS
  Files,
  Cost,        \* credits per file, zero for a free one
  Credits,     \* of the user's plan, per period
  Period,      \* in ticks of the clock, as are all times
  Downloads,
  MaxClock,    \* bound: the last tick
  Never

ASSUME QuotaAssumption ==
  /\ IsFiniteSet(Files)
  /\ Cost \in [Files -> Nat]
  /\ Credits \in Nat
  /\ Period \in Nat \ {0}
  /\ MaxClock \in Nat
  /\ Never \notin Int

VARIABLES
  now,      \* the clock, in milliseconds
  debits,   \* the members of the sorted set: when and how much
  ttl,      \* when the sorted set expires, or Never
  req,      \* the requests
  grants,   \* history: the debits of this period, one per request
  timeless  \* history: a request died before it set the expiry

vars == <<now, debits, ttl, req, grants, timeless>>

-----------------------------------------------------------------------------
TotalCost(files) == MapThenSumSet(LAMBDA f : Cost[f], files)

Spent(members) == MapThenSumSet(LAMBDA m : m.w, members)

Remaining(members) == IF Spent(members) < Credits THEN Credits - Spent(members) ELSE 0

Request(at, cost) ==
  [at |-> at, cost |-> cost, left |-> 0, stamp |-> 0, stale |-> FALSE]

Init ==
  /\ now = 0
  /\ debits = {}
  /\ ttl = Never
  /\ req = [r \in Downloads |-> Request("idle", 0)]
  /\ grants = {}
  /\ timeless = FALSE

\* Redis drops the set with all its members when its time has come.
Tick ==
  /\ now < MaxClock
  /\ now' = now + 1
  /\ IF ttl = now'
       THEN debits' = {} /\ ttl' = Never /\ grants' = {}
       ELSE UNCHANGED <<debits, ttl, grants>>
  /\ UNCHANGED <<req, timeless>>

\* Free files are served without a look at the quota.
Ask(r, files) ==
  /\ req[r].at = "idle" /\ files # {}
  /\ req' = [req EXCEPT ![r] =
       Request(IF TotalCost(files) = 0 THEN "serving" ELSE "reading", TotalCost(files))]
  /\ UNCHANGED <<now, debits, ttl, grants, timeless>>

\* get: all members, whatever their age.
Read(r) ==
  /\ req[r].at = "reading"
  /\ req' = [req EXCEPT ![r].at = "deciding", ![r].left = Remaining(debits)]
  /\ UNCHANGED <<now, debits, ttl, grants, timeless>>

\* Mutant of Decide: any credit left will do.
DecideSome(r) ==
  /\ req[r].at = "deciding"
  /\ req' = [req EXCEPT ![r] = IF req[r].left = 0
                               THEN Request("refused", 0)
                               ELSE [@ EXCEPT !.at = "adding", !.stamp = now]]
  /\ UNCHANGED <<now, debits, ttl, grants, timeless>>

\* assert, once get has answered, and consume up to its call of Redis.
Decide(r) ==
  /\ req[r].at = "deciding"
  /\ req' = [req EXCEPT ![r] = IF req[r].left < req[r].cost
                               THEN Request("refused", 0)
                               ELSE [@ EXCEPT !.at = "adding", !.stamp = now]]
  /\ UNCHANGED <<now, debits, ttl, grants, timeless>>

\* What Add(r) does, the decision about the expiry left open.
Debit(r, isFirst) ==
  LET debit == [t |-> req[r].stamp, w |-> req[r].cost] IN
  /\ req[r].at = "adding"
  /\ debits' = debits \cup {debit}
  /\ grants' = grants \cup {[by |-> r, w |-> debit.w,
                             excused |-> req[r].stale \/ debit \in debits]}
  /\ req' = [q \in Downloads |->
       IF q = r
       THEN Request(IF isFirst THEN "expiring" ELSE "serving", 0)
       ELSE [req[q] EXCEPT !.stale = @ \/ req[q].at \in {"deciding", "adding"}]]
  /\ UNCHANGED <<now, ttl, timeless>>

\* Mutant of Add: the request that found a full quota sets the expiry.
AddByRead(r) == Debit(r, req[r].left = Credits)

\* consume: zadd and zrange in one MULTI.  A member is the JSON of the stamp and
\* the weight: two debits of the same weight in a millisecond are one member.
\* The others that have read the set by now decide on a stale sum.
Add(r) ==
  Debit(r, debits \cup {[t |-> req[r].stamp, w |-> req[r].cost]}
             = {[t |-> req[r].stamp, w |-> req[r].cost]})

\* pexpire
Expire(r) ==
  /\ req[r].at = "expiring"
  /\ req' = [req EXCEPT ![r].at = "serving"]
  /\ ttl' = IF debits = {} THEN ttl ELSE now + Period
  /\ UNCHANGED <<now, debits, grants, timeless>>

\* The counters and the stream.
Serve(r) ==
  /\ req[r].at = "serving"
  /\ req' = [req EXCEPT ![r] = Request("served", 0)]
  /\ UNCHANGED <<now, debits, ttl, grants, timeless>>

\* The process dies, Redis answers with an error, or the stream breaks: nothing
\* gives a debit back.
Fail(r) ==
  /\ req[r].at \in {"reading", "deciding", "adding", "expiring", "serving"}
  /\ timeless' = (timeless \/ req[r].at = "expiring")
  /\ req' = [req EXCEPT ![r] = Request("failed", 0)]
  /\ UNCHANGED <<now, debits, ttl, grants>>

Next ==
  \/ Tick
  \/ \E r \in Downloads :
       \/ \E files \in SUBSET Files : Ask(r, files)
       \/ Read(r) \/ Decide(r) \/ Add(r) \/ Expire(r) \/ Serve(r) \/ Fail(r)

Spec == Init /\ [][Next]_vars

-----------------------------------------------------------------------------
\* The downloads of a period cost more than the plan's credits only by those that
\* raced: debited after another had been, since they read the set, or merged with
\* another in the same millisecond (quota.ts:130-136 against 286-289).
OverspentOnlyByRaces ==
  MapThenSumSet(LAMBDA g : g.w, {g \in grants : ~g.excused}) <= Credits

\* A period ends: there is a time to it, which is not more than a period away
\* (settings.dist.js:260), or the request that began it is about to set it, or
\* failed to (then nothing will: later requests find two members or more).
PeriodEnds ==
  /\ debits # {} /\ ttl = Never => timeless \/ \E r \in Downloads : req[r].at = "expiring"
  /\ ttl # Never => ttl > now /\ ttl <= now + Period

=============================================================================
