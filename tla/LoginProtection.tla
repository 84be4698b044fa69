--------------------------- MODULE LoginProtection ---------------------------
(***************************************************************************)
(* The counters that guard the login (login-protection.service.ts,         *)
(* redis-throttler.storage.ts): requests per client, attempts per address, *)
(* failures per login name, and the lock.  Redis executes one command at a *)
(* time; INCR and the EXPIRE that bounds the window are two.  Values above *)
(* the limits are all alike.                                               *)
(***************************************************************************)
EXTENDS Naturals

CONSTANTS
    Attempts,       \* login requests in progress, of one person
    Limits          \* of each counter

Counters == {"hit", "ip", "fail"}

AttemptConstants == Limits \in [Counters -> Nat \ {0}]

VARIABLES
    counter,    \* the value of each key, 0 without one
    bounded,    \* whether the key has an expiry
    lock,       \* auth:lock, which always has one
    attempt,    \* the next command of each request
    cut         \* ghost: counters whose EXPIRE was lost

counterVars == <<counter, bounded, lock, attempt, cut>>

Places == {"none", "throttle", "throttle_expire", "ip", "ip_expire", "lock", "check",
           "fail", "fail_expire", "set_lock", "del_fail", "clear"}

Continue(r, p) == attempt' = [attempt EXCEPT ![r] = p]
Bumped(k) == IF counter[k] > Limits[k] THEN counter[k] ELSE counter[k] + 1

\* INCR keeps the expiry of a key.
Incr(k) == counter' = [counter EXCEPT ![k] = Bumped(k)]

\* EXPIRE does nothing to a key that is gone.
Expire(k) == bounded' = [bounded EXCEPT ![k] = @ \/ counter[k] > 0]

\* DEL, or the end of the window
Gone(ks) == /\ counter' = [k \in Counters |-> IF k \in ks THEN 0 ELSE counter[k]]
            /\ bounded' = [k \in Counters |-> bounded[k] /\ k \notin ks]
            /\ cut' = cut \ ks

-----------------------------------------------------------------------------
Try(r) ==
    /\ attempt[r] = "none"
    /\ Continue(r, "throttle")
    /\ UNCHANGED <<counter, bounded, lock, cut>>

\* Throttle, if only the first hit set the expiry.
ThrottleOnce(r) ==
    /\ attempt[r] = "throttle"
    /\ Incr("hit")
    /\ Continue(r, IF Bumped("hit") = 1 THEN "throttle_expire"
                   ELSE IF Bumped("hit") > Limits["hit"] THEN "none" ELSE "ip")
    /\ UNCHANGED <<bounded, lock, cut>>

\* increment: INCR and PTTL in one pipeline.  A key found without expiry gets
\* one, whoever created it.
Throttle(r) ==
    /\ attempt[r] = "throttle"
    /\ Incr("hit")
    /\ Continue(r, IF ~bounded["hit"] THEN "throttle_expire"
                   ELSE IF Bumped("hit") > Limits["hit"] THEN "none" ELSE "ip")
    /\ UNCHANGED <<bounded, lock, cut>>

ThrottleExpire(r) ==
    /\ attempt[r] = "throttle_expire"
    /\ Expire("hit")
    /\ cut' = cut \ {"hit"}
    /\ Continue(r, IF counter["hit"] > Limits["hit"] THEN "none" ELSE "ip")
    /\ UNCHANGED <<counter, lock>>

\* assertIpAllowed
CountAddress(r) ==
    /\ attempt[r] = "ip"
    /\ Incr("ip")
    /\ Continue(r, IF Bumped("ip") = 1 THEN "ip_expire"
                   ELSE IF Bumped("ip") > Limits["ip"] THEN "none" ELSE "lock")
    /\ UNCHANGED <<bounded, lock, cut>>

BoundAddress(r) ==
    /\ attempt[r] = "ip_expire"
    /\ Expire("ip")
    /\ Continue(r, "lock")
    /\ UNCHANGED <<counter, lock, cut>>

\* assertNotLocked
AskLock(r) ==
    /\ attempt[r] = "lock"
    /\ Continue(r, IF lock THEN "none" ELSE "check")
    /\ UNCHANGED <<counter, bounded, lock, cut>>

\* The credentials are right or wrong.
Check(r) ==
    /\ attempt[r] = "check"
    /\ \E p \in {"fail", "clear"} : Continue(r, p)
    /\ UNCHANGED <<counter, bounded, lock, cut>>

\* CountFailure, if the lock were looked at before the expiry.
CountFailureLockFirst(r) ==
    /\ attempt[r] = "fail"
    /\ Incr("fail")
    /\ Continue(r, IF Bumped("fail") >= Limits["fail"] THEN "set_lock" ELSE "none")
    /\ UNCHANGED <<bounded, lock, cut>>

\* recordFailure
CountFailure(r) ==
    /\ attempt[r] = "fail"
    /\ Incr("fail")
    /\ Continue(r, IF Bumped("fail") = 1 THEN "fail_expire"
                   ELSE IF Bumped("fail") >= Limits["fail"] THEN "set_lock" ELSE "none")
    /\ UNCHANGED <<bounded, lock, cut>>

BoundFailures(r) ==
    /\ attempt[r] = "fail_expire"
    /\ Expire("fail")
    /\ Continue(r, IF Limits["fail"] = 1 THEN "set_lock" ELSE "none")
    /\ UNCHANGED <<counter, lock, cut>>

SetLock(r) ==
    /\ attempt[r] = "set_lock"
    /\ lock' = TRUE
    /\ Continue(r, "del_fail")
    /\ UNCHANGED <<counter, bounded, cut>>

DropFailures(r) ==
    /\ attempt[r] = "del_fail"
    /\ Gone({"fail"})
    /\ Continue(r, "none")
    /\ UNCHANGED lock

\* clearFailures deletes both keys by one command.
ClearFailures(r) ==
    /\ attempt[r] = "clear"
    /\ Gone({"fail"})
    /\ lock' = FALSE
    /\ Continue(r, "none")

-----------------------------------------------------------------------------
Lost(p) == CASE p = "throttle_expire" -> {"hit"}
             [] p = "ip_expire" -> {"ip"}
             [] p = "fail_expire" -> {"fail"}
             [] OTHER -> {}

\* Redis does not answer: throttling lets the request pass, the address and the
\* lock refuse it, the rest is ignored.  Or the process dies.
Break(r) ==
    /\ attempt[r] # "none"
    /\ \E p \in {"none"} \cup (IF attempt[r] \in {"throttle", "throttle_expire"}
                               THEN {"ip"} ELSE {}) : Continue(r, p)
    /\ cut' = cut \cup Lost(attempt[r])
    /\ UNCHANGED <<counter, bounded, lock>>

WindowEnds(k) ==
    /\ counter[k] > 0 /\ bounded[k]
    /\ Gone({k})
    /\ UNCHANGED <<lock, attempt>>

LockEnds ==
    /\ lock
    /\ lock' = FALSE
    /\ UNCHANGED <<counter, bounded, attempt, cut>>

Serve(r) ==
    \/ Throttle(r) \/ ThrottleExpire(r) \/ CountAddress(r) \/ BoundAddress(r)
    \/ AskLock(r) \/ Check(r) \/ CountFailure(r) \/ BoundFailures(r)
    \/ SetLock(r) \/ DropFailures(r) \/ ClearFailures(r)

ProtectionInit ==
    /\ counter = [k \in Counters |-> 0]
    /\ bounded = [k \in Counters |-> FALSE]
    /\ lock = FALSE
    /\ attempt = [r \in Attempts |-> "none"]
    /\ cut = {}

ProtectionNext ==
    \/ \E r \in Attempts : Try(r) \/ Serve(r) \/ Break(r)
    \/ \E k \in Counters : WindowEnds(k)
    \/ LockEnds

\* People try again, windows end, and not every process dies before the same
\* command.
ProtectionFairness ==
    /\ WF_counterVars(\E r \in Attempts : Try(r) \/ Serve(r))
    /\ SF_counterVars(\E r \in Attempts : Throttle(r))
    /\ SF_counterVars(\E r \in Attempts : ThrottleExpire(r))
    /\ SF_counterVars(WindowEnds("hit"))

ProtectionSpec == ProtectionInit /\ [][ProtectionNext]_counterVars /\ ProtectionFairness

-----------------------------------------------------------------------------
ProtectionTypeOK ==
    /\ counter \in [Counters -> Nat] /\ bounded \in [Counters -> BOOLEAN]
    /\ lock \in BOOLEAN /\ attempt \in [Attempts -> Places] /\ cut \subseteq Counters
    /\ \A k \in Counters : counter[k] <= Limits[k] + 1

Bounding(k) == CASE k = "hit" -> "throttle_expire"
                 [] k = "ip" -> "ip_expire"
                 [] k = "fail" -> "fail_expire"

\* A counter without an expiry would refuse people for ever: however attempts
\* overlap with each other, with locks and with the end of windows, the request
\* that must set the expiry is still there, unless it was cut off
\* (login-protection.service.ts:65-68, 111-114).
CountersAreBounded ==
    \A k \in Counters : counter[k] > 0 /\ ~bounded[k] =>
        k \in cut \/ \E r \in Attempts : attempt[r] = Bounding(k)

\* Throttling ends even if a process died between INCR and PEXPIRE, because the
\* next hit makes up for it (redis-throttler.storage.ts:42-45).
ThrottlingEnds == counter["hit"] > 0 ~> counter["hit"] = 0
=============================================================================
