---------------------------- MODULE PlatformProofs ----------------------------
(***************************************************************************)
(* The small components that several people use at once: the counters of   *)
(* the login, sessions, grading and the thread.  As in PagesProofs each    *)
(* keeps its own variables, and the lemmas called ...Apart take it out of  *)
(* the platform.  The last theorem puts the types of all of them and of    *)
(* the pages together.                                                     *)
(***************************************************************************)
EXTENDS PagesProofs
-----------------------------------------------------------------------------
(* The counters of the login: no counter is left without an expiry and     *)
(* without an attempt about to set it, for any number of attempts and any  *)
(* limits.  The property is inductive beside the types: INCR brings a      *)
(* counter from 0 to 1 only in a step that leads to its EXPIRE, a counter  *)
(* above 0 that is not bounded keeps the attempt it had, and only that     *)
(* attempt leaves its place, by bounding the counter or into cut.          *)

\* A counter that is counted up stays a number above 0 and below the limit
\* that ProtectionTypeOK sets; counted up from 0 it is 1.
LEMMA BumpedFacts ==
    ASSUME L!AttemptConstants, L!ProtectionTypeOK, NEW k \in L!Counters
    PROVE  /\ L!Bumped(k) \in Nat \ {0}
           /\ L!Bumped(k) <= Limits[k] + 1
           /\ counter[k] = 0 => L!Bumped(k) = 1
BY DEF L!AttemptConstants, L!ProtectionTypeOK, L!Bumped

LEMMA LoginStarts ==
    ASSUME L!AttemptConstants, L!ProtectionInit
    PROVE  L!ProtectionTypeOK /\ L!CountersAreBounded
<1>1. \A k \in L!Counters : counter[k] = 0 /\ Limits[k] \in Nat
  BY DEF L!ProtectionInit, L!AttemptConstants
<1>2. counter \in [L!Counters -> Nat] /\ bounded \in [L!Counters -> BOOLEAN]
  BY DEF L!ProtectionInit
<1>3. lock \in BOOLEAN /\ attempt \in [Attempts -> L!Places] /\ cut \subseteq L!Counters
  BY DEF L!ProtectionInit, L!Places
<1>4. L!ProtectionTypeOK
  BY <1>1, <1>2, <1>3 DEF L!ProtectionTypeOK
<1>5. L!CountersAreBounded
  BY <1>1 DEF L!CountersAreBounded
<1> QED BY <1>4, <1>5

-----------------------------------------------------------------------------
LEMMA LoginTypesPreserved ==
    ASSUME L!AttemptConstants, L!ProtectionTypeOK, [L!ProtectionNext]_(L!counterVars)
    PROVE  L!ProtectionTypeOK'
<1> USE DEF L!ProtectionTypeOK, L!AttemptConstants, L!Counters, L!Places, L!Continue
<1>1. CASE UNCHANGED L!counterVars
  BY <1>1 DEF L!counterVars
<1>2. ASSUME NEW r \in Attempts, L!Try(r) PROVE L!ProtectionTypeOK'
  BY <1>2 DEF L!Try
<1>3. ASSUME NEW r \in Attempts, L!Throttle(r) PROVE L!ProtectionTypeOK'
  <2>1. L!Bumped("hit") \in Nat /\ L!Bumped("hit") <= Limits["hit"] + 1
    BY BumpedFacts
  <2> QED BY <1>3, <2>1 DEF L!Throttle, L!Incr
<1>4. ASSUME NEW r \in Attempts, L!ThrottleExpire(r) PROVE L!ProtectionTypeOK'
  BY <1>4 DEF L!ThrottleExpire, L!Expire
<1>5. ASSUME NEW r \in Attempts, L!CountAddress(r) PROVE L!ProtectionTypeOK'
  <2>1. L!Bumped("ip") \in Nat /\ L!Bumped("ip") <= Limits["ip"] + 1
    BY BumpedFacts
  <2> QED BY <1>5, <2>1 DEF L!CountAddress, L!Incr
<1>6. ASSUME NEW r \in Attempts, L!BoundAddress(r) PROVE L!ProtectionTypeOK'
  BY <1>6 DEF L!BoundAddress, L!Expire
<1>7. ASSUME NEW r \in Attempts, L!AskLock(r) PROVE L!ProtectionTypeOK'
  BY <1>7 DEF L!AskLock
<1>8. ASSUME NEW r \in Attempts, L!Check(r) PROVE L!ProtectionTypeOK'
  BY <1>8 DEF L!Check
<1>9. ASSUME NEW r \in Attempts, L!CountFailure(r) PROVE L!ProtectionTypeOK'
  <2>1. L!Bumped("fail") \in Nat /\ L!Bumped("fail") <= Limits["fail"] + 1
    BY BumpedFacts
  <2> QED BY <1>9, <2>1 DEF L!CountFailure, L!Incr
<1>10. ASSUME NEW r \in Attempts, L!BoundFailures(r) PROVE L!ProtectionTypeOK'
  BY <1>10 DEF L!BoundFailures, L!Expire
<1>11. ASSUME NEW r \in Attempts, L!SetLock(r) PROVE L!ProtectionTypeOK'
  BY <1>11 DEF L!SetLock
<1>12. ASSUME NEW r \in Attempts, L!DropFailures(r) PROVE L!ProtectionTypeOK'
  BY <1>12 DEF L!DropFailures, L!Gone
<1>13. ASSUME NEW r \in Attempts, L!ClearFailures(r) PROVE L!ProtectionTypeOK'
  <2>1. counter' \in [L!Counters -> Nat] /\ \A k \in L!Counters : counter'[k] <= counter[k]
    BY <1>13 DEF L!ClearFailures, L!Gone
  <2>2. bounded' \in [L!Counters -> BOOLEAN]
    BY <1>13 DEF L!ClearFailures, L!Gone
  <2>3. attempt' \in [Attempts -> L!Places] /\ lock' \in BOOLEAN /\ cut' \subseteq L!Counters
    BY <1>13 DEF L!ClearFailures, L!Gone
  <2> QED BY <2>1, <2>2, <2>3
<1>14. ASSUME NEW r \in Attempts, L!Break(r) PROVE L!ProtectionTypeOK'
  BY <1>14 DEF L!Break, L!Lost
<1>15. ASSUME NEW k \in L!Counters, L!WindowEnds(k) PROVE L!ProtectionTypeOK'
  BY <1>15 DEF L!WindowEnds, L!Gone
<1>16. CASE L!LockEnds
  BY <1>16 DEF L!LockEnds
<1> QED
  BY <1>1, <1>2, <1>3, <1>4, <1>5, <1>6, <1>7, <1>8, <1>9, <1>10, <1>11, <1>12,
     <1>13, <1>14, <1>15, <1>16 DEF L!ProtectionNext, L!Serve

-----------------------------------------------------------------------------
LEMMA LoginBoundedPreserved ==
    ASSUME L!AttemptConstants, L!ProtectionTypeOK, L!CountersAreBounded, [L!ProtectionNext]_(L!counterVars)
    PROVE  L!CountersAreBounded'
<1> USE DEF L!ProtectionTypeOK, L!Counters, L!Places, L!Continue, L!Bounding, L!CountersAreBounded
<1>1. CASE UNCHANGED L!counterVars
  BY <1>1 DEF L!counterVars
<1>2. ASSUME NEW r \in Attempts, L!Try(r) PROVE L!CountersAreBounded'
  BY <1>2 DEF L!Try
<1>3. ASSUME NEW r \in Attempts, L!Throttle(r) PROVE L!CountersAreBounded'
  BY <1>3 DEF L!Throttle, L!Incr
<1>4. ASSUME NEW r \in Attempts, L!ThrottleExpire(r) PROVE L!CountersAreBounded'
  BY <1>4 DEF L!ThrottleExpire, L!Expire
<1>5. ASSUME NEW r \in Attempts, L!CountAddress(r) PROVE L!CountersAreBounded'
  <2>1. counter["ip"] = 0 => L!Bumped("ip") = 1
    BY BumpedFacts
  <2> QED BY <1>5, <2>1 DEF L!CountAddress, L!Incr
<1>6. ASSUME NEW r \in Attempts, L!BoundAddress(r) PROVE L!CountersAreBounded'
  BY <1>6 DEF L!BoundAddress, L!Expire
<1>7. ASSUME NEW r \in Attempts, L!AskLock(r) PROVE L!CountersAreBounded'
  BY <1>7 DEF L!AskLock
<1>8. ASSUME NEW r \in Attempts, L!Check(r) PROVE L!CountersAreBounded'
  BY <1>8 DEF L!Check
<1>9. ASSUME NEW r \in Attempts, L!CountFailure(r) PROVE L!CountersAreBounded'
  <2>1. counter["fail"] = 0 => L!Bumped("fail") = 1
    BY BumpedFacts
  <2> QED BY <1>9, <2>1 DEF L!CountFailure, L!Incr
<1>10. ASSUME NEW r \in Attempts, L!BoundFailures(r) PROVE L!CountersAreBounded'
  BY <1>10 DEF L!BoundFailures, L!Expire
<1>11. ASSUME NEW r \in Attempts, L!SetLock(r) PROVE L!CountersAreBounded'
  BY <1>11 DEF L!SetLock
<1>12. ASSUME NEW r \in Attempts, L!DropFailures(r) PROVE L!CountersAreBounded'
  BY <1>12 DEF L!DropFailures, L!Gone
<1>13. ASSUME NEW r \in Attempts, L!ClearFailures(r) PROVE L!CountersAreBounded'
  BY <1>13 DEF L!ClearFailures, L!Gone
<1>14. ASSUME NEW r \in Attempts, L!Break(r) PROVE L!CountersAreBounded'
  BY <1>14 DEF L!Break, L!Lost
<1>15. ASSUME NEW k \in L!Counters, L!WindowEnds(k) PROVE L!CountersAreBounded'
  BY <1>15 DEF L!WindowEnds, L!Gone
<1>16. CASE L!LockEnds
  BY <1>16 DEF L!LockEnds
<1> QED
  BY <1>1, <1>2, <1>3, <1>4, <1>5, <1>6, <1>7, <1>8, <1>9, <1>10, <1>11, <1>12,
     <1>13, <1>14, <1>15, <1>16 DEF L!ProtectionNext, L!Serve

LEMMA LoginApart ==
    PlatformSafe => L!ProtectionInit /\ [][L!ProtectionNext]_loginVars
<1>1. PlatformInit => L!ProtectionInit
  BY DEF PlatformInit
<1>2. [PlatformNext]_platformVars => [L!ProtectionNext]_loginVars
  <2>1. Runs("login") /\ L!ProtectionNext /\ Only("login") => L!ProtectionNext
    OBVIOUS
  <2> QED BY <2>1 DEF PlatformNext, Only, loginVars, platformVars
<1> QED BY <1>1, <1>2, PTL DEF PlatformSafe

\* No counter without an expiry is left to refuse people for ever, however
\* attempts overlap with each other, with locks and with the end of windows,
\* unless the attempt that had to set it was cut off between its two commands
\* (login-protection.service.ts:65-68, 111-114).
THEOREM CountersStayBounded == PlatformSafe => [](L!ProtectionTypeOK /\ CountersAreBounded)
<1>1. L!AttemptConstants
  BY PlatformConstants
<1>2. L!ProtectionInit => L!ProtectionTypeOK /\ L!CountersAreBounded
  BY <1>1, LoginStarts
<1>3. L!ProtectionTypeOK /\ L!CountersAreBounded /\ [L!ProtectionNext]_loginVars
        => (L!ProtectionTypeOK /\ L!CountersAreBounded)'
  <2>1. [L!ProtectionNext]_loginVars => [L!ProtectionNext]_(L!counterVars)
    BY DEF loginVars, L!counterVars
  <2> QED BY <1>1, <2>1, LoginTypesPreserved, LoginBoundedPreserved
<1>4. L!CountersAreBounded => CountersAreBounded
  BY DEF CountersAreBounded
<1> QED BY <1>2, <1>3, <1>4, LoginApart, PTL

-----------------------------------------------------------------------------
(* Sessions: what ended stays ended, and nobody is logged out without a    *)
(* cause.                                                                  *)
(*                                                                         *)
(* A token is held by one browser only, by its cookie or by requests of    *)
(* its threads, and is not issued anew while it is held: so the owner of a *)
(* held token stays, and nobody else can revoke it.  While the person may  *)
(* expect the session, every refresh of the browser that is not looked up  *)
(* carries a token that serves; one that has revoked the cookie's token    *)
(* brings the next one; and the calls of a tab share one refresh, so that  *)
(* none of them can be doomed by another.                                  *)

Signing == {"login", "register"}

\* What a thread knows at each place.
ThreadKnows(th) ==
    /\ run[th].pc \in {"ask", "denied", "wait", "lookup", "revoke"} => run[th].kind \notin Signing
    /\ run[th].pc \in {"verify", "create"} => run[th].kind \in Signing
    /\ run[th].pc \in {"verify", "create", "revoke", "issue", "issued"} => run[th].acct \in Accounts
    /\ run[th].pc = "issued" => run[th].new \in Tokens /\ owner[run[th].new] = run[th].acct
    /\ run[th].pc \in {"revoke", "issue", "issued"} /\ run[th].kind \notin Signing
         => run[th].tok \in Tokens /\ owner[run[th].tok] = run[th].acct

\* The browsers that hold a token.
Holds(b, k) ==
    \/ cookie[b] = k
    \/ \E th \in Threads : S!Home(th) = b /\ (run[th].tok = k \/ run[th].new = k)
OneHolder == \A k \in Tokens : \A b, c \in Browsers : Holds(b, k) /\ Holds(c, k) => b = c

LiveOwned == \A k \in live : owner[k] \in Accounts
AccessOwned == \A b \in Browsers : access[b] # Nobody =>
                   cookie[b] \in Tokens /\ owner[cookie[b]] = access[b]

\* A token that is on its way to a browser is nowhere else.
NewIsOwn == \A th \in Threads : run[th].new # NoToken =>
                /\ \A b \in Browsers : cookie[b] # run[th].new
                /\ \A o \in Threads : run[o].tok # run[th].new
                /\ \A o \in Threads \ {th} : run[o].new # run[th].new

\* A session that the person may expect: its token serves or the next one is
\* under way, every refresh of the browser will be answered, and a party has one
\* refresh at most.
Bringing(b) == \E th \in Threads : /\ S!Home(th) = b /\ run[th].kind \notin Signing
                                   /\ run[th].pc \in {"issue", "issued"}
                                   /\ run[th].tok = cookie[b]
RefreshHolds(th) ==
    /\ run[th].tok \in Tokens /\ owner[run[th].tok] = owner[cookie[S!Home(th)]]
    /\ run[th].pc = "lookup" => run[th].tok \in live
    /\ run[th].pc = "issued" => run[th].new \in live
    /\ run[th].kind = "boot" \/ renewing[TabOf[th]] = th
OneBoot(b) == \A th, o \in Threads :
    S!Home(th) = b /\ TabOf[o] = TabOf[th] /\ run[th].kind = "boot" /\ run[o].kind = "boot"
      => th = o
SessionHolds(b) ==
    /\ cookie[b] \in Tokens /\ S!Active(owner[cookie[b]])
    /\ cookie[b] \in live \/ Bringing(b)
    /\ OneBoot(b)
    /\ \A th \in Threads : S!Home(th) = b =>
         /\ run[th].pc \notin {"refused", "signout", "signed_out"}
         /\ run[th].retried => access[b] # Nobody
         /\ S!Refreshing(th) => RefreshHolds(th)

SessionsInv ==
    /\ S!TypeOK
    /\ \A th \in Threads : ThreadKnows(th)
    /\ OneHolder
    /\ NewIsOwn
    /\ LiveOwned
    /\ AccessOwned
    /\ S!EndedSessionsEnd
    /\ \A b \in Browsers : kept[b] = "yes" => SessionHolds(b)

-----------------------------------------------------------------------------
ThreadStates == [pc: S!Steps, kind: S!CallKinds, tok: Tokens \cup {NoToken},
                 new: Tokens \cup {NoToken}, acct: Accounts \cup {Nobody},
                 retried: BOOLEAN, era: Nat]

LEMMA IdleFacts ==
    /\ S!Idle \in ThreadStates
    /\ S!Idle.pc = "idle" /\ S!Idle.kind = "call" /\ S!Idle.tok = NoToken
    /\ S!Idle.new = NoToken /\ S!Idle.acct = Nobody /\ S!Idle.retried = FALSE
BY DEF S!Idle, ThreadStates, S!Steps, S!CallKinds

\* A thread that begins something, or starts again.
LEMMA StartFacts ==
    ASSUME NEW p \in S!Steps, NEW k \in S!CallKinds, NEW a \in Accounts \cup {Nobody}, NEW x \in BOOLEAN
    PROVE  LET r == [S!Idle EXCEPT !.pc = p, !.kind = k, !.acct = a, !.retried = x] IN
           /\ r \in ThreadStates
           /\ r.pc = p /\ r.kind = k /\ r.tok = NoToken /\ r.new = NoToken
           /\ r.acct = a /\ r.retried = x
BY DEF S!Idle, ThreadStates, S!CallKinds, S!Steps

LEMMA GoFacts ==
    ASSUME run \in [Threads -> ThreadStates], NEW th \in Threads, NEW p \in S!Steps, S!Go(th, p)
    PROVE  /\ run' \in [Threads -> ThreadStates]
           /\ run'[th].pc = p /\ run'[th].kind = run[th].kind /\ run'[th].tok = run[th].tok
           /\ run'[th].new = run[th].new /\ run'[th].acct = run[th].acct
           /\ run'[th].retried = run[th].retried /\ run'[th].era = run[th].era
           /\ \A o \in Threads \ {th} : run'[o] = run[o]
BY DEF S!Go, ThreadStates

LEMMA FinishFacts ==
    ASSUME run \in [Threads -> ThreadStates], NEW th \in Threads, S!Finish(th)
    PROVE  /\ run' \in [Threads -> ThreadStates] /\ run'[th] = S!Idle
           /\ \A o \in Threads \ {th} : run'[o] = run[o]
BY IdleFacts DEF S!Finish

\* The places of a thread that decide.
LEMMA HomeIs == ASSUME S!SessionConstants, NEW th \in Threads
                PROVE  S!Home(th) \in Browsers /\ TabOf[th] \in Tabs
BY DEF S!SessionConstants, S!Home

-----------------------------------------------------------------------------
\* Tokens come from where they are held.
FromHome ==
    /\ \A b \in Browsers : cookie'[b] = NoToken \/ Holds(b, cookie'[b])
    /\ \A th \in Threads : run'[th].tok = NoToken \/ Holds(S!Home(th), run'[th].tok)
    /\ \A th \in Threads : run'[th].new = NoToken \/ Holds(S!Home(th), run'[th].new)

LEMMA HoldersKept ==
    ASSUME S!SessionConstants, OneHolder, FromHome
    PROVE  OneHolder'
<1>1. ASSUME NEW b \in Browsers, NEW k \in Tokens, Holds(b, k)' PROVE Holds(b, k)
  <2>1. k # NoToken
    BY DEF S!SessionConstants
  <2>2. CASE cookie'[b] = k
    BY <2>1, <2>2 DEF FromHome
  <2>3. ASSUME NEW th \in Threads, S!Home(th) = b, run'[th].tok = k \/ run'[th].new = k
        PROVE  Holds(b, k)
    BY <2>1, <2>3 DEF FromHome
  <2> QED BY <1>1, <2>2, <2>3 DEF Holds, S!Home
<1> QED BY <1>1 DEF OneHolder

\* One thread that starts, goes on or ends leaves the tokens where they are.
LEMMA ThreadFromHome ==
    ASSUME NEW th \in Threads, UNCHANGED cookie,
           \A o \in Threads \ {th} : run'[o] = run[o],
           run'[th].tok \in {NoToken, run[th].tok}, run'[th].new \in {NoToken, run[th].new}
    PROVE  FromHome
<1>1. \A b \in Browsers : cookie'[b] = NoToken \/ Holds(b, cookie'[b])
  BY DEF Holds
<1>2. \A o \in Threads : Holds(S!Home(o), run[o].tok) /\ Holds(S!Home(o), run[o].new)
  BY DEF Holds
<1>3. ASSUME NEW o \in Threads
      PROVE  /\ run'[o].tok = NoToken \/ Holds(S!Home(o), run'[o].tok)
             /\ run'[o].new = NoToken \/ Holds(S!Home(o), run'[o].new)
  <2>1. CASE o = th
    BY <1>2, <2>1
  <2>2. CASE o # th
    BY <1>2, <2>2
  <2> QED BY <2>1, <2>2
<1> QED BY <1>1, <1>3 DEF FromHome

\* The tokens on their way stay there or become cookies.
LEMMA OwnKept ==
    ASSUME S!SessionConstants, NewIsOwn, NEW th \in Threads,
           \A c \in Browsers : cookie'[c] = cookie[c] \/ cookie'[c] = NoToken
                                 \/ (cookie'[c] = run[th].new /\ run'[th].new = NoToken),
           \A o \in Threads : run'[o].new \in {NoToken, run[o].new},
           \A o \in Threads : run'[o].tok \in {NoToken, run[o].tok, cookie[S!Home(o)]}
    PROVE  NewIsOwn'
<1>1. ASSUME NEW o \in Threads, run'[o].new # NoToken
      PROVE  /\ \A c \in Browsers : cookie'[c] # run'[o].new
             /\ \A x \in Threads : run'[x].tok # run'[o].new
             /\ \A x \in Threads \ {o} : run'[x].new # run'[o].new
  <2>1. run'[o].new = run[o].new /\ run[o].new # NoToken
    BY <1>1
  <2>2. /\ \A c \in Browsers : cookie[c] # run[o].new
        /\ \A x \in Threads : run[x].tok # run[o].new
        /\ \A x \in Threads \ {o} : run[x].new # run[o].new
    BY <2>1 DEF NewIsOwn
  <2>3. \A c \in Browsers : cookie'[c] # run'[o].new
    BY <1>1, <2>1, <2>2
  <2>4. \A x \in Threads : run'[x].tok # run'[o].new
    BY <1>1, <2>1, <2>2 DEF S!SessionConstants, S!Home
  <2>5. \A x \in Threads \ {o} : run'[x].new # run'[o].new
    BY <1>1, <2>1, <2>2
  <2> QED BY <2>3, <2>4, <2>5
<1> QED BY <1>1 DEF NewIsOwn

\* The same for a step of one thread that takes no token up.
LEMMA ThreadOwnKept ==
    ASSUME S!SessionConstants, NewIsOwn, NEW th \in Threads, UNCHANGED cookie,
           \A o \in Threads \ {th} : run'[o] = run[o],
           run'[th].tok \in {NoToken, run[th].tok}, run'[th].new \in {NoToken, run[th].new}
    PROVE  NewIsOwn'
<1>1. ASSUME NEW o \in Threads
      PROVE  run'[o].tok \in {NoToken, run[o].tok} /\ run'[o].new \in {NoToken, run[o].new}
  OBVIOUS
<1>2. \A o \in Threads : run'[o].new \in {NoToken, run[o].new}
  BY <1>1
<1>3. \A o \in Threads : run'[o].tok \in {NoToken, run[o].tok, cookie[S!Home(o)]}
  BY <1>1
<1> QED BY <1>2, <1>3, OwnKept

\* Two refreshes of one party are one.
LEMMA PartyAlone ==
    ASSUME NEW b \in Browsers, SessionHolds(b), NEW th \in Threads, NEW o \in Threads,
           S!Home(th) = b, S!Refreshing(th), S!Refreshing(o), S!SameParty(th, o)
    PROVE  th = o
<1>1. S!Home(o) = b /\ TabOf[o] = TabOf[th] /\ (run[o].kind = "boot" <=> run[th].kind = "boot")
  BY DEF S!SameParty, S!Home
<1>2. RefreshHolds(th) /\ RefreshHolds(o)
  BY <1>1 DEF SessionHolds
<1>3. CASE run[th].kind = "boot"
  BY <1>1, <1>3 DEF SessionHolds, OneBoot
<1>4. CASE run[th].kind # "boot"
  BY <1>1, <1>2, <1>4 DEF RefreshHolds
<1> QED BY <1>3, <1>4

\* What a step must leave to a refresh that it does not move.
RefreshKept(th) ==
    /\ owner'[run[th].tok] = owner[run[th].tok]
    /\ run[th].pc = "lookup" /\ run[th].tok \in live => run[th].tok \in live'
    /\ run[th].pc = "issued" /\ run[th].new \in live => run[th].new \in live'
    /\ run[th].kind = "boot" \/ renewing'[TabOf[th]] = renewing[TabOf[th]]

LEMMA RefreshStays ==
    ASSUME NEW th \in Threads, RefreshHolds(th), RefreshKept(th), run'[th] = run[th],
           owner'[cookie'[S!Home(th)]] = owner[cookie[S!Home(th)]]
    PROVE  RefreshHolds(th)'
BY DEF RefreshHolds, RefreshKept, S!Home

\* No thread of the browser refreshes, or ends the session, in this step.
Quiet(th) ==
    /\ ~S!Refreshing(th) /\ ~S!Refreshing(th)'
    /\ run'[th].pc \notin {"refused", "signout", "signed_out"}
    /\ run'[th].retried => run[th].retried

LEMMA SessionQuiet ==
    ASSUME NEW b \in Browsers, SessionHolds(b), OneBoot(b)',
           cookie'[b] = cookie[b], owner'[cookie[b]] = owner[cookie[b]],
           status'[owner[cookie[b]]] = "active",
           cookie[b] \in live => cookie[b] \in live',
           \A th \in Threads : S!Home(th) = b /\ S!Refreshing(th) => RefreshKept(th),
           \A th \in Threads : S!Home(th) = b => run'[th] = run[th] \/ Quiet(th),
           access'[b] = access[b] \/ \A th \in Threads : S!Home(th) = b => ~run'[th].retried
    PROVE  SessionHolds(b)'
<1>0. \A th \in Threads : S!Home(th)' = S!Home(th)
  BY DEF S!Home
<1>1. cookie'[b] \in Tokens /\ S!Active(owner[cookie[b]])'
  BY DEF SessionHolds, S!Active
<1>2. ASSUME NEW th \in Threads, S!Home(th) = b, S!Refreshing(th) PROVE run'[th] = run[th]
  BY <1>2 DEF Quiet
<1>3. ASSUME NEW th \in Threads, S!Home(th) = b, S!Refreshing(th)'
      PROVE  S!Refreshing(th) /\ run'[th] = run[th]
  BY <1>3 DEF Quiet, S!Refreshing
<1>4. cookie'[b] \in live' \/ Bringing(b)'
  <2>1. CASE cookie[b] \in live
    BY <2>1
  <2>2. CASE Bringing(b)
    <3>1. PICK th \in Threads : /\ S!Home(th) = b /\ run[th].kind \notin Signing
                                /\ run[th].pc \in {"issue", "issued"} /\ run[th].tok = cookie[b]
      BY <2>2 DEF Bringing
    <3>2. S!Refreshing(th)
      BY <3>1 DEF S!Refreshing, Signing
    <3>3. run'[th] = run[th]
      BY <1>2, <3>1, <3>2
    <3> QED BY <1>0, <3>1, <3>3 DEF Bringing
  <2> QED BY <2>1, <2>2 DEF SessionHolds
<1>5. ASSUME NEW th \in Threads, S!Home(th) = b
      PROVE  /\ run'[th].pc \notin {"refused", "signout", "signed_out"}
             /\ run'[th].retried => access'[b] # Nobody
             /\ S!Refreshing(th)' => RefreshHolds(th)'
  <2>1. run'[th].pc \notin {"refused", "signout", "signed_out"} /\ (run'[th].retried => run[th].retried)
    BY <1>5 DEF Quiet, SessionHolds
  <2>2. run'[th].retried => access'[b] # Nobody
    BY <1>5, <2>1 DEF SessionHolds
  <2>3. ASSUME S!Refreshing(th)' PROVE RefreshHolds(th)'
    <3>1. S!Refreshing(th) /\ run'[th] = run[th]
      BY <1>3, <1>5, <2>3
    <3>2. RefreshHolds(th) /\ RefreshKept(th)
      BY <1>5, <3>1 DEF SessionHolds
    <3> QED BY <1>5, <3>1, <3>2, RefreshStays
  <2> QED BY <2>1, <2>2, <2>3
<1> QED BY <1>0, <1>1, <1>4, <1>5 DEF SessionHolds

\* No second shell of a tab asks who this is.
LEMMA BootsKept ==
    ASSUME NEW b \in Browsers, OneBoot(b),
           \A th \in Threads : S!Home(th) = b /\ run'[th].kind = "boot" => run[th].kind = "boot"
    PROVE  OneBoot(b)'
<1>1. ASSUME NEW th \in Threads, NEW o \in Threads, S!Home(th) = b, TabOf[o] = TabOf[th],
             run'[th].kind = "boot", run'[o].kind = "boot"
      PROVE  th = o
  <2>1. S!Home(o) = b
    BY <1>1 DEF S!Home
  <2> QED BY <1>1, <2>1 DEF OneBoot
<1>2. \A th \in Threads : S!Home(th)' = S!Home(th)
  BY DEF S!Home
<1> QED BY <1>1, <1>2 DEF OneBoot

LEMMA BootBegins ==
    ASSUME NEW b \in Browsers, OneBoot(b), NEW th \in Threads,
           \A o \in S!Siblings(th) : run[o].kind # "boot",
           \A o \in Threads \ {th} : run'[o] = run[o]
    PROVE  OneBoot(b)'
<1>1. ASSUME NEW x \in Threads, NEW o \in Threads, S!Home(x) = b, TabOf[o] = TabOf[x],
             run'[x].kind = "boot", run'[o].kind = "boot", x # o
      PROVE  FALSE
  <2>1. CASE x = th
    BY <1>1, <2>1 DEF S!Siblings
  <2>2. CASE o = th
    BY <1>1, <2>2 DEF S!Siblings
  <2>3. CASE x # th /\ o # th
    BY <1>1, <2>3 DEF OneBoot
  <2> QED BY <2>1, <2>2, <2>3
<1>2. \A x \in Threads : S!Home(x)' = S!Home(x)
  BY DEF S!Home
<1> QED BY <1>1, <1>2 DEF OneBoot

\* A step of one thread that leaves the tokens and cookies alone.
LEMMA QuietStep ==
    ASSUME S!SessionConstants, SessionsInv, NEW th \in Threads,
           UNCHANGED <<live, owner, cookie, access, renewing, epoch, era, late>>,
           \A a \in Accounts : status[a] = "active" => status'[a] = "active",
           \A o \in Threads \ {th} : run'[o] = run[o],
           run'[th].tok \in {NoToken, run[th].tok}, run'[th].new \in {NoToken, run[th].new},
           S!TypeOK', ThreadKnows(th)',
           \A b \in Browsers : kept'[b] = "yes" => kept[b] = "yes",
           kept'[S!Home(th)] = "yes" =>
               /\ Quiet(th)
               /\ \/ run'[th].kind = "boot" => run[th].kind = "boot"
                  \/ \A o \in S!Siblings(th) : run[o].kind # "boot"
    PROVE  SessionsInv'
<1>1. \A o \in Threads : ThreadKnows(o)'
  BY DEF SessionsInv, ThreadKnows
<1>2. OneHolder' /\ NewIsOwn'
  BY ThreadFromHome, HoldersKept, ThreadOwnKept DEF SessionsInv
<1>3. LiveOwned' /\ AccessOwned' /\ S!EndedSessionsEnd'
  BY DEF SessionsInv, LiveOwned, AccessOwned, S!EndedSessionsEnd
<1>4. ASSUME NEW b \in Browsers, kept'[b] = "yes" PROVE SessionHolds(b)'
  <2>1. SessionHolds(b) /\ OneBoot(b)
    BY <1>4 DEF SessionsInv, SessionHolds
  <2>2. \A o \in Threads : S!Home(o) = b => run'[o] = run[o] \/ Quiet(o)
    BY <1>4
  <2>3. owner[cookie[b]] \in Accounts
    BY <2>1 DEF SessionHolds, SessionsInv, S!TypeOK, S!Active
  <2>4. status'[owner[cookie[b]]] = "active"
    BY <2>1, <2>3 DEF SessionHolds, S!Active
  <2>5. OneBoot(b)'
    <3>1. CASE S!Home(th) = b /\ \A o \in S!Siblings(th) : run[o].kind # "boot"
      BY <2>1, <3>1, BootBegins
    <3>2. CASE S!Home(th) # b \/ (run'[th].kind = "boot" => run[th].kind = "boot")
      BY <2>1, <3>2, BootsKept
    <3> QED BY <1>4, <3>1, <3>2
  <2>6. \A o \in Threads : RefreshKept(o)
    BY DEF RefreshKept
  <2> QED BY <2>1, <2>2, <2>4, <2>5, <2>6, SessionQuiet
<1> QED BY <1>1, <1>2, <1>3, <1>4 DEF SessionsInv

LEMMA InvTypes ==
    ASSUME SessionsInv
    PROVE  /\ S!TypeOK /\ run \in [Threads -> ThreadStates]
           /\ \A th \in Threads : ThreadKnows(th)
BY DEF SessionsInv, S!TypeOK, ThreadStates

\* The types of what a thread changes of its own.
LEMMA ThreadTypes ==
    ASSUME S!TypeOK, run' \in [Threads -> ThreadStates],
           status' \in [Accounts -> {"absent", "active", "blocked", "deleted"}],
           kept' \in [Browsers -> {"no", "yes", "told"}],
           visits' \in 0..MaxVisits, lost' \in 0..MaxLost,
           stored' \in [Browsers -> Accounts \cup {Nobody}],
           view' \in [Tabs -> {"login", "page"}],
           shown' \in [Tabs -> Accounts \cup {Nobody}],
           UNCHANGED <<live, owner, cookie, access, renewing, epoch, era, late, events>>
    PROVE  S!TypeOK'
BY DEF S!TypeOK, ThreadStates

LEMMA TypeFacts ==
    ASSUME S!TypeOK
    PROVE  /\ status \in [Accounts -> {"absent", "active", "blocked", "deleted"}]
           /\ kept \in [Browsers -> {"no", "yes", "told"}]
           /\ visits \in 0..MaxVisits /\ lost \in 0..MaxLost
           /\ stored \in [Browsers -> Accounts \cup {Nobody}]
           /\ view \in [Tabs -> {"login", "page"}]
           /\ shown \in [Tabs -> Accounts \cup {Nobody}]
           /\ cookie \in [Browsers -> Tokens \cup {NoToken}]
           /\ access \in [Browsers -> Accounts \cup {Nobody}]
BY DEF S!TypeOK

\* One more of what people begin.
LEMMA OneMoreVisit ==
    ASSUME S!SessionConstants, S!TypeOK, visits < MaxVisits
    PROVE  visits + 1 \in 0..MaxVisits
BY DEF S!SessionConstants, S!TypeOK

LEMMA OneMoreLost ==
    ASSUME S!SessionConstants, S!TypeOK, lost < MaxLost
    PROVE  lost + 1 \in 0..MaxLost
BY DEF S!SessionConstants, S!TypeOK

LEMMA VisitKeeps ==
    ASSUME S!SessionConstants, SessionsInv, NEW th \in Threads, S!Visit(th)
    PROVE  SessionsInv'
<1> DEFINE booting == [S!Idle EXCEPT !.pc = "ask", !.kind = "boot"]
<1>0. S!TypeOK /\ run \in [Threads -> ThreadStates] /\ TabOf[th] \in Tabs /\ S!Home(th) \in Browsers
  BY InvTypes, HomeIs
<1>1. /\ booting \in ThreadStates /\ booting.pc = "ask" /\ booting.kind = "boot"
      /\ booting.tok = NoToken /\ booting.new = NoToken /\ booting.retried = FALSE
  BY DEF S!Idle, ThreadStates, S!Steps, S!CallKinds
<1>2. run[th] = S!Idle /\ (run' = run \/ run' = [run EXCEPT ![th] = booting])
  BY DEF S!Visit
<1> HIDE DEF booting
<1>3. /\ run' \in [Threads -> ThreadStates] /\ \A o \in Threads \ {th} : run'[o] = run[o]
      /\ run'[th] = S!Idle \/ run'[th] = booting
  BY <1>0, <1>1, <1>2
<1>4. S!TypeOK'
  <2>1. view' \in [Tabs -> {"login", "page"}]
    BY <1>0, TypeFacts DEF S!Visit, S!PageOrLogin
  <2>2. shown' \in [Tabs -> Accounts \cup {Nobody}]
    BY <1>0, TypeFacts DEF S!Visit
  <2> QED BY <1>0, <1>3, <2>1, <2>2, TypeFacts, ThreadTypes
          DEF S!Visit, S!server, S!browser, S!counts
<1>5. ThreadKnows(th)' /\ Quiet(th)
  BY <1>1, <1>2, <1>3, IdleFacts DEF ThreadKnows, Quiet, S!Refreshing, Signing
<1>6. UNCHANGED <<live, owner, cookie, access, renewing, epoch, era, late, kept, status>>
  BY DEF S!Visit, S!server, S!browser
<1>7. \A o \in S!Siblings(th) : run[o].kind # "boot"
  BY DEF S!Visit
<1> QED BY <1>1, <1>3, <1>4, <1>5, <1>6, <1>7, IdleFacts, QuietStep

LEMMA BeginCallKeeps ==
    ASSUME S!SessionConstants, SessionsInv, NEW th \in Threads,
           NEW kind \in {"call", "profile", "password"}, S!BeginCall(th, kind)
    PROVE  SessionsInv'
<1> DEFINE begun == [S!Idle EXCEPT !.pc = "ask", !.kind = kind]
<1>0. S!TypeOK /\ run \in [Threads -> ThreadStates]
  BY InvTypes
<1>1. /\ begun \in ThreadStates /\ begun.pc = "ask" /\ begun.kind = kind
      /\ begun.tok = NoToken /\ begun.new = NoToken /\ begun.retried = FALSE
  BY DEF S!Idle, ThreadStates, S!Steps, S!CallKinds
<1>2. run[th] = S!Idle /\ run' = [run EXCEPT ![th] = begun]
  BY DEF S!BeginCall
<1> HIDE DEF begun
<1>3. /\ run' \in [Threads -> ThreadStates] /\ \A o \in Threads \ {th} : run'[o] = run[o]
      /\ run'[th] = begun
  BY <1>0, <1>1, <1>2
<1>4. S!TypeOK'
  BY <1>0, <1>3, TypeFacts, OneMoreVisit, ThreadTypes
  DEF S!BeginCall, S!server, S!browser, S!tabs
<1>5. ThreadKnows(th)' /\ Quiet(th) /\ run'[th].kind # "boot"
  BY <1>1, <1>2, <1>3, IdleFacts DEF ThreadKnows, Quiet, S!Refreshing, Signing
<1>6. UNCHANGED <<live, owner, cookie, access, renewing, epoch, era, late, kept, status>>
  BY DEF S!BeginCall, S!server, S!browser, S!tabs
<1> QED BY <1>1, <1>3, <1>4, <1>5, <1>6, QuietStep

LEMMA ClickLogoutKeeps ==
    ASSUME S!SessionConstants, SessionsInv, NEW th \in Threads, S!ClickLogout(th)
    PROVE  SessionsInv'
<1> DEFINE begun == [S!Idle EXCEPT !.pc = "signout", !.kind = "logout"]
<1>0. S!TypeOK /\ run \in [Threads -> ThreadStates] /\ S!Home(th) \in Browsers
  BY InvTypes, HomeIs
<1>1. /\ begun \in ThreadStates /\ begun.pc = "signout" /\ begun.kind = "logout"
      /\ begun.tok = NoToken /\ begun.new = NoToken /\ begun.retried = FALSE
  BY DEF S!Idle, ThreadStates, S!Steps, S!CallKinds
<1>2. run' = [run EXCEPT ![th] = begun]
  BY DEF S!ClickLogout
<1> HIDE DEF begun
<1>3. /\ run' \in [Threads -> ThreadStates] /\ \A o \in Threads \ {th} : run'[o] = run[o]
      /\ run'[th] = begun
  BY <1>0, <1>1, <1>2
<1>4. /\ kept' \in [Browsers -> {"no", "yes", "told"}] /\ kept'[S!Home(th)] = "no"
      /\ \A b \in Browsers : kept'[b] = "yes" => kept[b] = "yes"
  BY <1>0, TypeFacts DEF S!ClickLogout, S!Forget
<1>5. S!TypeOK'
  BY <1>0, <1>3, <1>4, TypeFacts, OneMoreVisit, ThreadTypes
  DEF S!ClickLogout, S!server, S!browser, S!tabs
<1>6. ThreadKnows(th)'
  BY <1>1, <1>3 DEF ThreadKnows, Signing
<1>7. UNCHANGED <<live, owner, cookie, access, renewing, epoch, era, late, status>>
  BY DEF S!ClickLogout, S!server, S!browser, S!tabs
<1> QED BY <1>1, <1>3, <1>4, <1>5, <1>6, <1>7, QuietStep

LEMMA SubmitKeeps ==
    ASSUME S!SessionConstants, SessionsInv, NEW th \in Threads, NEW a \in Accounts,
           NEW kind \in Signing, S!Submit(th, a, kind)
    PROVE  SessionsInv'
<1> DEFINE begun == [S!Idle EXCEPT !.pc = "verify", !.kind = kind, !.acct = a]
<1>0. S!TypeOK /\ run \in [Threads -> ThreadStates]
  BY InvTypes
<1>1. /\ begun \in ThreadStates /\ begun.pc = "verify" /\ begun.kind = kind /\ begun.acct = a
      /\ begun.tok = NoToken /\ begun.new = NoToken /\ begun.retried = FALSE
  BY DEF S!Idle, ThreadStates, S!Steps, S!CallKinds, Signing
<1>2. run[th] = S!Idle /\ run' = [run EXCEPT ![th] = begun]
  BY DEF S!Submit, S!Siblings
<1> HIDE DEF begun
<1>3. /\ run' \in [Threads -> ThreadStates] /\ \A o \in Threads \ {th} : run'[o] = run[o]
      /\ run'[th] = begun
  BY <1>0, <1>1, <1>2
<1>4. S!TypeOK'
  BY <1>0, <1>3, TypeFacts, OneMoreVisit, ThreadTypes
  DEF S!Submit, S!server, S!browser, S!tabs
<1>5. ThreadKnows(th)' /\ Quiet(th) /\ run'[th].kind # "boot"
  BY <1>1, <1>2, <1>3, IdleFacts DEF ThreadKnows, Quiet, S!Refreshing, Signing
<1>6. UNCHANGED <<live, owner, cookie, access, renewing, epoch, era, late, kept, status>>
  BY DEF S!Submit, S!server, S!browser, S!tabs
<1> QED BY <1>1, <1>3, <1>4, <1>5, <1>6, QuietStep

LEMMA PersistKeeps ==
    ASSUME S!SessionConstants, SessionsInv, NEW th \in Threads, S!Persist(th)
    PROVE  SessionsInv'
<1>0. /\ S!TypeOK /\ run \in [Threads -> ThreadStates]
      /\ S!Home(th) \in Browsers /\ TabOf[th] \in Tabs
  BY InvTypes, HomeIs
<1>1. /\ run' \in [Threads -> ThreadStates] /\ run'[th] = S!Idle
      /\ \A o \in Threads \ {th} : run'[o] = run[o]
  BY <1>0, FinishFacts DEF S!Persist
<1>2. S!TypeOK'
  <2>0. run[th].acct \in Accounts \cup {Nobody}
    BY <1>0 DEF ThreadStates
  <2>1. stored' \in [Browsers -> Accounts \cup {Nobody}]
    BY <1>0, <2>0, TypeFacts DEF S!Persist
  <2>2. shown' \in [Tabs -> Accounts \cup {Nobody}]
    BY <1>0, <2>0, TypeFacts DEF S!Persist
  <2> QED BY <1>0, <1>1, <2>1, <2>2, TypeFacts, ThreadTypes DEF S!Persist, S!server, S!counts
<1>3. ThreadKnows(th)' /\ Quiet(th)
  BY <1>1, IdleFacts DEF ThreadKnows, Quiet, S!Refreshing, S!Persist, Signing
<1>4. UNCHANGED <<live, owner, cookie, access, renewing, epoch, era, late, kept, status>>
  BY DEF S!Persist, S!server, S!counts
<1> QED BY <1>1, <1>2, <1>3, <1>4, IdleFacts, QuietStep

\* The second answer 401 ends a session that the person cannot expect.
LEMMA DeniedKeeps ==
    ASSUME S!SessionConstants, SessionsInv, NEW th \in Threads, S!Denied(th)
    PROVE  SessionsInv'
<1>0. S!TypeOK /\ run \in [Threads -> ThreadStates] /\ S!Home(th) \in Browsers /\ ThreadKnows(th)
  BY InvTypes, HomeIs
<1>1. run[th].pc = "ask" /\ run[th].kind \notin Signing
  BY <1>0 DEF S!Denied, ThreadKnows
<1>2. \/ ~run[th].retried /\ S!Go(th, "denied")
      \/ run[th].retried /\ S!Go(th, "signout")
      \/ S!Finish(th)
  BY DEF S!Denied
<1>3. /\ run' \in [Threads -> ThreadStates] /\ \A o \in Threads \ {th} : run'[o] = run[o]
      /\ run'[th].tok \in {NoToken, run[th].tok} /\ run'[th].new \in {NoToken, run[th].new}
      /\ \/ run'[th] = S!Idle
         \/ run'[th].pc = "denied" /\ ~run'[th].retried /\ run'[th].kind = run[th].kind
         \/ run'[th].pc = "signout" /\ run[th].retried
      /\ run'[th].kind = "boot" => run[th].kind = "boot"
  BY <1>0, <1>2, GoFacts, FinishFacts, IdleFacts DEF S!Steps
<1>4. UNCHANGED <<live, owner, cookie, access, epoch, era, late, kept, status, view, shown, stored,
                  renewing, visits, lost, events>>
  BY DEF S!Denied, S!server, S!browser, S!tabs, S!counts
<1>5. S!TypeOK'
  BY <1>0, <1>3, <1>4, TypeFacts, ThreadTypes
<1>6. ThreadKnows(th)'
  BY <1>1, <1>3, IdleFacts DEF ThreadKnows, Signing
<1>7. ASSUME kept'[S!Home(th)] = "yes" PROVE Quiet(th)
  <2> DEFINE b == S!Home(th)
  <2>1. SessionHolds(b) /\ AccessOwned
    BY <1>0, <1>4, <1>7 DEF SessionsInv
  <2>2. ~S!Authentic(b)
    BY DEF S!Denied
  <2>3. ~run[th].retried
    <3>1. run[th].retried => access[b] # Nobody
      BY <2>1 DEF SessionHolds
    <3>2. access[b] # Nobody => access[b] = owner[cookie[b]]
      BY <1>0, <2>1 DEF AccessOwned
    <3> QED BY <2>1, <2>2, <3>1, <3>2 DEF SessionHolds, S!Authentic, S!Active
  <2> QED BY <1>1, <1>3, <2>3, IdleFacts DEF Quiet, S!Refreshing
<1> QED BY <1>3, <1>4, <1>5, <1>6, <1>7, QuietStep

LEMMA VerifyKeeps ==
    ASSUME S!SessionConstants, SessionsInv, NEW th \in Threads, S!Verify(th)
    PROVE  SessionsInv'
<1> DEFINE a == run[th].acct
<1>0. S!TypeOK /\ run \in [Threads -> ThreadStates] /\ ThreadKnows(th)
  BY InvTypes
<1>1. run[th].pc = "verify" /\ a \in Accounts
  BY <1>0 DEF S!Verify, ThreadKnows
<1>2. epoch[a] \in Nat
  BY <1>0, <1>1 DEF S!TypeOK
<1>3. \/ S!Go(th, "create") \/ S!Finish(th)
      \/ run' = [run EXCEPT ![th] = [@ EXCEPT !.pc = "issue", !.era = epoch[a]]] /\ run[th].kind # "register"
  BY DEF S!Verify
<1>4. /\ run' \in [Threads -> ThreadStates] /\ \A o \in Threads \ {th} : run'[o] = run[o]
      /\ run'[th].tok \in {NoToken, run[th].tok} /\ run'[th].new \in {NoToken, run[th].new}
      /\ \/ run'[th] = S!Idle
         \/ /\ run'[th].pc \in {"create", "issue"} /\ run'[th].kind = run[th].kind
            /\ run'[th].acct = a /\ run'[th].retried = run[th].retried
      /\ run'[th].kind = "boot" => run[th].kind = "boot"
  <2>1. CASE S!Go(th, "create") \/ S!Finish(th)
    BY <1>0, <2>1, GoFacts, FinishFacts, IdleFacts DEF S!Steps
  <2>2. CASE run' = [run EXCEPT ![th] = [@ EXCEPT !.pc = "issue", !.era = epoch[a]]]
    BY <1>0, <1>2, <2>2 DEF ThreadStates, S!Steps
  <2> QED BY <1>3, <2>1, <2>2
<1>5. UNCHANGED <<live, owner, cookie, access, epoch, era, late, kept, status, view, shown, stored,
                  renewing, visits, lost, events>>
  BY DEF S!Verify, S!server, S!browser, S!tabs, S!counts
<1>6. S!TypeOK'
  BY <1>0, <1>4, <1>5, TypeFacts, ThreadTypes
<1>7. ThreadKnows(th)' /\ Quiet(th)
  BY <1>0, <1>1, <1>4, <1>5, IdleFacts DEF ThreadKnows, Quiet, S!Refreshing, Signing
<1> QED BY <1>4, <1>5, <1>6, <1>7, QuietStep

LEMMA CreateKeeps ==
    ASSUME S!SessionConstants, SessionsInv, NEW th \in Threads, S!Create(th)
    PROVE  SessionsInv'
<1> DEFINE a == run[th].acct
<1>0. S!TypeOK /\ run \in [Threads -> ThreadStates] /\ ThreadKnows(th)
  BY InvTypes
<1>1. run[th].pc = "create" /\ a \in Accounts
  BY <1>0 DEF S!Create, ThreadKnows
<1>2. epoch[a] \in Nat
  BY <1>0, <1>1 DEF S!TypeOK
<1>3. \/ S!Finish(th) /\ UNCHANGED status
      \/ /\ run' = [run EXCEPT ![th] = [@ EXCEPT !.pc = "issue", !.era = epoch[a]]]
         /\ status' = [status EXCEPT ![a] = "active"]
  BY DEF S!Create
<1>4. /\ run' \in [Threads -> ThreadStates] /\ \A o \in Threads \ {th} : run'[o] = run[o]
      /\ run'[th].tok \in {NoToken, run[th].tok} /\ run'[th].new \in {NoToken, run[th].new}
      /\ \/ run'[th] = S!Idle
         \/ /\ run'[th].pc = "issue" /\ run'[th].kind = run[th].kind
            /\ run'[th].acct = a /\ run'[th].retried = run[th].retried
      /\ run'[th].kind = "boot" => run[th].kind = "boot"
  <2>1. CASE S!Finish(th)
    BY <1>0, <2>1, FinishFacts, IdleFacts
  <2>2. CASE run' = [run EXCEPT ![th] = [@ EXCEPT !.pc = "issue", !.era = epoch[a]]]
    BY <1>0, <1>2, <2>2 DEF ThreadStates, S!Steps
  <2> QED BY <1>3, <2>1, <2>2
<1>5. UNCHANGED <<live, owner, cookie, access, epoch, era, late, kept, view, shown, stored,
                  renewing, visits, lost, events>>
  BY DEF S!Create, S!browser, S!tabs, S!counts
<1>6. /\ status' \in [Accounts -> {"absent", "active", "blocked", "deleted"}]
      /\ \A x \in Accounts : status[x] = "active" => status'[x] = "active"
  BY <1>0, <1>1, <1>3, TypeFacts
<1>7. S!TypeOK'
  BY <1>0, <1>4, <1>5, <1>6, TypeFacts, ThreadTypes
<1>8. ThreadKnows(th)' /\ Quiet(th)
  BY <1>0, <1>1, <1>4, <1>5, IdleFacts DEF ThreadKnows, Quiet, S!Refreshing, Signing
<1> QED BY <1>4, <1>5, <1>6, <1>7, <1>8, QuietStep

LEMMA LoseKeeps ==
    ASSUME S!SessionConstants, SessionsInv, NEW th \in Threads, S!Lose(th)
    PROVE  SessionsInv'
<1>0. S!TypeOK /\ run \in [Threads -> ThreadStates] /\ S!Home(th) \in Browsers /\ ThreadKnows(th)
  BY InvTypes, HomeIs
<1>1. \/ S!Finish(th) /\ ~S!Refreshing(th)
      \/ S!Go(th, "refused")
      \/ run[th].pc = "ask" /\ (S!Go(th, "signout") \/ S!Go(th, "denied"))
  <2>1. \/ run[th].pc \in {"ask", "persist"} /\ S!Finish(th)
        \/ run[th].kind \in Signing /\ S!Finish(th)
        \/ S!Go(th, "refused")
        \/ run[th].pc = "ask" /\ (S!Go(th, "signout") \/ S!Go(th, "denied"))
    BY DEF S!Lose, Signing
  <2> QED BY <2>1 DEF S!Refreshing, Signing
<1>2. /\ run' \in [Threads -> ThreadStates] /\ \A o \in Threads \ {th} : run'[o] = run[o]
      /\ run'[th].tok \in {NoToken, run[th].tok} /\ run'[th].new \in {NoToken, run[th].new}
      /\ \/ run'[th] = S!Idle /\ ~S!Refreshing(th)
         \/ run'[th].pc = "refused"
         \/ /\ run[th].pc = "ask" /\ run'[th].pc \in {"signout", "denied"}
            /\ run'[th].kind = run[th].kind
      /\ run'[th].retried => run[th].retried
      /\ run'[th].kind = "boot" => run[th].kind = "boot"
  BY <1>0, <1>1, GoFacts, FinishFacts, IdleFacts DEF S!Steps
<1>3. /\ kept' = IF run'[th].pc \in {"refused", "signout"}
                 THEN [kept EXCEPT ![S!Home(th)] = "no"] ELSE kept
  BY DEF S!Lose, S!Forget
<1>4. /\ kept' \in [Browsers -> {"no", "yes", "told"}]
      /\ kept'[S!Home(th)] = "yes" => run'[th].pc \notin {"refused", "signout"}
      /\ \A b \in Browsers : kept'[b] = "yes" => kept[b] = "yes"
  BY <1>0, <1>3, TypeFacts
<1>5. UNCHANGED <<live, owner, cookie, access, epoch, era, late, status, view, shown, stored,
                  renewing, visits, events>> /\ lost' \in 0..MaxLost
  BY <1>0, OneMoreLost DEF S!Lose, S!server, S!browser, S!tabs
<1>6. S!TypeOK'
  BY <1>0, <1>2, <1>4, <1>5, TypeFacts, ThreadTypes
<1>7. ThreadKnows(th)'
  BY <1>0, <1>2, <1>5, IdleFacts DEF ThreadKnows, Signing
<1>8. kept'[S!Home(th)] = "yes" => Quiet(th)
  BY <1>2, <1>4, IdleFacts DEF Quiet, S!Refreshing
<1> QED BY <1>2, <1>4, <1>5, <1>6, <1>7, <1>8, QuietStep

-----------------------------------------------------------------------------
\* A refresh of the browser goes on, and disturbs no other.
LEMMA OwnRefresh ==
    ASSUME NEW th \in Threads, S!Home(th) \in Browsers, SessionHolds(S!Home(th)),
           UNCHANGED <<status, cookie, access>>,
           owner'[cookie[S!Home(th)]] = owner[cookie[S!Home(th)]],
           cookie[S!Home(th)] \in live' \/ Bringing(S!Home(th))',
           \A o \in Threads \ {th} : run'[o] = run[o],
           \A o \in Threads \ {th} : S!Home(o) = S!Home(th) /\ S!Refreshing(o) => RefreshKept(o),
           run'[th].retried => run[th].retried, run'[th].kind = run[th].kind,
           run'[th].pc \in {"lookup", "revoke", "issue", "issued"},
           RefreshHolds(th)'
    PROVE  SessionHolds(S!Home(th))'
<1> DEFINE b == S!Home(th)
<1>0. b' = b /\ \A o \in Threads : S!Home(o)' = S!Home(o)
  BY DEF S!Home
<1>1. cookie'[b] \in Tokens /\ S!Active(owner[cookie[b]])'
  BY DEF SessionHolds, S!Active
<1>2. OneBoot(b)'
  <2>1. \A o \in Threads : run'[o].kind = run[o].kind
    OBVIOUS
  <2>2. OneBoot(b)
    BY DEF SessionHolds
  <2> QED BY <2>1, <2>2, BootsKept
<1>3. ASSUME NEW o \in Threads, S!Home(o) = b
      PROVE  /\ run'[o].pc \notin {"refused", "signout", "signed_out"}
             /\ run'[o].retried => access'[b] # Nobody
             /\ S!Refreshing(o)' => RefreshHolds(o)'
  <2>1. run[o].pc \notin {"refused", "signout", "signed_out"} /\ (run[o].retried => access[b] # Nobody)
    BY <1>3 DEF SessionHolds
  <2>2. CASE o = th
    BY <2>1, <2>2
  <2>3. CASE o # th
    <3>1. run'[o] = run[o]
      BY <2>3
    <3>2. S!Refreshing(o)' => S!Refreshing(o)
      BY <3>1 DEF S!Refreshing
    <3>3. ASSUME S!Refreshing(o) PROVE RefreshHolds(o)'
      <4>1. RefreshHolds(o) /\ RefreshKept(o)
        BY <1>3, <2>3, <3>3 DEF SessionHolds
      <4> QED BY <1>3, <3>1, <4>1, RefreshStays
    <3> QED BY <2>1, <3>1, <3>2, <3>3
  <2> QED BY <2>2, <2>3
<1> HIDE DEF b
<1> SUFFICES SessionHolds(b)'
  BY DEF b
<1>4. cookie'[b] \in live' \/ Bringing(b)'
  BY <1>0 DEF b
<1> QED BY <1>0, <1>1, <1>2, <1>3, <1>4 DEF SessionHolds

\* A step of a thread of another browser that moves none of the tokens here.
LEMMA ElsewhereQuiet ==
    ASSUME NEW c \in Browsers, SessionHolds(c), NEW th \in Threads, S!Home(th) # c,
           UNCHANGED status, cookie'[c] = cookie[c], access'[c] = access[c],
           owner'[cookie[c]] = owner[cookie[c]], cookie[c] \in live => cookie[c] \in live',
           \A o \in Threads : S!Home(o) = c => run'[o] = run[o],
           \A o \in Threads : S!Home(o) = c /\ S!Refreshing(o) =>
               /\ owner'[run[o].tok] = owner[run[o].tok]
               /\ run[o].tok \in live => run[o].tok \in live'
               /\ run[o].new \in live => run[o].new \in live',
           \A t \in Tabs : t # TabOf[th] => renewing'[t] = renewing[t],
           S!SessionConstants
    PROVE  SessionHolds(c)'
<1>1. status'[owner[cookie[c]]] = "active"
  BY DEF SessionHolds, S!Active
<1>2. ASSUME NEW o \in Threads, S!Home(o) = c, S!Refreshing(o) PROVE RefreshKept(o)
  <2>1. TabOf[o] # TabOf[th] /\ TabOf[o] \in Tabs
    BY <1>2 DEF S!Home, S!SessionConstants
  <2> QED BY <1>2, <2>1 DEF RefreshKept
<1>3. OneBoot(c)'
  <2>1. OneBoot(c)
    BY DEF SessionHolds
  <2> QED BY <2>1, BootsKept
<1> QED BY <1>1, <1>2, <1>3, SessionQuiet

\* A browser that nothing happens to, as its tokens are its own.
LEMMA OtherTokens ==
    ASSUME OneHolder, NEW b \in Browsers, NEW c \in Browsers, b # c, NEW k \in Tokens, Holds(b, k)
    PROVE  /\ cookie[c] # k
           /\ \A th \in Threads : S!Home(th) = c => run[th].tok # k /\ run[th].new # k
BY DEF OneHolder, Holds

-----------------------------------------------------------------------------
\* The refresh carries the cookie of the moment.
LEMMA RenewKeeps ==
    ASSUME S!SessionConstants, SessionsInv, NEW th \in Threads, S!Renew(th)
    PROVE  SessionsInv'
<1> DEFINE b == S!Home(th)
<1>0. /\ S!TypeOK /\ run \in [Threads -> ThreadStates] /\ ThreadKnows(th)
      /\ b \in Browsers /\ TabOf[th] \in Tabs
  BY InvTypes, HomeIs
<1>1. run[th].pc = "denied" /\ run[th].kind \notin Signing
  BY <1>0 DEF S!Renew, ThreadKnows
<1>2. UNCHANGED <<live, owner, cookie, access, epoch, era, late, status, view, shown, stored,
                  visits, lost, events>>
  BY DEF S!Renew, S!server, S!browser, S!counts
<1>3. renewing' \in [Tabs -> Threads \cup {NoThread}]
  BY <1>0 DEF S!Renew, S!TypeOK
<1>4. CASE S!Go(th, "wait") /\ UNCHANGED <<renewing, kept>>
  <2>1. /\ run' \in [Threads -> ThreadStates] /\ \A o \in Threads \ {th} : run'[o] = run[o]
        /\ run'[th].tok = run[th].tok /\ run'[th].new = run[th].new /\ run'[th].pc = "wait"
        /\ run'[th].kind = run[th].kind /\ run'[th].retried = run[th].retried
    BY <1>0, <1>4, GoFacts DEF S!Steps
  <2>2. S!TypeOK'
    BY <1>0, <1>2, <1>4, <2>1, TypeFacts, ThreadTypes
  <2>3. ThreadKnows(th)' /\ Quiet(th)
    BY <1>1, <2>1 DEF ThreadKnows, Quiet, S!Refreshing, Signing
  <2> QED BY <1>2, <1>4, <2>1, <2>2, <2>3, QuietStep
<1>5. CASE S!SendRefresh(th)
  <2>1. cookie[b] \in Tokens \cup {NoToken}
    BY <1>0, TypeFacts
  <2>2. run' = [run EXCEPT ![th] = [@ EXCEPT !.pc = "lookup", !.tok = cookie[b]]]
    BY <1>5 DEF S!SendRefresh
  <2>3. /\ run' \in [Threads -> ThreadStates] /\ \A o \in Threads \ {th} : run'[o] = run[o]
        /\ run'[th].tok = cookie[b] /\ run'[th].new = run[th].new /\ run'[th].pc = "lookup"
        /\ run'[th].kind = run[th].kind /\ run'[th].retried = run[th].retried
    BY <1>0, <2>1, <2>2 DEF ThreadStates, S!Steps
  <2>4. /\ kept' \in [Browsers -> {"no", "yes", "told"}]
        /\ kept'[b] = "yes" => S!Rivals(th, cookie[b], {"issue", "issued"}) = {}
        /\ \A c \in Browsers : kept'[c] = "yes" => kept[c] = "yes"
    BY <1>0, <1>5, TypeFacts DEF S!SendRefresh, S!Forget
  <2>5. S!TypeOK'
    BY <1>0, <1>2, <1>3, <2>3, <2>4 DEF S!TypeOK, ThreadStates
  <2>6. \A o \in Threads : ThreadKnows(o)'
    BY <1>1, <1>2, <2>3, InvTypes DEF ThreadKnows
  <2>7. OneHolder'
    <3>1. \A o \in Threads : Holds(S!Home(o), run[o].tok) /\ Holds(S!Home(o), run[o].new)
      BY DEF Holds
    <3>2. Holds(b, cookie[b]) /\ \A c \in Browsers : Holds(c, cookie'[c])
      BY <1>2 DEF Holds
    <3>3. ASSUME NEW o \in Threads
          PROVE  /\ run'[o].tok = NoToken \/ Holds(S!Home(o), run'[o].tok)
                 /\ run'[o].new = NoToken \/ Holds(S!Home(o), run'[o].new)
      <4>1. CASE o = th
        BY <2>3, <3>1, <3>2, <4>1
      <4>2. CASE o # th
        BY <2>3, <3>1, <4>2
      <4> QED BY <4>1, <4>2
    <3> QED BY <3>2, <3>3, HoldersKept DEF FromHome, SessionsInv
  <2>71. NewIsOwn'
    <3>1. \A o \in Threads : run'[o].new = run[o].new
      BY <2>3
    <3>2. \A o \in Threads : run'[o].tok \in {run[o].tok, cookie[S!Home(o)]}
      BY <2>3
    <3> QED BY <1>2, <3>1, <3>2, OwnKept DEF SessionsInv
  <2>8. LiveOwned' /\ AccessOwned' /\ S!EndedSessionsEnd'
    BY <1>2 DEF SessionsInv, LiveOwned, AccessOwned, S!EndedSessionsEnd
  <2>9. ASSUME NEW c \in Browsers, kept'[c] = "yes" PROVE SessionHolds(c)'
    <3>1. SessionHolds(c)
      BY <2>4, <2>9 DEF SessionsInv
    <3>2. CASE c = b
      <4>0. S!Rivals(th, cookie[b], {"issue", "issued"}) = {} /\ NoThread \notin Threads
        BY <2>4, <2>9, <3>2 DEF S!SessionConstants
      <4>1. \/ run[th].kind = "boot" /\ renewing' = renewing
            \/ /\ run[th].kind # "boot" /\ renewing[TabOf[th]] = NoThread
               /\ renewing' = [renewing EXCEPT ![TabOf[th]] = th]
        <5>1. ~S!Go(th, "wait")
          BY <1>0, <2>3, GoFacts DEF S!Steps
        <5> QED BY <5>1 DEF S!Renew
      <4>2. renewing \in [Tabs -> Threads \cup {NoThread}]
        BY <1>0 DEF S!TypeOK
      <4>3. ASSUME NEW o \in Threads, o # th, S!Home(o) = b, S!Refreshing(o)
            PROVE  RefreshHolds(o) /\ RefreshKept(o) /\ ~S!SameParty(th, o)
        <5>1. RefreshHolds(o)
          BY <3>1, <3>2, <4>3 DEF SessionHolds
        <5>2. ~S!SameParty(th, o)
          <6>1. CASE run[th].kind = "boot"
            BY <3>1, <3>2, <4>3, <6>1 DEF S!SameParty, SessionHolds, OneBoot
          <6>2. CASE run[th].kind # "boot"
            BY <4>0, <4>1, <5>1, <6>2 DEF S!SameParty, RefreshHolds
          <6> QED BY <6>1, <6>2
        <5>3. run[o].kind = "boot" \/ renewing'[TabOf[o]] = renewing[TabOf[o]]
          BY <1>0, <4>1, <4>2, <5>2 DEF S!SameParty, S!SessionConstants
        <5> QED BY <1>2, <5>1, <5>2, <5>3 DEF RefreshKept
      <4>4. ~Bringing(b)
        <5>1. ASSUME NEW o \in Threads, S!Home(o) = b, run[o].kind \notin Signing,
                     run[o].pc \in {"issue", "issued"}, run[o].tok = cookie[b]
              PROVE  FALSE
          <6>1. S!Refreshing(o) /\ o # th
            BY <1>1, <5>1 DEF S!Refreshing, Signing
          <6>2. ~S!SameParty(th, o)
            BY <4>3, <5>1, <6>1
          <6> QED BY <4>0, <5>1, <6>2 DEF S!Rivals
        <5> QED BY <5>1 DEF Bringing
      <4>5. cookie[b] \in live
        BY <3>1, <3>2, <4>4 DEF SessionHolds
      <4>6. RefreshHolds(th)'
        <5>1. S!Home(th)' = b
          BY DEF S!Home
        <5>2. run'[th].kind = "boot" \/ renewing'[TabOf[th]] = th
          BY <1>0, <2>3, <4>1, <4>2
        <5>3. cookie[b] \in Tokens
          BY <3>1, <3>2 DEF SessionHolds
        <5> HIDE DEF b
        <5> QED BY <1>2, <2>3, <4>5, <5>1, <5>2, <5>3 DEF RefreshHolds
      <4>7. \A o \in Threads \ {th} : S!Home(o) = b /\ S!Refreshing(o) => RefreshKept(o)
        BY <4>3
      <4> QED BY <1>0, <1>1, <1>2, <2>3, <3>1, <3>2, <4>5, <4>6, <4>7, OwnRefresh
    <3>3. CASE c # b
      <4>1. \A o \in Threads : S!Home(o) = c => run'[o] = run[o]
        BY <2>3, <3>3
      <4>2. \A t \in Tabs : t # TabOf[th] => renewing'[t] = renewing[t]
        BY <1>0 DEF S!Renew, S!TypeOK
      <4> QED BY <1>2, <3>1, <3>3, <4>1, <4>2, ElsewhereQuiet
    <3> QED BY <3>2, <3>3
  <2> QED BY <2>5, <2>6, <2>7, <2>71, <2>8, <2>9 DEF SessionsInv
<1> QED BY <1>4, <1>5 DEF S!Renew

\* The look-up finds the token of a session that the person may expect.
LEMMA LookUpKeeps ==
    ASSUME S!SessionConstants, SessionsInv, NEW th \in Threads, S!LookUp(th)
    PROVE  SessionsInv'
<1> DEFINE b == S!Home(th)  k == run[th].tok
<1>0. /\ S!TypeOK /\ run \in [Threads -> ThreadStates] /\ ThreadKnows(th) /\ b \in Browsers
  BY InvTypes, HomeIs
<1>1. run[th].pc = "lookup" /\ run[th].kind \notin Signing
  BY <1>0 DEF S!LookUp, ThreadKnows
<1>2. UNCHANGED <<live, owner, cookie, access, epoch, era, late, status, view, shown, stored,
                  renewing, kept, visits, lost, events>>
  BY DEF S!LookUp, S!server, S!browser, S!counts, S!tabs
<1>3. /\ run' \in [Threads -> ThreadStates] /\ \A o \in Threads \ {th} : run'[o] = run[o]
      /\ run'[th].tok = k /\ run'[th].new = run[th].new
      /\ run'[th].kind = run[th].kind /\ run'[th].retried = run[th].retried
      /\ IF k \in live /\ S!Active(owner[k])
         THEN run'[th].pc = "revoke" /\ run'[th].acct = owner[k]
         ELSE run'[th].pc = "refused"
  <2>1. CASE k \in live /\ S!Active(owner[k])
    <3>1. owner[k] \in Accounts /\ era[k] \in Nat
      BY <1>0, <2>1 DEF S!TypeOK, S!Active
    <3>2. run' = [run EXCEPT ![th] = [@ EXCEPT !.pc = "revoke", !.acct = owner[k], !.era = era[k]]]
      BY <2>1 DEF S!LookUp
    <3> QED BY <1>0, <2>1, <3>1, <3>2 DEF ThreadStates, S!Steps
  <2>2. CASE ~(k \in live /\ S!Active(owner[k]))
    <3>1. S!Go(th, "refused")
      BY <2>2 DEF S!LookUp
    <3> QED BY <1>0, <2>2, <3>1, GoFacts DEF S!Steps
  <2> QED BY <2>1, <2>2
<1>4. S!TypeOK'
  BY <1>0, <1>2, <1>3, TypeFacts, ThreadTypes
<1>5. ThreadKnows(th)'
  <2>1. k \in live => k \in Tokens
    BY <1>0 DEF S!TypeOK
  <2>2. k \in live /\ S!Active(owner[k]) => owner[k] \in Accounts
    BY <1>0, <2>1 DEF S!TypeOK, S!Active
  <2> QED BY <1>1, <1>2, <1>3, <2>1, <2>2 DEF ThreadKnows
<1>6. \A o \in Threads : ThreadKnows(o)'
  BY <1>2, <1>3, <1>5, InvTypes DEF ThreadKnows
<1>7. OneHolder' /\ NewIsOwn'
  BY <1>2, <1>3, ThreadFromHome, HoldersKept, ThreadOwnKept DEF SessionsInv
<1>8. LiveOwned' /\ AccessOwned' /\ S!EndedSessionsEnd'
  BY <1>2 DEF SessionsInv, LiveOwned, AccessOwned, S!EndedSessionsEnd
<1>9. ASSUME NEW c \in Browsers, kept'[c] = "yes" PROVE SessionHolds(c)'
  <2>1. SessionHolds(c)
    BY <1>2, <1>9 DEF SessionsInv
  <2>2. CASE c = b
    <3>0. S!Refreshing(th)
      BY <1>1 DEF S!Refreshing, Signing
    <3>1. RefreshHolds(th) /\ S!Active(owner[cookie[b]])
      BY <2>1, <2>2, <3>0 DEF SessionHolds
    <3>2. k \in live /\ S!Active(owner[k])
      BY <1>1, <3>1 DEF RefreshHolds
    <3>3. run'[th].pc = "revoke"
      BY <1>3, <3>2
    <3>4. RefreshHolds(th)'
      BY <1>2, <1>3, <3>1, <3>3 DEF RefreshHolds, S!Home
    <3>5. cookie[b] \in live' \/ Bringing(b)'
      <4>1. CASE cookie[b] \in live
        BY <1>2, <4>1
      <4>2. ASSUME NEW o \in Threads, S!Home(o) = b, run[o].kind \notin Signing,
                   run[o].pc \in {"issue", "issued"}, run[o].tok = cookie[b]
            PROVE  Bringing(b)'
        BY <1>1, <1>2, <1>3, <4>2 DEF Bringing, S!Home
      <4> QED BY <2>1, <2>2, <4>1, <4>2 DEF SessionHolds, Bringing
    <3>6. \A o \in Threads \ {th} : RefreshKept(o)
      BY <1>2 DEF RefreshKept
    <3> QED BY <1>0, <1>2, <1>3, <2>1, <2>2, <3>3, <3>4, <3>5, <3>6, OwnRefresh
  <2>3. CASE c # b
    <3>1. \A o \in Threads : S!Home(o) = c => run'[o] = run[o]
      BY <1>3, <2>3
    <3> QED BY <1>2, <2>1, <2>3, <3>1, ElsewhereQuiet
  <2> QED BY <2>2, <2>3
<1> QED BY <1>4, <1>6, <1>7, <1>8, <1>9 DEF SessionsInv

\* The token revoked is the browser's own.
LEMMA RevokeKeeps ==
    ASSUME S!SessionConstants, SessionsInv, NEW th \in Threads, S!Revoke(th)
    PROVE  SessionsInv'
<1> DEFINE b == S!Home(th)  k == run[th].tok
<1>0. /\ S!TypeOK /\ run \in [Threads -> ThreadStates] /\ ThreadKnows(th) /\ b \in Browsers
  BY InvTypes, HomeIs
<1>1. /\ run[th].pc = "revoke" /\ run[th].kind \notin Signing
      /\ k \in Tokens /\ owner[k] = run[th].acct /\ run[th].acct \in Accounts
  BY <1>0 DEF S!Revoke, ThreadKnows
<1>2. UNCHANGED <<owner, cookie, access, epoch, era, late, status, view, shown, stored,
                  renewing, visits, lost, events>> /\ live' = live \ {k}
  BY DEF S!Revoke, S!browser, S!counts, S!tabs
<1>3. /\ run' \in [Threads -> ThreadStates] /\ \A o \in Threads \ {th} : run'[o] = run[o]
      /\ run'[th].tok = k /\ run'[th].new = run[th].new /\ run'[th].acct = run[th].acct
      /\ run'[th].kind = run[th].kind /\ run'[th].retried = run[th].retried
      /\ run'[th].pc = "issue"
  BY <1>0, GoFacts DEF S!Revoke, S!Steps
<1>31. /\ kept' \in [Browsers -> {"no", "yes", "told"}]
       /\ kept'[b] = "yes" => S!Rivals(th, k, {"lookup"}) = {}
       /\ \A c \in Browsers : kept'[c] = "yes" => kept[c] = "yes"
  BY <1>0, TypeFacts DEF S!Revoke, S!Forget
<1>4. S!TypeOK'
  BY <1>0, <1>2, <1>3, <1>31 DEF S!TypeOK, ThreadStates
<1>5. ThreadKnows(th)'
  BY <1>1, <1>2, <1>3 DEF ThreadKnows
<1>6. \A o \in Threads : ThreadKnows(o)'
  BY <1>2, <1>3, <1>5, InvTypes DEF ThreadKnows
<1>7. OneHolder' /\ NewIsOwn'
  BY <1>2, <1>3, ThreadFromHome, HoldersKept, ThreadOwnKept DEF SessionsInv
<1>8. LiveOwned' /\ AccessOwned' /\ S!EndedSessionsEnd'
  BY <1>2 DEF SessionsInv, LiveOwned, AccessOwned, S!EndedSessionsEnd
<1>9. ASSUME NEW c \in Browsers, kept'[c] = "yes" PROVE SessionHolds(c)'
  <2>1. SessionHolds(c)
    BY <1>31, <1>9 DEF SessionsInv
  <2>2. CASE c = b
    <3>0. S!Refreshing(th)
      BY <1>1 DEF S!Refreshing, Signing
    <3>1. RefreshHolds(th) /\ S!Rivals(th, k, {"lookup"}) = {}
      BY <1>31, <1>9, <2>1, <2>2, <3>0 DEF SessionHolds
    <3>2. RefreshHolds(th)'
      BY <1>2, <1>3, <3>1 DEF RefreshHolds, S!Home
    <3>3. cookie[b] \in live' \/ Bringing(b)'
      <4>1. CASE cookie[b] \in live /\ cookie[b] # k
        BY <1>2, <4>1
      <4>2. CASE cookie[b] = k
        BY <1>1, <1>2, <1>3, <4>2 DEF Bringing, S!Home
      <4>3. ASSUME NEW o \in Threads, S!Home(o) = b, run[o].kind \notin Signing,
                   run[o].pc \in {"issue", "issued"}, run[o].tok = cookie[b]
            PROVE  Bringing(b)'
        BY <1>1, <1>2, <1>3, <4>3 DEF Bringing, S!Home
      <4> QED BY <2>1, <2>2, <4>1, <4>2, <4>3 DEF SessionHolds, Bringing
    <3>4. ASSUME NEW o \in Threads, o # th, S!Home(o) = b, S!Refreshing(o) PROVE RefreshKept(o)
      <4>1. ~S!SameParty(th, o)
        BY <1>0, <2>1, <2>2, <3>0, <3>4, PartyAlone
      <4>2. run[o].pc = "lookup" => run[o].tok # k
        BY <3>1, <3>4, <4>1 DEF S!Rivals
      <4>3. run[o].new # k
        BY <1>1 DEF SessionsInv, NewIsOwn, S!SessionConstants
      <4> QED BY <1>2, <4>2, <4>3 DEF RefreshKept
    <3>5. \A o \in Threads \ {th} : S!Home(o) = b /\ S!Refreshing(o) => RefreshKept(o)
      BY <3>4
    <3> QED BY <1>0, <1>2, <1>3, <2>1, <2>2, <3>2, <3>3, <3>5, OwnRefresh
  <2>3. CASE c # b
    <3>1. \A o \in Threads : S!Home(o) = c => run'[o] = run[o]
      BY <1>3, <2>3
    <3>2. Holds(b, k) /\ OneHolder
      BY DEF Holds, SessionsInv
    <3>3. cookie[c] # k /\ \A o \in Threads : S!Home(o) = c => run[o].tok # k /\ run[o].new # k
      BY <1>0, <1>1, <2>3, <3>2, OtherTokens
    <3> QED BY <1>2, <2>1, <2>3, <3>1, <3>3, ElsewhereQuiet
  <2> QED BY <2>2, <2>3
<1> QED BY <1>4, <1>6, <1>7, <1>8, <1>9 DEF SessionsInv

\* A token that is issued is one that nobody holds.
LEMMA IssueKeeps ==
    ASSUME S!SessionConstants, SessionsInv, NEW th \in Threads, S!Issue(th)
    PROVE  SessionsInv'
<1> DEFINE b == S!Home(th)  a == run[th].acct
<1>0. /\ S!TypeOK /\ run \in [Threads -> ThreadStates] /\ ThreadKnows(th) /\ b \in Browsers
  BY InvTypes, HomeIs
<1>1. /\ run[th].pc = "issue" /\ a \in Accounts
      /\ run[th].kind \notin Signing => run[th].tok \in Tokens /\ owner[run[th].tok] = a
  BY <1>0 DEF S!Issue, ThreadKnows
<1>2. UNCHANGED <<cookie, access, epoch, status, view, shown, stored,
                  renewing, kept, visits, lost, events>>
  BY DEF S!Issue, S!browser, S!counts, S!tabs
<1>3. PICK k \in S!Fresh :
        /\ live' = live \cup {k}
        /\ owner' = [owner EXCEPT ![k] = a]
        /\ era' = [era EXCEPT ![k] = run[th].era]
        /\ late' = IF run[th].era # epoch[a] THEN late \cup {k} ELSE late \ {k}
        /\ run' = [run EXCEPT ![th] = [@ EXCEPT !.pc = "issued", !.new = k]]
  <2>1. (CHOOSE k \in S!Fresh : TRUE) \in S!Fresh
    BY DEF S!Issue
  <2> QED BY <2>1 DEF S!Issue
<1>4. /\ k \in Tokens /\ k \notin live
      /\ \A c \in Browsers : cookie[c] # k
      /\ \A o \in Threads : run[o].tok # k /\ run[o].new # k
  BY DEF S!Fresh, S!Referenced
<1>5. /\ run' \in [Threads -> ThreadStates] /\ \A o \in Threads \ {th} : run'[o] = run[o]
      /\ run'[th].tok = run[th].tok /\ run'[th].new = k /\ run'[th].acct = a
      /\ run'[th].kind = run[th].kind /\ run'[th].retried = run[th].retried
      /\ run'[th].pc = "issued"
  BY <1>0, <1>3, <1>4 DEF ThreadStates, S!Steps
<1>6. /\ owner' \in [Tokens -> Accounts \cup {Nobody}] /\ owner'[k] = a
      /\ \A x \in Tokens \ {k} : owner'[x] = owner[x]
  BY <1>0, <1>1, <1>3, <1>4 DEF S!TypeOK
<1>7. /\ era' \in [Tokens -> Nat] /\ era'[k] = run[th].era
      /\ \A x \in Tokens \ {k} : era'[x] = era[x]
  <2>1. run[th].era \in Nat
    BY <1>0 DEF ThreadStates
  <2> QED BY <1>0, <1>3, <1>4, <2>1 DEF S!TypeOK
<1>8. live' \subseteq Tokens /\ late' \subseteq Tokens
  BY <1>0, <1>3, <1>4 DEF S!TypeOK
<1>9. S!TypeOK'
  BY <1>0, <1>2, <1>5, <1>6, <1>7, <1>8 DEF S!TypeOK, ThreadStates
<1>10. \A o \in Threads : ThreadKnows(o)'
  <2>1. ThreadKnows(th)'
    BY <1>1, <1>4, <1>5, <1>6 DEF ThreadKnows
  <2>2. ASSUME NEW o \in Threads, o # th PROVE ThreadKnows(o)'
    BY <1>4, <1>5, <1>6, <2>2, InvTypes DEF ThreadKnows
  <2> QED BY <2>1, <2>2
<1>11. OneHolder'
  <2>1. ASSUME NEW c \in Browsers, NEW x \in Tokens, Holds(c, x)'
        PROVE  IF x = k THEN c = b ELSE Holds(c, x)
    <3>1. CASE cookie'[c] = x
      BY <1>2, <1>4, <3>1 DEF Holds
    <3>2. ASSUME NEW o \in Threads, S!Home(o) = c, run'[o].tok = x \/ run'[o].new = x
          PROVE  IF x = k THEN c = b ELSE Holds(c, x)
      <4>1. CASE o = th
        BY <1>4, <1>5, <3>2, <4>1 DEF Holds
      <4>2. CASE o # th
        BY <1>4, <1>5, <3>2, <4>2 DEF Holds
      <4> QED BY <4>1, <4>2
    <3> QED BY <2>1, <3>1, <3>2 DEF Holds, S!Home
  <2> QED BY <2>1 DEF OneHolder, SessionsInv
<1>111. NewIsOwn'
  <2>1. ASSUME NEW o \in Threads, run'[o].new # NoToken
        PROVE  /\ \A c \in Browsers : cookie'[c] # run'[o].new
               /\ \A x \in Threads : run'[x].tok # run'[o].new
               /\ \A x \in Threads \ {o} : run'[x].new # run'[o].new
    <3>1. CASE o = th
      BY <1>2, <1>4, <1>5, <3>1
    <3>2. CASE o # th
      <4>1. /\ \A c \in Browsers : cookie[c] # run[o].new
            /\ \A x \in Threads : run[x].tok # run[o].new
            /\ \A x \in Threads \ {o} : run[x].new # run[o].new
        BY <1>5, <2>1, <3>2 DEF SessionsInv, NewIsOwn
      <4> QED BY <1>2, <1>4, <1>5, <3>2, <4>1
    <3> QED BY <3>1, <3>2
  <2> QED BY <2>1 DEF NewIsOwn
<1>12. LiveOwned' /\ S!EndedSessionsEnd'
  <2>1. \A x \in live : x \in Tokens /\ x # k
    BY <1>0, <1>4 DEF S!TypeOK
  <2>2. LiveOwned'
    BY <1>1, <1>3, <1>6, <2>1 DEF LiveOwned, SessionsInv
  <2>3. ASSUME NEW x \in live' PROVE era'[x] = epoch'[owner'[x]] \/ x \in late'
    <3>1. CASE x = k
      BY <1>2, <1>3, <1>6, <1>7, <3>1
    <3>2. CASE x # k
      BY <1>2, <1>3, <1>6, <1>7, <2>1, <3>2 DEF SessionsInv, S!EndedSessionsEnd
    <3> QED BY <3>1, <3>2
  <2> QED BY <2>2, <2>3 DEF S!EndedSessionsEnd
<1>13. AccessOwned'
  BY <1>2, <1>4, <1>6 DEF AccessOwned, SessionsInv
<1>14. ASSUME NEW c \in Browsers, kept'[c] = "yes" PROVE SessionHolds(c)'
  <2>1. SessionHolds(c)
    BY <1>2, <1>14 DEF SessionsInv
  <2>2. cookie[c] \in Tokens /\ cookie[c] # k /\ owner'[cookie[c]] = owner[cookie[c]]
    BY <1>4, <1>6, <2>1 DEF SessionHolds
  <2>3. status'[owner[cookie[c]]] = "active"
    BY <1>2, <2>1 DEF SessionHolds, S!Active
  <2>4. live \subseteq live'
    BY <1>3
  <2>41. ASSUME NEW o \in Threads, S!Home(o) = c, S!Refreshing(o)
         PROVE  RefreshHolds(o) /\ RefreshKept(o)
    <3>1. RefreshHolds(o)
      BY <2>1, <2>41 DEF SessionHolds
    <3>2. owner'[run[o].tok] = owner[run[o].tok]
      BY <1>4, <1>6, <3>1 DEF RefreshHolds
    <3> QED BY <1>2, <2>4, <3>1, <3>2 DEF RefreshKept
  <2>42. OneBoot(c)'
    <3>1. OneBoot(c) /\ \A o \in Threads : run'[o].kind = run[o].kind
      BY <1>5, <2>1 DEF SessionHolds
    <3> QED BY <3>1, BootsKept
  <2>5. CASE c # b \/ run[th].kind \in Signing
    <3>1. \A o \in Threads : S!Home(o) = c => run'[o] = run[o] \/ Quiet(o)
      BY <1>1, <1>5, <2>5 DEF Quiet, S!Refreshing, Signing
    <3> QED BY <1>2, <2>1, <2>2, <2>3, <2>4, <2>41, <2>42, <3>1, SessionQuiet
  <2>6. CASE c = b /\ run[th].kind \notin Signing
    <3>0. S!Refreshing(th)
      BY <1>1, <2>6 DEF S!Refreshing, Signing
    <3>1. RefreshHolds(th) /\ k \in live'
      BY <1>3, <2>41, <2>6, <3>0
    <3>2. RefreshHolds(th)'
      <4>1. run[th].tok \in Tokens /\ run[th].tok # k
        BY <1>4, <3>1 DEF RefreshHolds
      <4> QED BY <1>2, <1>5, <1>6, <2>2, <2>6, <3>1, <4>1 DEF RefreshHolds, S!Home
    <3>3. cookie[b] \in live' \/ Bringing(b)'
      <4>1. CASE cookie[b] \in live
        BY <2>4, <4>1
      <4>2. ASSUME NEW o \in Threads, S!Home(o) = b, run[o].kind \notin Signing,
                   run[o].pc \in {"issue", "issued"}, run[o].tok = cookie[b]
            PROVE  Bringing(b)'
        <5>1. /\ run'[o].kind = run[o].kind /\ run'[o].tok = run[o].tok
              /\ run'[o].pc \in {"issue", "issued"}
          BY <1>5, <4>2
        <5> QED BY <1>2, <4>2, <5>1 DEF Bringing, S!Home
      <4> QED BY <2>1, <2>6, <4>1, <4>2 DEF SessionHolds, Bringing
    <3>4. \A o \in Threads \ {th} : S!Home(o) = b /\ S!Refreshing(o) => RefreshKept(o)
      BY <2>41, <2>6
    <3> QED BY <1>0, <1>2, <1>5, <2>1, <2>2, <2>6, <3>2, <3>3, <3>4, OwnRefresh
  <2> QED BY <2>5, <2>6
<1> QED BY <1>9, <1>10, <1>11, <1>111, <1>12, <1>13, <1>14 DEF SessionsInv

-----------------------------------------------------------------------------
\* Those who share a refresh are threads of one tab; those that wait do not refresh.
LEMMA SharersFacts ==
    ASSUME NEW th \in Threads
    PROVE  /\ S!Sharers(th) \subseteq Threads /\ th \in S!Sharers(th)
           /\ \A o \in S!Sharers(th) : S!Home(o) = S!Home(th) /\ (o = th \/ run[o].pc = "wait")
BY DEF S!Sharers, S!Siblings, S!Home

\* The threads after an answer: those who shared it start again.
LEMMA AnswerFacts ==
    ASSUME run \in [Threads -> ThreadStates], NEW th \in Threads, NEW p \in S!Steps,
           NEW x \in BOOLEAN,
           run' = [o \in Threads |-> IF o \in S!Sharers(th)
                                     THEN [S!Idle EXCEPT !.pc = p, !.kind = run[o].kind, !.retried = x]
                                     ELSE run[o]]
    PROVE  /\ run' \in [Threads -> ThreadStates]
           /\ \A o \in Threads :
                IF o \in S!Sharers(th)
                THEN /\ run'[o].pc = p /\ run'[o].kind = run[o].kind /\ run'[o].retried = x
                     /\ run'[o].tok = NoToken /\ run'[o].new = NoToken
                ELSE run'[o] = run[o]
<1>1. ASSUME NEW o \in Threads
      PROVE  LET r == [S!Idle EXCEPT !.pc = p, !.kind = run[o].kind, !.retried = x] IN
             /\ r \in ThreadStates
             /\ r.pc = p /\ r.kind = run[o].kind /\ r.retried = x
             /\ r.tok = NoToken /\ r.new = NoToken
  <2>1. run[o].kind \in S!CallKinds
    BY DEF ThreadStates
  <2> QED BY <2>1 DEF S!Idle, ThreadStates, S!Steps
<1>2. ASSUME NEW o \in Threads
      PROVE  /\ run'[o] \in ThreadStates
             /\ IF o \in S!Sharers(th)
                THEN /\ run'[o].pc = p /\ run'[o].kind = run[o].kind /\ run'[o].retried = x
                     /\ run'[o].tok = NoToken /\ run'[o].new = NoToken
                ELSE run'[o] = run[o]
  <2>1. CASE o \in S!Sharers(th)
    <3>1. run'[o] = [S!Idle EXCEPT !.pc = p, !.kind = run[o].kind, !.retried = x]
      BY <2>1
    <3> QED BY <1>1, <2>1, <3>1
  <2>2. CASE o \notin S!Sharers(th)
    BY <2>2
  <2> QED BY <2>1, <2>2
<1>3. run' = [o \in Threads |-> run'[o]]
  OBVIOUS
<1> QED BY <1>2, <1>3

LEMMA SettledType ==
    ASSUME S!TypeOK, NEW th \in Threads
    PROVE  S!Settled(th) \in [Tabs -> Threads \cup {NoThread}]
BY DEF S!Settled, S!TypeOK

\* What the threads that share hold goes, or becomes the cookie.
LEMMA SharersFromHome ==
    ASSUME NEW th \in Threads,
           \A c \in Browsers : cookie'[c] = cookie[c] \/ cookie'[c] = NoToken
                                 \/ (c = S!Home(th) /\ cookie'[c] = run[th].new),
           \A o \in Threads : run'[o] = run[o] \/ (run'[o].tok = NoToken /\ run'[o].new = NoToken)
    PROVE  FromHome
<1>1. \A o \in Threads : Holds(S!Home(o), run[o].tok) /\ Holds(S!Home(o), run[o].new)
  BY DEF Holds
<1>2. \A c \in Browsers : Holds(c, cookie[c])
  BY DEF Holds
<1>3. \A c \in Browsers : cookie'[c] = NoToken \/ Holds(c, cookie'[c])
  BY <1>1, <1>2
<1>4. ASSUME NEW o \in Threads
      PROVE  /\ run'[o].tok = NoToken \/ Holds(S!Home(o), run'[o].tok)
             /\ run'[o].new = NoToken \/ Holds(S!Home(o), run'[o].new)
  BY <1>1
<1> QED BY <1>3, <1>4 DEF FromHome

\* The answer of a refresh brings the next token of the session.
LEMMA RenewedKeeps ==
    ASSUME S!SessionConstants, SessionsInv, NEW th \in Threads, S!Renewed(th)
    PROVE  SessionsInv'
<1> DEFINE b == S!Home(th)  a == run[th].acct  k == run[th].new
<1>0. /\ S!TypeOK /\ run \in [Threads -> ThreadStates] /\ b \in Browsers
      /\ \A o \in Threads : ThreadKnows(o)
  BY InvTypes, HomeIs
<1>1. /\ run[th].pc = "issued" /\ run[th].kind \notin Signing /\ a \in Accounts
      /\ k \in Tokens /\ owner[k] = a /\ run[th].tok \in Tokens /\ owner[run[th].tok] = a
  BY <1>0 DEF S!Renewed, ThreadKnows, Signing
<1>2. UNCHANGED <<live, owner, epoch, era, late, status, view, shown, stored,
                  kept, visits, lost, events>>
  BY DEF S!Renewed, S!server, S!counts
<1>3. /\ cookie' = [cookie EXCEPT ![b] = k] /\ access' = [access EXCEPT ![b] = a]
      /\ renewing' \in [Tabs -> Threads \cup {NoThread}]
  BY <1>0, SettledType DEF S!Renewed
<1>4. /\ cookie' \in [Browsers -> Tokens \cup {NoToken}] /\ cookie'[b] = k
      /\ access' \in [Browsers -> Accounts \cup {Nobody}] /\ access'[b] = a
      /\ \A c \in Browsers \ {b} : cookie'[c] = cookie[c] /\ access'[c] = access[c]
  BY <1>0, <1>1, <1>3, TypeFacts
<1>5. /\ run' \in [Threads -> ThreadStates]
      /\ \A o \in Threads :
           IF o \in S!Sharers(th)
           THEN /\ run'[o].pc = "ask" /\ run'[o].kind = run[o].kind /\ run'[o].retried = TRUE
                /\ run'[o].tok = NoToken /\ run'[o].new = NoToken
           ELSE run'[o] = run[o]
  <2>1. run' = [o \in Threads |-> IF o \in S!Sharers(th)
                      THEN [S!Idle EXCEPT !.pc = "ask", !.kind = run[o].kind, !.retried = TRUE]
                      ELSE run[o]]
    BY DEF S!Renewed
  <2> QED BY <1>0, <2>1, AnswerFacts DEF S!Steps
<1>6. S!TypeOK'
  BY <1>0, <1>2, <1>3, <1>4, <1>5 DEF S!TypeOK, ThreadStates
<1>7. ASSUME NEW o \in Threads PROVE ThreadKnows(o)'
  <2>1. CASE o \in S!Sharers(th)
    <3>1. run[o].kind \notin Signing
      BY <1>0, <1>1, <2>1, SharersFacts DEF ThreadKnows
    <3> QED BY <1>5, <2>1, <3>1 DEF ThreadKnows
  <2>2. CASE o \notin S!Sharers(th)
    BY <1>0, <1>2, <1>5, <2>2 DEF ThreadKnows
  <2> QED BY <2>1, <2>2
<1>80. \A o \in Threads : run'[o] = run[o] \/ (run'[o].tok = NoToken /\ run'[o].new = NoToken)
  BY <1>5
<1>8. OneHolder' /\ NewIsOwn'
  <2>1. run'[th].new = NoToken
    BY <1>5, SharersFacts
  <2>2. \A o \in Threads : /\ run'[o].new \in {NoToken, run[o].new}
                           /\ run'[o].tok \in {NoToken, run[o].tok, cookie[S!Home(o)]}
    BY <1>80
  <2>3. NewIsOwn'
    BY <1>4, <2>1, <2>2, OwnKept DEF SessionsInv
  <2> QED BY <1>4, <1>80, <2>3, SharersFromHome, HoldersKept DEF SessionsInv
<1>9. LiveOwned' /\ S!EndedSessionsEnd'
  BY <1>2 DEF SessionsInv, LiveOwned, S!EndedSessionsEnd
<1>10. AccessOwned'
  BY <1>1, <1>2, <1>4 DEF SessionsInv, AccessOwned
<1>11. ASSUME NEW c \in Browsers, kept'[c] = "yes" PROVE SessionHolds(c)'
  <2>1. SessionHolds(c)
    BY <1>2, <1>11 DEF SessionsInv
  <2>2. CASE c # b
    <3>1. \A o \in Threads : S!Home(o) = c => run'[o] = run[o]
      BY <1>5, <2>2, SharersFacts
    <3>2. \A t \in Tabs : t # TabOf[th] => renewing'[t] = renewing[t]
      BY <1>0 DEF S!Renewed, S!Settled, S!TypeOK
    <3> QED BY <1>2, <1>4, <2>1, <2>2, <3>1, <3>2, ElsewhereQuiet
  <2>3. CASE c = b
    <3>0. S!Refreshing(th)
      BY <1>1 DEF S!Refreshing, Signing
    <3>1. /\ k \in live /\ owner[cookie[b]] = a /\ RefreshHolds(th)
      BY <1>1, <2>1, <2>3, <3>0 DEF SessionHolds, RefreshHolds
    <3>2. cookie'[b] \in Tokens /\ S!Active(owner[cookie[b]])'
      BY <1>1, <1>2, <1>4, <2>1, <2>3, <3>1 DEF SessionHolds, S!Active
    <3>3. ASSUME NEW o \in Threads, S!Home(o) = b
          PROVE  /\ run'[o].pc \notin {"refused", "signout", "signed_out"}
                 /\ run'[o].retried => access'[b] # Nobody
                 /\ S!Refreshing(o)' => RefreshHolds(o)'
      <4>1. access'[b] # Nobody
        BY <1>1, <1>4 DEF S!SessionConstants
      <4>2. CASE o \in S!Sharers(th)
        BY <1>5, <4>1, <4>2 DEF S!Refreshing
      <4>3. CASE o \notin S!Sharers(th)
        <5>1. o # th /\ run'[o] = run[o]
          BY <1>5, <4>3, SharersFacts
        <5>2. ASSUME S!Refreshing(o) PROVE RefreshHolds(o)'
          <6>1. RefreshHolds(o)
            BY <2>1, <2>3, <3>3, <5>2 DEF SessionHolds
          <6>2. run[o].kind = "boot" \/ renewing'[TabOf[o]] = renewing[TabOf[o]]
            <7>1. TabOf[o] \in Tabs /\ renewing \in [Tabs -> Threads \cup {NoThread}]
              BY <1>0, HomeIs DEF S!TypeOK
            <7>2. \/ renewing' = renewing
                  \/ /\ renewing[TabOf[th]] = th
                     /\ renewing' = [renewing EXCEPT ![TabOf[th]] = NoThread]
              BY DEF S!Renewed, S!Settled
            <7> QED BY <5>1, <6>1, <7>1, <7>2 DEF RefreshHolds
          <6>3. RefreshKept(o)
            BY <1>2, <6>2 DEF RefreshKept
          <6>4. owner'[cookie'[S!Home(o)]] = owner[cookie[S!Home(o)]]
            BY <1>1, <1>2, <1>4, <3>1, <3>3
          <6> QED BY <5>1, <6>1, <6>3, <6>4, RefreshStays
        <5>3. S!Refreshing(o)' => S!Refreshing(o)
          BY <5>1 DEF S!Refreshing
        <5>4. run[o].pc \notin {"refused", "signout", "signed_out"}
          BY <2>1, <2>3, <3>3 DEF SessionHolds
        <5> QED BY <4>1, <5>1, <5>2, <5>3, <5>4
      <4> QED BY <4>2, <4>3
    <3>4. OneBoot(b)'
      <4>1. OneBoot(b) /\ \A o \in Threads : run'[o].kind = run[o].kind
        BY <1>5, <2>1, <2>3 DEF SessionHolds
      <4> QED BY <1>0, <4>1, BootsKept
    <3> HIDE DEF b
    <3>5. \A o \in Threads : S!Home(o)' = S!Home(o)
      BY DEF S!Home
    <3> QED BY <1>2, <1>4, <2>3, <3>1, <3>2, <3>3, <3>4, <3>5 DEF SessionHolds
  <2> QED BY <2>2, <2>3
<1> QED BY <1>6, <1>7, <1>8, <1>9, <1>10, <1>11 DEF SessionsInv

LEMMA NotRenewedKeeps ==
    ASSUME S!SessionConstants, SessionsInv, NEW th \in Threads, S!NotRenewed(th)
    PROVE  SessionsInv'
<1> DEFINE b == S!Home(th)
<1>0. /\ S!TypeOK /\ run \in [Threads -> ThreadStates] /\ b \in Browsers
      /\ \A o \in Threads : ThreadKnows(o)
  BY InvTypes, HomeIs
<1>1. run[th].pc = "refused"
  BY DEF S!NotRenewed
<1>2. UNCHANGED <<live, owner, cookie, access, epoch, era, late, status, view, shown, stored,
                  kept, visits, lost, events>>
  BY DEF S!NotRenewed, S!server, S!browser, S!counts
<1>3. renewing' \in [Tabs -> Threads \cup {NoThread}]
  BY <1>0, SettledType DEF S!NotRenewed
<1>4. /\ run' \in [Threads -> ThreadStates]
      /\ \A o \in Threads :
           IF o \in S!Sharers(th)
           THEN run'[o].pc = "signout" /\ run'[o].tok = NoToken /\ run'[o].new = NoToken
           ELSE run'[o] = run[o]
  <2>1. run' = [o \in Threads |-> IF o \in S!Sharers(th)
                      THEN [S!Idle EXCEPT !.pc = "signout", !.kind = run[o].kind]
                      ELSE run[o]]
    BY DEF S!NotRenewed
  <2>2. ASSUME NEW o \in Threads
        PROVE  LET r == [S!Idle EXCEPT !.pc = "signout", !.kind = run[o].kind] IN
               /\ r \in ThreadStates
               /\ r.pc = "signout" /\ r.tok = NoToken /\ r.new = NoToken
    <3>1. run[o].kind \in S!CallKinds
      BY <1>0 DEF ThreadStates
    <3> QED BY <3>1 DEF S!Idle, ThreadStates, S!Steps
  <2>3. ASSUME NEW o \in Threads
        PROVE  /\ run'[o] \in ThreadStates
               /\ IF o \in S!Sharers(th)
                  THEN run'[o].pc = "signout" /\ run'[o].tok = NoToken /\ run'[o].new = NoToken
                  ELSE run'[o] = run[o]
    <3>1. CASE o \in S!Sharers(th)
      <4>1. run'[o] = [S!Idle EXCEPT !.pc = "signout", !.kind = run[o].kind]
        BY <2>1, <3>1
      <4> QED BY <2>2, <3>1, <4>1
    <3>2. CASE o \notin S!Sharers(th)
      BY <1>0, <2>1, <3>2
    <3> QED BY <3>1, <3>2
  <2>4. run' = [o \in Threads |-> run'[o]]
    BY <2>1
  <2> QED BY <2>3, <2>4
<1>5. S!TypeOK'
  BY <1>0, <1>2, <1>3, <1>4 DEF S!TypeOK, ThreadStates
<1>6. \A o \in Threads : ThreadKnows(o)'
  BY <1>0, <1>2, <1>4 DEF ThreadKnows
<1>7. OneHolder' /\ NewIsOwn'
  <2>1. \A o \in Threads : run'[o] = run[o] \/ (run'[o].tok = NoToken /\ run'[o].new = NoToken)
    BY <1>4
  <2>2. \A o \in Threads : /\ run'[o].new \in {NoToken, run[o].new}
                           /\ run'[o].tok \in {NoToken, run[o].tok, cookie[S!Home(o)]}
    BY <2>1
  <2>3. NewIsOwn'
    BY <1>2, <2>2, OwnKept DEF SessionsInv
  <2> QED BY <1>2, <2>1, <2>3, SharersFromHome, HoldersKept DEF SessionsInv
<1>8. LiveOwned' /\ AccessOwned' /\ S!EndedSessionsEnd'
  BY <1>2 DEF SessionsInv, LiveOwned, AccessOwned, S!EndedSessionsEnd
<1>9. ASSUME NEW c \in Browsers, kept'[c] = "yes" PROVE SessionHolds(c)'
  <2>1. SessionHolds(c)
    BY <1>2, <1>9 DEF SessionsInv
  <2>2. c # b
    BY <1>1, <2>1 DEF SessionHolds
  <2>3. \A o \in Threads : S!Home(o) = c => run'[o] = run[o]
    BY <1>4, <2>2, SharersFacts
  <2>4. \A t \in Tabs : t # TabOf[th] => renewing'[t] = renewing[t]
    BY <1>0 DEF S!NotRenewed, S!Settled, S!TypeOK
  <2> QED BY <1>2, <2>1, <2>2, <2>3, <2>4, ElsewhereQuiet
<1> QED BY <1>5, <1>6, <1>7, <1>8, <1>9 DEF SessionsInv

-----------------------------------------------------------------------------
\* Logging out revokes the token of a session that the person gave up.
LEMMA LogOutKeeps ==
    ASSUME S!SessionConstants, SessionsInv, NEW th \in Threads, S!LogOut(th)
    PROVE  SessionsInv'
<1> DEFINE b == S!Home(th)
<1>0. /\ S!TypeOK /\ run \in [Threads -> ThreadStates] /\ b \in Browsers
      /\ \A o \in Threads : ThreadKnows(o)
  BY InvTypes, HomeIs
<1>1. run[th].pc = "signout" /\ live' = live \ {cookie[b]}
  BY DEF S!LogOut
<1>2. UNCHANGED <<owner, cookie, access, epoch, era, late, status, view, shown, stored,
                  renewing, kept, visits, lost, events>>
  BY DEF S!LogOut, S!browser, S!tabs, S!counts
<1>3. /\ run' \in [Threads -> ThreadStates] /\ \A o \in Threads \ {th} : run'[o] = run[o]
      /\ run'[th].tok = run[th].tok /\ run'[th].new = run[th].new /\ run'[th].pc = "signed_out"
  BY <1>0, GoFacts DEF S!LogOut, S!Steps
<1>4. S!TypeOK'
  BY <1>0, <1>1, <1>2, <1>3 DEF S!TypeOK, ThreadStates
<1>5. \A o \in Threads : ThreadKnows(o)'
  BY <1>0, <1>2, <1>3 DEF ThreadKnows
<1>6. OneHolder' /\ NewIsOwn'
  BY <1>2, <1>3, ThreadFromHome, HoldersKept, ThreadOwnKept DEF SessionsInv
<1>7. LiveOwned' /\ AccessOwned' /\ S!EndedSessionsEnd'
  BY <1>1, <1>2 DEF SessionsInv, LiveOwned, AccessOwned, S!EndedSessionsEnd
<1>8. ASSUME NEW c \in Browsers, kept'[c] = "yes" PROVE SessionHolds(c)'
  <2>1. SessionHolds(c)
    BY <1>2, <1>8 DEF SessionsInv
  <2>2. c # b
    BY <1>1, <2>1 DEF SessionHolds
  <2>3. \A o \in Threads : S!Home(o) = c => run'[o] = run[o]
    BY <1>3, <2>2
  <2>4. live \subseteq Tokens
    BY <1>0 DEF S!TypeOK
  <2>5. cookie[b] \in live => /\ cookie[c] # cookie[b]
                             /\ \A o \in Threads : S!Home(o) = c =>
                                  run[o].tok # cookie[b] /\ run[o].new # cookie[b]
    <3>1. Holds(b, cookie[b]) /\ OneHolder
      BY DEF Holds, SessionsInv
    <3> QED BY <1>0, <2>2, <2>4, <3>1, OtherTokens
  <2>6. /\ cookie[c] \in live => cookie[c] \in live'
        /\ \A o \in Threads : S!Home(o) = c => (run[o].tok \in live => run[o].tok \in live')
        /\ \A o \in Threads : S!Home(o) = c => (run[o].new \in live => run[o].new \in live')
    BY <1>1, <2>5
  <2> QED BY <1>2, <2>1, <2>2, <2>3, <2>6, ElsewhereQuiet
<1> QED BY <1>4, <1>5, <1>6, <1>7, <1>8 DEF SessionsInv

\* The browser forgets; with its cookies there still, the shell starts again.
LEMMA LeaveKeeps ==
    ASSUME S!SessionConstants, SessionsInv, NEW th \in Threads,
           run[th].pc \in {"signout", "signed_out"},
           NEW ck \in {NoToken, cookie[S!Home(th)]}, S!Leave(th, ck),
           \/ ck = cookie[S!Home(th)] /\ access' = access
           \/ (ck = NoToken /\ access' = [access EXCEPT ![S!Home(th)] = Nobody]),
           lost' \in 0..MaxLost, UNCHANGED <<visits, events>>
    PROVE  SessionsInv'
<1> DEFINE b == S!Home(th)  booting == [S!Idle EXCEPT !.pc = "ask", !.kind = "boot"]
<1>0. /\ S!TypeOK /\ run \in [Threads -> ThreadStates] /\ b \in Browsers /\ TabOf[th] \in Tabs
      /\ \A o \in Threads : ThreadKnows(o)
  BY InvTypes, HomeIs
<1>1. /\ booting \in ThreadStates /\ booting.pc = "ask" /\ booting.kind = "boot"
      /\ booting.tok = NoToken /\ booting.new = NoToken /\ booting.retried = FALSE
  BY DEF S!Idle, ThreadStates, S!Steps, S!CallKinds
<1>2. UNCHANGED <<live, owner, epoch, era, late, status, renewing, kept>>
  BY DEF S!Leave, S!server
<1>3. run' = [run EXCEPT ![th] = S!Idle] \/ run' = [run EXCEPT ![th] = booting]
  BY DEF S!Leave
<1> HIDE DEF booting
<1>4. /\ run' \in [Threads -> ThreadStates] /\ \A o \in Threads \ {th} : run'[o] = run[o]
      /\ run'[th] = S!Idle \/ run'[th] = booting
  BY <1>0, <1>1, <1>3, IdleFacts
<1>5. /\ cookie' \in [Browsers -> Tokens \cup {NoToken}] /\ cookie'[b] = ck
      /\ \A c \in Browsers \ {b} : cookie'[c] = cookie[c]
  BY <1>0, TypeFacts DEF S!Leave
<1>6. /\ access' \in [Browsers -> Accounts \cup {Nobody}]
      /\ \A c \in Browsers \ {b} : access'[c] = access[c]
      /\ (ck = NoToken /\ access'[b] = Nobody) \/ (ck = cookie[b] /\ access'[b] = access[b])
  BY <1>0, TypeFacts
<1>7. S!TypeOK'
  <2>1. stored' \in [Browsers -> Accounts \cup {Nobody}]
    BY <1>0, TypeFacts DEF S!Leave
  <2>2. shown' \in [Tabs -> Accounts \cup {Nobody}] /\ view' \in [Tabs -> {"login", "page"}]
    BY <1>0, TypeFacts DEF S!Leave, S!PageOrLogin
  <2> QED BY <1>0, <1>2, <1>4, <1>5, <1>6, <2>1, <2>2 DEF S!TypeOK, ThreadStates
<1>8. \A o \in Threads : ThreadKnows(o)'
  BY <1>0, <1>1, <1>2, <1>4, IdleFacts DEF ThreadKnows, Signing
<1>9. OneHolder' /\ NewIsOwn'
  <2>1. \A c \in Browsers : cookie'[c] = cookie[c] \/ cookie'[c] = NoToken
    BY <1>5
  <2>2. \A o \in Threads : run'[o] = run[o] \/ (run'[o].tok = NoToken /\ run'[o].new = NoToken)
    BY <1>1, <1>4, IdleFacts
  <2>3. \A o \in Threads : /\ run'[o].new \in {NoToken, run[o].new}
                           /\ run'[o].tok \in {NoToken, run[o].tok, cookie[S!Home(o)]}
    BY <2>2
  <2>4. NewIsOwn'
    BY <2>1, <2>3, OwnKept DEF SessionsInv
  <2> QED BY <2>1, <2>2, <2>4, SharersFromHome, HoldersKept DEF SessionsInv
<1>10. LiveOwned' /\ S!EndedSessionsEnd'
  BY <1>2 DEF SessionsInv, LiveOwned, S!EndedSessionsEnd
<1>11. AccessOwned'
  <2>2. ASSUME NEW c \in Browsers, access'[c] # Nobody
        PROVE  cookie'[c] \in Tokens /\ owner'[cookie'[c]] = access'[c]
    <3>1. access[c] # Nobody => cookie[c] \in Tokens /\ owner[cookie[c]] = access[c]
      BY DEF SessionsInv, AccessOwned
    <3>2. CASE c # b
      BY <1>2, <1>5, <1>6, <2>2, <3>1, <3>2
    <3>3. CASE c = b
      <4>1. access'[b] = access[b] /\ cookie'[b] = cookie[b]
        BY <1>5, <1>6, <2>2, <3>3
      <4> QED BY <1>2, <2>2, <3>1, <3>3, <4>1
    <3> QED BY <3>2, <3>3
  <2> QED BY <2>2 DEF AccessOwned
<1>12. ASSUME NEW c \in Browsers, kept'[c] = "yes" PROVE SessionHolds(c)'
  <2>1. SessionHolds(c)
    BY <1>2, <1>12 DEF SessionsInv
  <2>2. c # b
    BY <2>1 DEF SessionHolds
  <2>3. \A o \in Threads : S!Home(o) = c => run'[o] = run[o]
    BY <1>4, <2>2
  <2> QED BY <1>2, <1>5, <1>6, <2>1, <2>2, <2>3, ElsewhereQuiet
<1> QED BY <1>7, <1>8, <1>9, <1>10, <1>11, <1>12 DEF SessionsInv

LEMMA SignOutKeeps ==
    ASSUME S!SessionConstants, SessionsInv, NEW th \in Threads, S!SignOut(th) \/ S!LoseLogout(th)
    PROVE  SessionsInv'
<1>0. S!TypeOK
  BY InvTypes
<1>1. CASE S!SignOut(th)
  BY <1>0, <1>1, TypeFacts, LeaveKeeps DEF S!SignOut, S!counts
<1>2. CASE S!LoseLogout(th)
  BY <1>0, <1>2, OneMoreLost, LeaveKeeps DEF S!LoseLogout
<1> QED BY <1>1, <1>2

\* A fresh session.
LEMMA SignedInKeeps ==
    ASSUME S!SessionConstants, SessionsInv, NEW th \in Threads, S!SignedIn(th)
    PROVE  SessionsInv'
<1> DEFINE b == S!Home(th)  a == run[th].acct  k == run[th].new
<1>0. /\ S!TypeOK /\ run \in [Threads -> ThreadStates] /\ b \in Browsers /\ TabOf[th] \in Tabs
      /\ \A o \in Threads : ThreadKnows(o)
  BY InvTypes, HomeIs
<1>1. run[th].pc = "issued" /\ a \in Accounts /\ k \in Tokens /\ owner[k] = a
  BY <1>0 DEF S!SignedIn, ThreadKnows
<1>2. UNCHANGED <<live, owner, epoch, era, late, status, renewing, visits, lost, events>>
  BY DEF S!SignedIn, S!server, S!counts
<1>3. /\ cookie' = [cookie EXCEPT ![b] = k] /\ access' = [access EXCEPT ![b] = a]
      /\ stored' = [stored EXCEPT ![b] = a] /\ shown' = [shown EXCEPT ![TabOf[th]] = a]
      /\ view' = [view EXCEPT ![TabOf[th]] = "page"]
  BY DEF S!SignedIn
<1>4. /\ cookie' \in [Browsers -> Tokens \cup {NoToken}] /\ cookie'[b] = k
      /\ access' \in [Browsers -> Accounts \cup {Nobody}] /\ access'[b] = a
      /\ \A c \in Browsers \ {b} : cookie'[c] = cookie[c] /\ access'[c] = access[c]
  BY <1>0, <1>1, <1>3, TypeFacts
<1>5. /\ run' \in [Threads -> ThreadStates] /\ run'[th] = S!Idle
      /\ \A o \in Threads \ {th} : run'[o] = run[o]
  BY <1>0, FinishFacts DEF S!SignedIn
<1>6. /\ kept' \in [Browsers -> {"no", "yes", "told"}]
      /\ \A c \in Browsers \ {b} : kept'[c] = kept[c]
      /\ kept'[b] = "yes" => /\ k \in live /\ S!Active(a)
                             /\ \A o \in Threads \ {th} : S!Home(o) = b => run[o] = S!Idle
  <2> DEFINE fresh == /\ k \in live /\ S!Active(a)
                      /\ \A o \in Threads \ {th} : S!Home(o) = b => run[o] = S!Idle
  <2>1. kept' = [kept EXCEPT ![b] = IF fresh THEN "yes" ELSE "no"]
    BY DEF S!SignedIn
  <2> HIDE DEF fresh
  <2>2. /\ kept' \in [Browsers -> {"no", "yes", "told"}]
        /\ \A c \in Browsers \ {b} : kept'[c] = kept[c]
        /\ kept'[b] = "yes" => fresh
    BY <1>0, <2>1, TypeFacts
  <2> QED BY <2>2 DEF fresh
<1>7. S!TypeOK'
  <2>1. stored' \in [Browsers -> Accounts \cup {Nobody}]
    BY <1>0, <1>1, <1>3, TypeFacts
  <2>2. shown' \in [Tabs -> Accounts \cup {Nobody}] /\ view' \in [Tabs -> {"login", "page"}]
    BY <1>0, <1>1, <1>3, TypeFacts
  <2> QED BY <1>0, <1>2, <1>4, <1>5, <1>6, <2>1, <2>2 DEF S!TypeOK, ThreadStates
<1>8. \A o \in Threads : ThreadKnows(o)'
  BY <1>0, <1>2, <1>5, IdleFacts DEF ThreadKnows
<1>9. OneHolder' /\ NewIsOwn'
  <2>1. \A c \in Browsers : cookie'[c] = cookie[c] \/ (c = b /\ cookie'[c] = k)
    BY <1>4
  <2>2. \A o \in Threads : run'[o] = run[o] \/ (run'[o].tok = NoToken /\ run'[o].new = NoToken)
    BY <1>5, IdleFacts
  <2>3. \A o \in Threads : /\ run'[o].new \in {NoToken, run[o].new}
                           /\ run'[o].tok \in {NoToken, run[o].tok, cookie[S!Home(o)]}
    BY <2>2
  <2>4. run'[th].new = NoToken
    BY <1>5, IdleFacts
  <2>5. NewIsOwn'
    BY <2>1, <2>3, <2>4, OwnKept DEF SessionsInv
  <2> QED BY <2>1, <2>2, <2>5, SharersFromHome, HoldersKept DEF SessionsInv
<1>10. LiveOwned' /\ S!EndedSessionsEnd'
  BY <1>2 DEF SessionsInv, LiveOwned, S!EndedSessionsEnd
<1>11. AccessOwned'
  BY <1>1, <1>2, <1>4 DEF SessionsInv, AccessOwned
<1>12. ASSUME NEW c \in Browsers, kept'[c] = "yes" PROVE SessionHolds(c)'
  <2>1. CASE c # b
    <3>1. SessionHolds(c)
      BY <1>6, <1>12, <2>1 DEF SessionsInv
    <3>2. \A o \in Threads : S!Home(o) = c => run'[o] = run[o]
      BY <1>5, <2>1
    <3> QED BY <1>2, <1>4, <2>1, <3>1, <3>2, ElsewhereQuiet
  <2>2. CASE c = b
    <3>1. k \in live /\ S!Active(a)
      BY <1>6, <1>12, <2>2
    <3>2. \A o \in Threads : S!Home(o) = b => run'[o] = S!Idle
      BY <1>5, <1>6, <1>12, <2>2
    <3>3. cookie'[b] \in Tokens /\ S!Active(owner[cookie[b]])'
      BY <1>1, <1>2, <1>4, <3>1 DEF S!Active
    <3>4. ASSUME NEW o \in Threads, S!Home(o) = b
          PROVE  /\ run'[o].pc \notin {"refused", "signout", "signed_out"}
                 /\ ~run'[o].retried /\ ~S!Refreshing(o)'
      BY <3>2, <3>4, IdleFacts DEF S!Refreshing
    <3>6. OneBoot(b)'
      <4>1. \A o \in Threads : S!Home(o) = b => run'[o].kind # "boot"
        BY <3>2, IdleFacts
      <4> QED BY <4>1 DEF OneBoot, S!Home
    <3> HIDE DEF b
    <3>5. \A o \in Threads : S!Home(o)' = S!Home(o)
      BY DEF S!Home
    <3> QED BY <1>2, <1>4, <2>2, <3>1, <3>3, <3>4, <3>5, <3>6 DEF SessionHolds
  <2> QED BY <2>1, <2>2
<1> QED BY <1>7, <1>8, <1>9, <1>10, <1>11, <1>12 DEF SessionsInv

-----------------------------------------------------------------------------
(* What ends sessions from elsewhere. *)

\* The tokens that keep the session of a browser stay.
TokensStay(b) ==
    /\ cookie[b] \in live => cookie[b] \in live'
    /\ \A th \in Threads : S!Home(th) = b /\ S!Refreshing(th) =>
         /\ run[th].pc = "lookup" /\ run[th].tok \in live => run[th].tok \in live'
         /\ run[th].pc = "issued" /\ run[th].new \in live => run[th].new \in live'

\* Without the tokens of one account the sessions of others go on.
LEMMA SessionEnded ==
    ASSUME SessionsInv, NEW a \in Accounts, live' = {k \in live : owner[k] # a},
           epoch' = [epoch EXCEPT ![a] = @ + 1], UNCHANGED <<owner, era, late>>
    PROVE  /\ live' \subseteq Tokens /\ epoch' \in [Accounts -> Nat]
           /\ LiveOwned' /\ S!EndedSessionsEnd'
           /\ \A c \in Browsers : SessionHolds(c) /\ owner[cookie[c]] # a => TokensStay(c)
<1>0. S!TypeOK /\ \A th \in Threads : ThreadKnows(th)
  BY InvTypes
<1>1. live' \subseteq Tokens /\ epoch' \in [Accounts -> Nat]
  BY <1>0 DEF S!TypeOK
<1>2. LiveOwned'
  BY DEF SessionsInv, LiveOwned
<1>3. \A x \in Accounts \ {a} : epoch'[x] = epoch[x]
  BY <1>0 DEF S!TypeOK
<1>4. S!EndedSessionsEnd'
  BY <1>3 DEF SessionsInv, LiveOwned, S!EndedSessionsEnd
<1>5. ASSUME NEW c \in Browsers, SessionHolds(c), owner[cookie[c]] # a
      PROVE  TokensStay(c)
  <2>1. cookie[c] \in live => cookie[c] \in live'
    BY <1>5
  <2>2. ASSUME NEW th \in Threads, S!Home(th) = c, S!Refreshing(th)
        PROVE  /\ run[th].pc = "lookup" /\ run[th].tok \in live => run[th].tok \in live'
               /\ run[th].pc = "issued" /\ run[th].new \in live => run[th].new \in live'
    <3>1. RefreshHolds(th) /\ run[th].kind \notin Signing
      BY <1>5, <2>2 DEF SessionHolds, S!Refreshing, Signing
    <3>2. owner[run[th].tok] # a
      BY <1>5, <2>2, <3>1 DEF RefreshHolds
    <3>3. run[th].pc = "issued" => owner[run[th].new] = owner[run[th].tok]
      BY <1>0, <3>1 DEF ThreadKnows
    <3> QED BY <3>2, <3>3
  <2> QED BY <2>1, <2>2 DEF TokensStay
<1> QED BY <1>1, <1>2, <1>4, <1>5

\* An account that changes, while the threads and browsers are as they were.
LEMMA AccountKeeps ==
    ASSUME S!SessionConstants, SessionsInv, NEW a \in Accounts,
           UNCHANGED <<owner, cookie, access, renewing, run, era, late>>,
           S!TypeOK', LiveOwned', S!EndedSessionsEnd',
           \A x \in Accounts \ {a} : status'[x] = status[x],
           kept' = S!Ended(a),
           \A c \in Browsers : SessionHolds(c) /\ owner[cookie[c]] # a => TokensStay(c)
    PROVE  SessionsInv'
<1>1. \A o \in Threads : ThreadKnows(o)'
  BY DEF SessionsInv, ThreadKnows
<1>2. OneHolder' /\ NewIsOwn'
  BY DEF SessionsInv, OneHolder, Holds, S!Home, NewIsOwn
<1>3. AccessOwned'
  BY DEF SessionsInv, AccessOwned
<1>4. ASSUME NEW c \in Browsers, kept'[c] = "yes" PROVE SessionHolds(c)'
  <2>1. kept[c] = "yes" /\ ~(cookie[c] # NoToken /\ owner[cookie[c]] = a)
    BY <1>4 DEF S!Ended
  <2>2. SessionHolds(c)
    BY <2>1 DEF SessionsInv
  <2>3. owner[cookie[c]] # a
    BY <2>1, <2>2 DEF SessionHolds, S!SessionConstants
  <2>4. owner[cookie[c]] \in Accounts /\ status[owner[cookie[c]]] = "active"
    BY <2>2, InvTypes DEF SessionHolds, S!Active, S!TypeOK
  <2>5. status'[owner[cookie[c]]] = "active"
    BY <2>3, <2>4
  <2>6. TokensStay(c) /\ \A th \in Threads : S!Home(th) = c /\ S!Refreshing(th) => RefreshKept(th)
    BY <2>2, <2>3 DEF TokensStay, RefreshKept
  <2>7. OneBoot(c)'
    BY <2>2, BootsKept DEF SessionHolds
  <2> QED BY <2>2, <2>5, <2>6, <2>7, SessionQuiet DEF TokensStay
<1> QED BY <1>1, <1>2, <1>3, <1>4 DEF SessionsInv

LEMMA EndedType ==
    ASSUME S!TypeOK, NEW a
    PROVE  S!Ended(a) \in [Browsers -> {"no", "yes", "told"}]
BY DEF S!Ended, S!TypeOK

LEMMA EndAllKeeps ==
    ASSUME S!SessionConstants, SessionsInv, NEW a \in Accounts,
           NEW to \in {status[a], "deleted"}, S!EndAll(a, to)
    PROVE  SessionsInv'
<1>0. S!TypeOK
  BY InvTypes
<1>1. /\ live' = {k \in live : owner[k] # a} /\ epoch' = [epoch EXCEPT ![a] = @ + 1]
      /\ UNCHANGED <<owner, cookie, access, stored, view, shown, renewing, run, visits, lost,
                     era, late>>
      /\ kept' = S!Ended(a) /\ status' = [status EXCEPT ![a] = to]
  BY DEF S!EndAll, S!browser, S!tabs
<1>2. events' \in 0..MaxEvents
  BY <1>0 DEF S!EndAll, S!TypeOK, S!SessionConstants
<1>3. /\ status' \in [Accounts -> {"absent", "active", "blocked", "deleted"}]
      /\ \A x \in Accounts \ {a} : status'[x] = status[x]
  BY <1>0, <1>1, TypeFacts
<1>4. S!TypeOK'
  BY <1>0, <1>1, <1>2, <1>3, SessionEnded, EndedType DEF S!TypeOK
<1> QED BY <1>1, <1>3, <1>4, SessionEnded, AccountKeeps

LEMMA SetStatusKeeps ==
    ASSUME S!SessionConstants, SessionsInv, NEW a \in Accounts,
           NEW to \in {"active", "blocked"}, S!SetStatus(a, to)
    PROVE  SessionsInv'
<1>0. S!TypeOK
  BY InvTypes
<1>1. /\ UNCHANGED <<live, epoch, owner, cookie, access, stored, view, shown, renewing, run,
                     visits, lost, era, late>>
      /\ kept' = S!Ended(a) /\ status' = [status EXCEPT ![a] = to]
  BY DEF S!SetStatus, S!browser, S!tabs
<1>2. events' \in 0..MaxEvents
  BY <1>0 DEF S!SetStatus, S!TypeOK, S!SessionConstants
<1>3. /\ status' \in [Accounts -> {"absent", "active", "blocked", "deleted"}]
      /\ \A x \in Accounts \ {a} : status'[x] = status[x]
  BY <1>0, <1>1, TypeFacts
<1>4. S!TypeOK'
  BY <1>0, <1>1, <1>2, <1>3, EndedType DEF S!TypeOK
<1>5. LiveOwned' /\ S!EndedSessionsEnd'
  BY <1>1 DEF SessionsInv, LiveOwned, S!EndedSessionsEnd
<1>6. \A c \in Browsers : TokensStay(c)
  BY <1>1 DEF TokensStay
<1> QED BY <1>1, <1>3, <1>4, <1>5, <1>6, AccountKeeps

\* The access token expires before a renewal, not between it and its retry.
LEMMA AccessExpiresKeeps ==
    ASSUME S!SessionConstants, SessionsInv, NEW b \in Browsers, S!AccessExpires(b)
    PROVE  SessionsInv'
<1>0. S!TypeOK
  BY InvTypes
<1>1. /\ UNCHANGED <<live, epoch, owner, cookie, stored, view, shown, renewing, run, status, kept,
                     visits, lost, era, late>>
      /\ access' = [access EXCEPT ![b] = Nobody]
      /\ \A th \in Threads : S!Home(th) = b => ~run[th].retried
  BY DEF S!AccessExpires, S!server, S!tabs
<1>2. events' \in 0..MaxEvents
  BY <1>0 DEF S!AccessExpires, S!TypeOK, S!SessionConstants
<1>3. /\ access' \in [Browsers -> Accounts \cup {Nobody}]
      /\ access'[b] = Nobody /\ \A c \in Browsers \ {b} : access'[c] = access[c]
  BY <1>0, <1>1, TypeFacts
<1>4. S!TypeOK'
  BY <1>0, <1>1, <1>2, <1>3 DEF S!TypeOK
<1>5. \A o \in Threads : ThreadKnows(o)'
  BY <1>1 DEF SessionsInv, ThreadKnows
<1>6. OneHolder' /\ NewIsOwn'
  BY <1>1 DEF SessionsInv, OneHolder, Holds, S!Home, NewIsOwn
<1>7. LiveOwned' /\ AccessOwned' /\ S!EndedSessionsEnd'
  BY <1>1, <1>3 DEF SessionsInv, LiveOwned, AccessOwned, S!EndedSessionsEnd
<1>8. ASSUME NEW c \in Browsers, kept'[c] = "yes" PROVE SessionHolds(c)'
  <2>1. SessionHolds(c)
    BY <1>1, <1>8 DEF SessionsInv
  <2>2. status'[owner[cookie[c]]] = "active"
    BY <1>1, <2>1 DEF SessionHolds, S!Active
  <2>3. access'[c] = access[c] \/ \A th \in Threads : S!Home(th) = c => ~run'[th].retried
    BY <1>1, <1>3
  <2>4. OneBoot(c)'
    BY <1>1, <2>1, BootsKept DEF SessionHolds
  <2>5. \A th \in Threads : RefreshKept(th)
    BY <1>1 DEF RefreshKept
  <2> QED BY <1>1, <2>1, <2>2, <2>3, <2>4, <2>5, SessionQuiet
<1> QED BY <1>4, <1>5, <1>6, <1>7, <1>8 DEF SessionsInv

\* A changed password ends the sessions of the account, this one too.
LEMMA PasswordKeeps ==
    ASSUME S!SessionConstants, SessionsInv, NEW th \in Threads, S!Served(th),
           run[th].kind = "password"
    PROVE  SessionsInv'
<1> DEFINE b == S!Home(th)  a == access[b]
<1>0. /\ S!TypeOK /\ run \in [Threads -> ThreadStates] /\ b \in Browsers
      /\ \A o \in Threads : ThreadKnows(o)
  BY InvTypes, HomeIs
<1>1. run[th].pc = "ask" /\ a \in Accounts
  BY <1>0, TypeFacts DEF S!Served, S!Authentic
<1>2. /\ live' = {k \in live : owner[k] # a} /\ epoch' = [epoch EXCEPT ![a] = @ + 1]
      /\ S!Finish(th)
      /\ kept' = [o \in Browsers |->
                    IF o = b /\ kept[b] = "yes" THEN "told"
                    ELSE IF cookie[o] # NoToken /\ owner[cookie[o]] = a THEN "no" ELSE kept[o]]
  BY DEF S!Served
<1>3. UNCHANGED <<owner, cookie, access, stored, view, shown, renewing, visits, lost, events,
                  era, late, status>>
  BY DEF S!Served, S!browser, S!tabs, S!counts
<1>4. /\ run' \in [Threads -> ThreadStates] /\ run'[th] = S!Idle
      /\ \A o \in Threads \ {th} : run'[o] = run[o]
  BY <1>0, <1>2, FinishFacts
<1>5. kept' \in [Browsers -> {"no", "yes", "told"}]
  BY <1>0, <1>2, TypeFacts
<1>6. /\ live' \subseteq Tokens /\ epoch' \in [Accounts -> Nat]
      /\ LiveOwned' /\ S!EndedSessionsEnd'
      /\ \A c \in Browsers : SessionHolds(c) /\ owner[cookie[c]] # a => TokensStay(c)
  BY <1>1, <1>2, <1>3, SessionEnded
<1>7. S!TypeOK'
  BY <1>0, <1>3, <1>4, <1>5, <1>6 DEF S!TypeOK, ThreadStates
<1>8. \A o \in Threads : ThreadKnows(o)'
  BY <1>0, <1>3, <1>4, IdleFacts DEF ThreadKnows
<1>9. OneHolder' /\ NewIsOwn' /\ AccessOwned'
  BY <1>3, <1>4, IdleFacts, ThreadFromHome, HoldersKept, ThreadOwnKept DEF SessionsInv, AccessOwned
<1>10. ASSUME NEW c \in Browsers, kept'[c] = "yes" PROVE SessionHolds(c)'
  <2>1. /\ kept[c] = "yes" /\ c # b
        /\ ~(cookie[c] # NoToken /\ owner[cookie[c]] = a)
    BY <1>2, <1>10
  <2>2. SessionHolds(c)
    BY <2>1 DEF SessionsInv
  <2>3. owner[cookie[c]] # a
    BY <2>1, <2>2 DEF SessionHolds, S!SessionConstants
  <2>4. status'[owner[cookie[c]]] = "active"
    BY <1>3, <2>2 DEF SessionHolds, S!Active
  <2>5. \A o \in Threads : S!Home(o) = c => run'[o] = run[o]
    BY <1>4, <2>1
  <2>6. TokensStay(c) /\ \A o \in Threads : S!Home(o) = c /\ S!Refreshing(o) => RefreshKept(o)
    BY <1>3, <1>6, <2>2, <2>3 DEF TokensStay, RefreshKept
  <2>7. OneBoot(c)'
    BY <2>2, <2>5, BootsKept DEF SessionHolds
  <2> QED BY <1>3, <2>2, <2>4, <2>5, <2>6, <2>7, SessionQuiet DEF TokensStay
<1> QED BY <1>6, <1>7, <1>8, <1>9, <1>10 DEF SessionsInv

LEMMA RefreshServedKeeps ==
    ASSUME S!SessionConstants, SessionsInv, NEW th \in Threads, S!Served(th),
           run[th].kind # "password"
    PROVE  SessionsInv'
<1> DEFINE b == S!Home(th)  a == access[b]
<1>0. /\ S!TypeOK /\ run \in [Threads -> ThreadStates] /\ b \in Browsers
      /\ ThreadKnows(th)
  BY InvTypes, HomeIs
<1>1. run[th].pc = "ask" /\ a \in Accounts
  BY <1>0, TypeFacts DEF S!Served, S!Authentic
<1>2. /\ UNCHANGED <<live, owner, cookie, access, stored, view, shown, renewing, visits, lost,
                     events, era, late, status, epoch, kept>>
      /\ S!Finish(th) \/ run' = [run EXCEPT ![th] = [@ EXCEPT !.pc = "persist", !.acct = a]]
  BY DEF S!Served, S!browser, S!tabs, S!counts
<1>3. /\ run' \in [Threads -> ThreadStates] /\ \A o \in Threads \ {th} : run'[o] = run[o]
      /\ run'[th].tok \in {NoToken, run[th].tok} /\ run'[th].new \in {NoToken, run[th].new}
      /\ \/ run'[th] = S!Idle
         \/ run'[th].pc = "persist" /\ run'[th].retried = run[th].retried
      /\ run'[th].kind = "boot" => run[th].kind = "boot"
  <2>1. CASE S!Finish(th)
    BY <1>0, <2>1, FinishFacts, IdleFacts
  <2>2. CASE run' = [run EXCEPT ![th] = [@ EXCEPT !.pc = "persist", !.acct = a]]
    BY <1>0, <1>1, <2>2 DEF ThreadStates, S!Steps
  <2> QED BY <1>2, <2>1, <2>2
<1>4. S!TypeOK'
  BY <1>0, <1>2, <1>3, TypeFacts, ThreadTypes
<1>5. ThreadKnows(th)' /\ Quiet(th)
  BY <1>1, <1>3, IdleFacts DEF ThreadKnows, Quiet, S!Refreshing
<1> QED BY <1>2, <1>3, <1>4, <1>5, QuietStep

-----------------------------------------------------------------------------
LEMMA SessionsStart ==
    ASSUME S!SessionConstants, S!Init
    PROVE  SessionsInv
<1>1. \A th \in Threads : run[th] = S!Idle
  BY DEF S!Init
<1>2. S!TypeOK
  <2>1. S!Idle \in ThreadStates
    BY IdleFacts
  <2>2. run \in [Threads -> ThreadStates]
    BY <2>1 DEF S!Init
  <2> QED BY <2>2 DEF S!TypeOK, S!Init, S!SessionConstants, ThreadStates
<1>3. \A th \in Threads : ThreadKnows(th)
  BY <1>1, IdleFacts DEF ThreadKnows
<1>4. \A b \in Browsers, k \in Tokens : ~Holds(b, k)
  BY <1>1, IdleFacts DEF Holds, S!Init, S!SessionConstants
<1>5. OneHolder /\ NewIsOwn
  BY <1>1, <1>4, IdleFacts DEF OneHolder, NewIsOwn
<1>6. LiveOwned /\ AccessOwned /\ S!EndedSessionsEnd
  BY DEF LiveOwned, AccessOwned, S!EndedSessionsEnd, S!Init
<1>7. \A b \in Browsers : kept[b] # "yes"
  BY DEF S!Init
<1> QED BY <1>2, <1>3, <1>5, <1>6, <1>7 DEF SessionsInv

LEMMA SessionsStep ==
    ASSUME S!SessionConstants, SessionsInv, [S!Next]_sessionVars
    PROVE  SessionsInv'
<1>1. CASE UNCHANGED sessionVars
  <2>1. UNCHANGED <<status, live, owner, cookie, access, stored, view, shown, renewing, run>>
        /\ UNCHANGED <<events, visits, lost, epoch, era, late, kept>>
    BY <1>1 DEF sessionVars
  <2>2. S!TypeOK' /\ LiveOwned' /\ AccessOwned' /\ S!EndedSessionsEnd'
    BY <2>1 DEF SessionsInv, S!TypeOK, LiveOwned, AccessOwned, S!EndedSessionsEnd
  <2>3. (\A th \in Threads : ThreadKnows(th))' /\ OneHolder' /\ NewIsOwn'
    BY <2>1 DEF SessionsInv, ThreadKnows, OneHolder, Holds, S!Home, NewIsOwn
  <2>4. ASSUME NEW b \in Browsers, kept'[b] = "yes" PROVE SessionHolds(b)'
    <3>1. SessionHolds(b)
      BY <2>1, <2>4 DEF SessionsInv
    <3>2. status'[owner[cookie[b]]] = "active"
      BY <2>1, <3>1 DEF SessionHolds, S!Active
    <3>3. OneBoot(b)'
      BY <2>1, <3>1, BootsKept DEF SessionHolds
    <3>4. \A th \in Threads : RefreshKept(th)
      BY <2>1 DEF RefreshKept
    <3> QED BY <2>1, <3>1, <3>2, <3>3, <3>4, SessionQuiet
  <2> QED BY <2>2, <2>3, <2>4 DEF SessionsInv
<1>2. CASE S!Disturb
  <2>1. ASSUME NEW a \in Accounts, S!ResetPassword(a) PROVE SessionsInv'
    BY <2>1, EndAllKeeps DEF S!ResetPassword
  <2>2. ASSUME NEW a \in Accounts, S!DeleteAccount(a) PROVE SessionsInv'
    BY <2>2, EndAllKeeps DEF S!DeleteAccount
  <2> QED BY <1>2, <2>1, <2>2, AccessExpiresKeeps, SetStatusKeeps, LoseKeeps, SignOutKeeps
          DEF S!Disturb
<1>3. ASSUME NEW th \in Threads, S!Begin(th) PROVE SessionsInv'
  <2>1. CASE S!CallPage(th)
    BY <2>1, BeginCallKeeps DEF S!CallPage
  <2>2. CASE S!SaveProfile(th)
    BY <2>2, BeginCallKeeps DEF S!SaveProfile
  <2>3. CASE S!ChangePassword(th)
    BY <2>3, BeginCallKeeps DEF S!ChangePassword
  <2>4. ASSUME NEW a \in Accounts, S!LogIn(th, a) \/ S!Register(th, a) PROVE SessionsInv'
    BY <2>4, SubmitKeeps DEF S!LogIn, S!Register, Signing
  <2> QED BY <1>3, <2>1, <2>2, <2>3, <2>4, VisitKeeps, ClickLogoutKeeps DEF S!Begin
<1>4. ASSUME NEW th \in Threads, S!Continue(th) PROVE SessionsInv'
  <2>1. CASE S!Served(th)
    BY <2>1, PasswordKeeps, RefreshServedKeeps
  <2>2. CASE S!Persist(th) \/ S!Denied(th) \/ S!Renew(th)
    BY <2>2, PersistKeeps, DeniedKeeps, RenewKeeps
  <2>3. CASE S!LookUp(th) \/ S!Revoke(th) \/ S!Issue(th)
    BY <2>3, LookUpKeeps, RevokeKeeps, IssueKeeps
  <2>4. CASE S!Renewed(th) \/ S!NotRenewed(th)
    BY <2>4, RenewedKeeps, NotRenewedKeeps
  <2>5. CASE S!LogOut(th) \/ S!SignOut(th)
    BY <2>5, LogOutKeeps, SignOutKeeps
  <2>6. CASE S!Verify(th) \/ S!Create(th) \/ S!SignedIn(th)
    BY <2>6, VerifyKeeps, CreateKeeps, SignedInKeeps
  <2> QED BY <1>4, <2>1, <2>2, <2>3, <2>4, <2>5, <2>6 DEF S!Continue
<1> QED BY <1>1, <1>2, <1>3, <1>4 DEF S!Next

-----------------------------------------------------------------------------
LEMMA SessionsApart ==
    PlatformSafe => S!Init /\ [][S!Next]_sessionVars
<1>1. PlatformInit => S!Init
  BY DEF PlatformInit
<1>2. [PlatformNext]_platformVars => [S!Next]_sessionVars
  <2>1. Runs("sessions") /\ S!Next /\ Only("sessions") => S!Next
    OBVIOUS
  <2> QED BY <2>1 DEF PlatformNext, Only, sessionVars, platformVars
<1> QED BY <1>1, <1>2, PTL DEF PlatformSafe

\* The invariant that the two properties follow from.
THEOREM SessionsInvariant == PlatformSafe => []SessionsInv
<1>1. S!SessionConstants
  BY PlatformConstants
<1>2. S!Init => SessionsInv
  BY <1>1, SessionsStart
<1>3. SessionsInv /\ [S!Next]_sessionVars => SessionsInv'
  BY <1>1, SessionsStep
<1> QED BY <1>2, <1>3, SessionsApart, PTL

\* A changed password, a reset or a deletion ends every session of the account,
\* for any number of browsers, tabs, requests and accounts; what can still come
\* up is a token whose issue had passed its check (users.service.ts:306, 472, 523).
THEOREM SessionsEnd == PlatformSafe => []EndedSessionsEnd
<1>1. SessionsInv => EndedSessionsEnd
  BY DEF SessionsInv, EndedSessionsEnd
<1> QED BY <1>1, SessionsInvariant, PTL

\* Nobody is logged out without a cause, however the access token expires and
\* the calls of the tabs and their shells retry: the calls of a tab share one
\* refresh (api.ts:13-22), and what two parties can do to each other by the three
\* statements of auth.service.ts:222-230 is the one cause left.
THEOREM SessionsSurvive == PlatformSafe => []SessionSurvives
<1>1. ASSUME SessionsInv, NEW b \in Browsers, kept[b] = "yes"
      PROVE  S!HasSession(b) /\ ~S!SigningOut(b)
  <2>1. SessionHolds(b)
    BY <1>1 DEF SessionsInv
  <2>2. ~S!SigningOut(b)
    BY <2>1 DEF SessionHolds, S!SigningOut
  <2>3. CASE cookie[b] \in live
    BY <2>1, <2>2, <2>3 DEF SessionHolds, S!HasSession
  <2>4. CASE Bringing(b)
    <3>1. PICK th \in Threads : /\ S!Home(th) = b /\ run[th].kind \notin Signing
                                /\ run[th].pc \in {"issue", "issued"} /\ run[th].tok = cookie[b]
      BY <2>4 DEF Bringing
    <3> QED BY <2>2, <3>1 DEF S!HasSession
  <2> QED BY <2>1, <2>2, <2>3, <2>4 DEF SessionHolds
<1>2. SessionsInv => SessionSurvives
  BY <1>1 DEF SessionSurvives, S!SessionSurvives
<1> QED BY <1>2, SessionsInvariant, PTL

-----------------------------------------------------------------------------
(* Grades.  A text of a student's is on the teacher's page, or in one of   *)
(* its requests, as long as nothing newer was sent: what was sent meanwhile *)
(* is in crossed.  So the verdict a request carries is on the text stored. *)

\* Rows as the page and its requests hold them, the requests and the page.
GradingSheets == UNION {[t -> G!Row] : t \in SUBSET Students}
GradingCalls == [kind : {"items", "rows", "grade"}, item : G!Items \cup {G!Nothing},
                 student : Students \cup {G!Nothing}, text : 0 .. MaxWorks,
                 step : {"ask", "land", "write"}, items : SUBSET G!Items,
                 rows : GradingSheets, n : 0 .. MaxMoves, after : BOOLEAN]
GradingDesks == [course : BOOLEAN, items : SUBSET G!Items, picked : G!Items \cup {G!Nothing},
                 shown : G!Items \cup {G!Nothing}, rows : GradingSheets,
                 filter : {"all", "pending", "graded"}, loading : BOOLEAN,
                 form : (Activities \X Students) \cup {G!NoForm}]

GradingTypes ==
    /\ activity \in [Activities -> [live : BOOLEAN, past : BOOLEAN, late : BOOLEAN]]
    /\ work \in [Activities -> [Students -> G!Row]]
    /\ posts \subseteq [student : Students, activity : Activities, text : 1 .. MaxWorks,
                        checked : BOOLEAN]
    /\ calls \subseteq GradingCalls
    /\ \A c \in calls : c.kind = "grade" => c.item \in Activities /\ c.student \in Students
    /\ desk \in GradingDesks
    /\ texts \in 0 .. MaxWorks /\ moves \in 0 .. MaxMoves
    /\ crossed \subseteq Activities \X Students

\* What a request, and the page, say of a work is what is stored.
CallAgrees(c, a, s) ==
    /\ c.kind = "rows" /\ c.item = a /\ s \in DOMAIN c.rows => c.rows[s].text = work[a][s].text
    /\ c.kind = "grade" /\ c.item = a /\ c.student = s => c.text = work[a][s].text
DeskAgrees(a, s) ==
    desk.shown = a /\ s \in DOMAIN desk.rows => desk.rows[s].text = work[a][s].text
WorkAgrees(a, s) == work[a][s].verdict \in {G!None, work[a][s].text}

UncrossedAgree ==
    \A a \in Activities, s \in Students : <<a, s>> \notin crossed =>
        WorkAgrees(a, s) /\ DeskAgrees(a, s) /\ \A c \in calls : CallAgrees(c, a, s)

LEMMA SheetFacts ==
    /\ G!NoRows \in GradingSheets /\ DOMAIN G!NoRows = {}
    /\ \A r \in GradingSheets : \A s \in DOMAIN r : s \in Students /\ r[s] \in G!Row
<1>1. G!NoRows \in [{} -> G!Row] /\ DOMAIN G!NoRows = {}
  BY DEF G!NoRows
<1>2. G!NoRows \in GradingSheets
  BY <1>1 DEF GradingSheets
<1>3. ASSUME NEW r \in GradingSheets, NEW s \in DOMAIN r
      PROVE  s \in Students /\ r[s] \in G!Row
  <2>1. PICK t \in SUBSET Students : r \in [t -> G!Row]
    BY DEF GradingSheets
  <2> QED BY <2>1
<1> QED BY <1>1, <1>2, <1>3

\* A new request holds nothing; the rows served are those stored.
LEMMA CallFacts ==
    ASSUME G!GradingConstants, GradingTypes,
           NEW k \in {"items", "rows", "grade"}, NEW i \in G!Items \cup {G!Nothing}
    PROVE  /\ G!Call(k, i) \in GradingCalls
           /\ G!Call(k, i) = [kind |-> k, item |-> i, student |-> G!Nothing, text |-> 0,
                              step |-> "ask", items |-> {}, rows |-> G!NoRows, n |-> moves,
                              after |-> FALSE]
<1>1. 0 \in 0 .. MaxWorks
  BY DEF G!GradingConstants
<1> QED BY <1>1, SheetFacts DEF G!Call, G!None, GradingCalls, GradingTypes

LEMMA RowsFacts ==
    ASSUME G!GradingConstants, GradingTypes, NEW i \in G!Live \cup Quizzes
    PROVE  /\ G!SheetRows(i) \in GradingSheets
           /\ i \in Activities => \A s \in DOMAIN G!SheetRows(i) : G!SheetRows(i)[s].text = work[i][s].text
<1>1. CASE i \in Quizzes
  <2>1. i \notin Activities
    BY <1>1 DEF G!GradingConstants
  <2>2. \A s \in Students :
           [text |-> 1, verdict |-> IF s \in EssayWriters THEN G!None ELSE 1] \in G!Row
    BY DEF G!Row, G!None, G!GradingConstants
  <2>3. G!SheetRows(i) \in [Students -> G!Row]
    BY <1>1, <2>2 DEF G!SheetRows
  <2>4. G!SheetRows(i) \in GradingSheets
    BY <2>3 DEF GradingSheets
  <2> QED BY <2>1, <2>4
<1>2. CASE i \notin Quizzes
  <2> DEFINE senders == {t \in Students : work[i][t].text # G!None}
  <2>1. i \in Activities
    BY <1>2 DEF G!Live
  <2>2. G!SheetRows(i) = [s \in senders |-> work[i][s]]
    BY <1>2 DEF G!SheetRows
  <2>3. \A s \in senders : work[i][s] \in G!Row
    BY <2>1 DEF GradingTypes
  <2>4. senders \in SUBSET Students
    OBVIOUS
  <2> HIDE DEF senders
  <2>5. G!SheetRows(i) \in [senders -> G!Row]
    BY <2>2, <2>3
  <2>6. G!SheetRows(i) \in GradingSheets
    BY <2>4, <2>5 DEF GradingSheets
  <2>7. \A s \in DOMAIN G!SheetRows(i) : G!SheetRows(i)[s] = work[i][s]
    BY <2>2
  <2> QED BY <2>6, <2>7
<1> QED BY <1>1, <1>2

-----------------------------------------------------------------------------
(* What each action does to the page and its requests, with their fields.  *)

\* A request that is served goes on with what it found.
LEMMA ServeFacts ==
    ASSUME G!GradingConstants, GradingTypes, NEW c \in calls, G!Serve(c)
    PROVE  \E d \in GradingCalls :
             /\ calls' = (calls \ {c}) \cup {d}
             /\ d.kind # "grade" /\ d.item = c.item
             /\ d.item \in Activities =>
                  \A s \in DOMAIN d.rows : d.kind = "rows" => d.rows[s].text = work[d.item][s].text
<1> DEFINE found == [c EXCEPT !.step = "land", !.items = G!Live \cup Quizzes]
           served == [c EXCEPT !.step = "land", !.rows = G!SheetRows(c.item)]
<1>1. c \in GradingCalls /\ c.kind # "grade"
  BY DEF GradingTypes, G!Serve
<1>2. CASE c.kind = "items"
  <2>1. G!Live \cup Quizzes \in SUBSET G!Items
    BY DEF G!Live, G!Items
  <2>2. found \in GradingCalls /\ found.kind = "items" /\ found.item = c.item
    BY <1>1, <1>2, <2>1 DEF GradingCalls
  <2>3. calls' = (calls \ {c}) \cup {found}
    BY <1>2 DEF G!Serve
  <2> HIDE DEF found
  <2> QED BY <2>2, <2>3
<1>3. CASE c.kind = "rows"
  <2>1. c.item \in G!Live \cup Quizzes
    BY <1>3 DEF G!Serve
  <2>2. G!SheetRows(c.item) \in GradingSheets
    BY <2>1, RowsFacts
  <2>3. /\ served \in GradingCalls /\ served.kind = "rows" /\ served.item = c.item
        /\ served.rows = G!SheetRows(c.item)
    BY <1>1, <1>3, <2>2 DEF GradingCalls
  <2>4. calls' = (calls \ {c}) \cup {served}
    BY <1>3 DEF G!Serve
  <2>5. c.item \in Activities => \A s \in DOMAIN G!SheetRows(c.item) :
                                    G!SheetRows(c.item)[s].text = work[c.item][s].text
    BY <2>1, RowsFacts
  <2> HIDE DEF served
  <2> QED BY <2>3, <2>4, <2>5
<1> QED BY <1>1, <1>2, <1>3 DEF GradingCalls

\* A selected item is asked for; the page keeps what it shows.
LEMMA SelectFacts ==
    ASSUME G!GradingConstants, GradingTypes, NEW d \in GradingDesks, NEW cs \in SUBSET GradingCalls,
           G!Select(d, cs)
    PROVE  /\ desk' \in GradingDesks /\ desk'.shown = d.shown /\ desk'.rows = d.rows
           /\ \/ calls' = cs
              \/ \E e \in GradingCalls : /\ calls' = cs \cup {e}
                                         /\ e.kind = "rows" /\ DOMAIN e.rows = {}
<1>1. CASE d.picked \notin d.items
  BY <1>1 DEF G!Select
<1>2. CASE d.picked \in d.items
  <2> DEFINE e == G!Call("rows", d.picked)
  <2>1. desk' = [d EXCEPT !.filter = "all", !.loading = TRUE]
    BY <1>2 DEF G!Select
  <2>2. desk' \in GradingDesks /\ desk'.shown = d.shown /\ desk'.rows = d.rows
    BY <2>1 DEF GradingDesks
  <2>3. d.picked \in G!Items \cup {G!Nothing}
    BY DEF GradingDesks
  <2>4. e \in GradingCalls /\ e.kind = "rows" /\ DOMAIN e.rows = {}
    BY <2>3, CallFacts, SheetFacts
  <2>5. calls' = cs \cup {e}
    BY <1>2 DEF G!Select
  <2> HIDE DEF e
  <2> QED BY <2>2, <2>4, <2>5
<1> QED BY <1>1, <1>2

\* Selecting a course empties the page and may ask for its items.
LEMMA PickCourseFacts ==
    ASSUME G!GradingConstants, GradingTypes, G!PickCourse
    PROVE  /\ desk' \in GradingDesks /\ DOMAIN desk'.rows = {}
           /\ \/ calls' = calls
              \/ \E e \in GradingCalls : calls' = calls \cup {e} /\ e.kind = "items"
<1> DEFINE picked == IF desk.course THEN {} ELSE desk.items
<1>1. desk \in GradingDesks
  BY DEF GradingTypes
<1>2. desk' = [course |-> ~desk.course, items |-> picked, picked |-> G!Nothing,
               shown |-> G!Nothing, rows |-> G!NoRows, filter |-> "all",
               loading |-> desk.loading, form |-> desk.form]
  BY <1>1 DEF G!PickCourse, G!EmptyDesk
<1>3. picked \in SUBSET G!Items /\ desk.loading \in BOOLEAN /\ (~desk.course) \in BOOLEAN
  BY <1>1 DEF GradingDesks
<1>4. desk.form \in (Activities \X Students) \cup {G!NoForm}
  BY <1>1 DEF GradingDesks
<1> HIDE DEF picked
<1>5. desk' \in GradingDesks /\ desk'.rows = G!NoRows
  BY <1>2, <1>3, <1>4, SheetFacts DEF GradingDesks
<1>6. G!Call("items", G!Nothing) \in GradingCalls /\ G!Call("items", G!Nothing).kind = "items"
  BY CallFacts
<1>7. calls' = calls \/ calls' = calls \cup {G!Call("items", G!Nothing)}
  BY DEF G!PickCourse
<1> QED BY <1>5, <1>6, <1>7, SheetFacts

\* The rows of any item come to be shown.
LEMMA RowsLandFacts ==
    ASSUME G!GradingConstants, GradingTypes, NEW c \in calls, G!RowsLand(c)
    PROVE  /\ desk' \in GradingDesks /\ desk'.shown = c.item /\ desk'.rows = c.rows
           /\ c.kind = "rows" /\ calls' = calls \ {c}
<1> DEFINE busy == c.after /\ desk.loading
           filled == IF c.after THEN G!NoForm ELSE desk.form
<1>1. desk \in GradingDesks /\ c \in GradingCalls
  BY DEF GradingTypes
<1>2. desk' = [desk EXCEPT !.shown = c.item, !.rows = c.rows, !.loading = busy, !.form = filled]
  BY <1>1 DEF G!RowsLand, GradingDesks
<1>3. filled \in (Activities \X Students) \cup {G!NoForm}
  BY <1>1 DEF GradingDesks
<1>4. busy \in BOOLEAN
  BY <1>1 DEF GradingDesks, GradingCalls
<1>5. c.item \in G!Items \cup {G!Nothing} /\ c.rows \in GradingSheets
  BY <1>1 DEF GradingCalls
<1> HIDE DEF busy, filled
<1>6. desk' \in GradingDesks /\ desk'.shown = c.item /\ desk'.rows = c.rows
  BY <1>1, <1>2, <1>3, <1>4, <1>5 DEF GradingDesks
<1> QED BY <1>6 DEF G!RowsLand

LEMMA CallFailsFacts ==
    ASSUME G!GradingConstants, GradingTypes, NEW c \in calls, G!CallFails(c)
    PROVE  /\ desk' \in GradingDesks /\ desk'.shown = desk.shown /\ desk'.rows = desk.rows
           /\ calls' = calls \ {c}
<1> DEFINE busy == desk.loading /\ (c.kind # "rows" \/ c.after)
           filled == IF c.kind = "grade" \/ c.after THEN G!NoForm ELSE desk.form
           listed == IF c.kind = "items" THEN {} ELSE desk.items
<1>1. desk \in GradingDesks /\ c \in GradingCalls
  BY DEF GradingTypes
<1>2. desk' = [desk EXCEPT !.items = listed, !.loading = busy, !.form = filled]
  BY <1>1 DEF G!CallFails, GradingDesks
<1>3. filled \in (Activities \X Students) \cup {G!NoForm}
  BY <1>1 DEF GradingDesks
<1>4. busy \in BOOLEAN
  BY <1>1 DEF GradingDesks, GradingCalls
<1>5. listed \in SUBSET G!Items
  BY <1>1 DEF GradingDesks
<1> HIDE DEF busy, filled, listed
<1>6. desk' \in GradingDesks /\ desk'.shown = desk.shown /\ desk'.rows = desk.rows
  BY <1>1, <1>2, <1>3, <1>4, <1>5 DEF GradingDesks
<1> QED BY <1>6 DEF G!CallFails

\* A grade that was written becomes a request for the rows.
LEMMA GradeFacts ==
    ASSUME G!GradingConstants, GradingTypes, NEW c \in calls, G!Grade(c)
    PROVE  /\ c.kind = "grade" /\ c.item \in Activities /\ c.student \in Students
           /\ c.text \in 0 .. MaxWorks
           /\ \E e \in GradingCalls : /\ calls' = (calls \ {c}) \cup {e}
                                      /\ e.kind = "rows" /\ DOMAIN e.rows = {}
<1> DEFINE e == [G!Call("rows", c.item) EXCEPT !.after = TRUE, !.n = c.n]
<1>1. c.kind = "grade" /\ c \in GradingCalls
  BY DEF GradingTypes, G!Grade
<1>2. c.item \in Activities /\ c.student \in Students
  BY <1>1 DEF GradingTypes
<1>3. c.text \in 0 .. MaxWorks /\ c.n \in 0 .. MaxMoves
  BY <1>1 DEF GradingCalls
<1>4. c.item \in G!Items \cup {G!Nothing}
  BY <1>2 DEF G!Items
<1>5. G!Call("rows", c.item) \in GradingCalls
  BY <1>4, CallFacts
<1>6. G!Call("rows", c.item).kind = "rows" /\ G!Call("rows", c.item).rows = G!NoRows
  BY <1>4, CallFacts
<1>7. e \in GradingCalls /\ e.kind = "rows" /\ e.rows = G!NoRows
  BY <1>3, <1>5, <1>6 DEF GradingCalls
<1>8. calls' = (calls \ {c}) \cup {e}
  BY DEF G!Grade
<1> HIDE DEF e
<1> QED BY <1>1, <1>2, <1>3, <1>7, <1>8, SheetFacts

LEMMA FindFacts ==
    ASSUME G!GradingConstants, GradingTypes, NEW c \in calls, G!FindSubmission(c)
    PROVE  \E d \in GradingCalls :
             /\ calls' = (calls \ {c}) \cup {d}
             /\ c.kind = "grade" /\ d.kind = "grade" /\ d.item = c.item
             /\ d.student = c.student /\ d.text = c.text
<1> DEFINE d == [c EXCEPT !.step = "write"]
<1>1. c.kind = "grade" /\ c \in GradingCalls
  BY DEF GradingTypes, G!FindSubmission
<1>2. /\ d \in GradingCalls /\ d.kind = "grade" /\ d.item = c.item
      /\ d.student = c.student /\ d.text = c.text
  BY <1>1 DEF GradingCalls
<1>3. calls' = (calls \ {c}) \cup {d}
  BY DEF G!FindSubmission
<1> HIDE DEF d
<1> QED BY <1>1, <1>2, <1>3

\* The teacher saves what she was shown.
LEMMA SaveFacts ==
    ASSUME G!GradingConstants, GradingTypes, G!Save
    PROVE  /\ UNCHANGED desk
           /\ desk.shown \in Activities /\ desk.form[2] \in DOMAIN desk.rows
           /\ \E d \in GradingCalls :
                /\ calls' = calls \cup {d}
                /\ d.kind = "grade" /\ d.item = desk.shown
                /\ d.student = desk.form[2] /\ d.student \in Students
                /\ d.text = desk.rows[desk.form[2]].text
<1> DEFINE i == desk.shown  s == desk.form[2]  x == desk.rows[desk.form[2]].text
           d == [G!Call("grade", i) EXCEPT !.student = s, !.text = x]
<1>1. i \in Activities /\ s \in DOMAIN desk.rows
  BY DEF G!Save, G!TableShown, G!Visible
<1>2. desk.rows \in GradingSheets
  BY DEF GradingTypes, GradingDesks
<1>3. s \in Students /\ desk.rows[s] \in G!Row
  BY <1>1, <1>2, SheetFacts
<1>4. x \in 0 .. MaxWorks
  BY <1>3 DEF G!Row
<1>5. i \in G!Items \cup {G!Nothing}
  BY <1>1 DEF G!Items
<1>6. calls' = calls \cup {d} /\ UNCHANGED desk
  BY DEF G!Save
<1> HIDE DEF i, s, x
<1>7. G!Call("grade", i) \in GradingCalls
  BY <1>5, CallFacts
<1>8. G!Call("grade", i).kind = "grade" /\ G!Call("grade", i).item = i
  BY <1>5, CallFacts
<1>9. /\ d \in GradingCalls /\ d.kind = "grade" /\ d.item = i /\ d.student = s /\ d.text = x
  BY <1>3, <1>4, <1>7, <1>8 DEF GradingCalls
<1> HIDE DEF d
<1> QED BY <1>1, <1>3, <1>6, <1>9 DEF i, s, x

\* The other moves keep the requests and what the page shows.
LEMMA OtherMoves ==
    ASSUME G!GradingConstants, GradingTypes, G!PickFilter \/ G!OpenForm \/ G!Cancel
    PROVE  /\ desk' \in GradingDesks /\ desk'.shown = desk.shown /\ desk'.rows = desk.rows
           /\ UNCHANGED calls
<1>1. desk \in GradingDesks
  BY DEF GradingTypes
<1>2. CASE G!PickFilter
  BY <1>1, <1>2 DEF G!PickFilter, GradingDesks
<1>3. CASE G!OpenForm
  <2>1. PICK s \in G!Visible : desk' = [desk EXCEPT !.form = <<desk.shown, s>>]
    BY <1>3 DEF G!OpenForm
  <2>2. s \in DOMAIN desk.rows /\ desk.rows \in GradingSheets
    BY <1>1 DEF G!Visible, GradingDesks
  <2>3. s \in Students /\ desk.shown \in Activities
    BY <1>3, <2>2, SheetFacts DEF G!OpenForm, G!TableShown
  <2>4. <<desk.shown, s>> \in Activities \X Students
    BY <2>3
  <2> DEFINE filled == <<desk.shown, s>>
  <2> HIDE DEF filled
  <2>5. desk' = [desk EXCEPT !.form = filled] /\ filled \in Activities \X Students
    BY <2>1, <2>4 DEF filled
  <2>6. desk' \in GradingDesks /\ desk'.shown = desk.shown /\ desk'.rows = desk.rows
    BY <1>1, <2>5 DEF GradingDesks
  <2> QED BY <1>3, <2>6 DEF G!OpenForm
<1>4. CASE G!Cancel
  BY <1>1, <1>4 DEF G!Cancel, GradingDesks
<1> QED BY <1>2, <1>3, <1>4

\* Items that arrive, or an item picked, may be asked for.
LEMMA ItemsLandFacts ==
    ASSUME G!GradingConstants, GradingTypes, NEW c \in calls, G!ItemsLand(c)
    PROVE  /\ desk' \in GradingDesks /\ desk'.shown = desk.shown /\ desk'.rows = desk.rows
           /\ \/ calls' = calls \ {c}
              \/ \E e \in GradingCalls : /\ calls' = (calls \ {c}) \cup {e}
                                         /\ e.kind = "rows" /\ DOMAIN e.rows = {}
<1> DEFINE d == [desk EXCEPT !.items = c.items]
<1>1. desk \in GradingDesks /\ c \in GradingCalls /\ calls \ {c} \in SUBSET GradingCalls
  BY DEF GradingTypes
<1>2. d \in GradingDesks /\ d.shown = desk.shown /\ d.rows = desk.rows
  BY <1>1 DEF GradingDesks, GradingCalls
<1>3. G!Select(d, calls \ {c})
  BY DEF G!ItemsLand
<1> HIDE DEF d
<1> QED BY <1>1, <1>2, <1>3, SelectFacts

LEMMA PickItemFacts ==
    ASSUME G!GradingConstants, GradingTypes, G!PickItem
    PROVE  /\ desk' \in GradingDesks /\ desk'.shown = desk.shown /\ desk'.rows = desk.rows
           /\ \/ calls' = calls
              \/ \E e \in GradingCalls : /\ calls' = calls \cup {e}
                                         /\ e.kind = "rows" /\ DOMAIN e.rows = {}
<1>1. PICK i \in desk.items \ {desk.picked} : G!Select([desk EXCEPT !.picked = i], calls)
  BY DEF G!PickItem
<1> DEFINE d == [desk EXCEPT !.picked = i]
<1>2. desk \in GradingDesks /\ calls \in SUBSET GradingCalls
  BY DEF GradingTypes
<1>3. i \in G!Items
  BY <1>2 DEF GradingDesks
<1>4. d \in GradingDesks /\ d.shown = desk.shown /\ d.rows = desk.rows
  BY <1>2, <1>3 DEF GradingDesks
<1>5. G!Select(d, calls)
  BY <1>1
<1> HIDE DEF d
<1> QED BY <1>2, <1>4, <1>5, SelectFacts

\* A submission that was checked is written, and its grade removed.
LEMMA SubmitFacts ==
    ASSUME G!GradingConstants, GradingTypes, NEW p \in posts, G!Submit(p)
    PROVE  /\ p.activity \in Activities /\ p.student \in Students
           /\ work' \in [Activities -> [Students -> G!Row]]
           /\ \A a \in Activities, s \in Students : <<a, s>> # <<p.activity, p.student>>
                => work'[a][s] = work[a][s]
           /\ work'[p.activity][p.student].verdict = G!None
           /\ crossed' = IF G!Held(p.activity, p.student)
                         THEN crossed \cup {<<p.activity, p.student>>}
                         ELSE crossed \ {<<p.activity, p.student>>}
           /\ UNCHANGED <<activity, calls, desk, texts, moves>> /\ posts' \subseteq posts
<1> DEFINE fresh == [text |-> p.text, verdict |-> G!None]
<1>1. p.activity \in Activities /\ p.student \in Students /\ p.text \in 1 .. MaxWorks
  BY DEF GradingTypes
<1>2. fresh \in G!Row /\ fresh.verdict = G!None
  BY <1>1 DEF G!Row, G!None, G!GradingConstants
<1>3. work' = [work EXCEPT ![p.activity][p.student] = fresh]
  BY DEF G!Submit, G!Stored
<1>4. work \in [Activities -> [Students -> G!Row]]
  BY DEF GradingTypes
<1> HIDE DEF fresh
<1>5. /\ work' \in [Activities -> [Students -> G!Row]]
      /\ \A a \in Activities, s \in Students : <<a, s>> # <<p.activity, p.student>>
                => work'[a][s] = work[a][s]
      /\ work'[p.activity][p.student] = fresh
  BY <1>1, <1>2, <1>3, <1>4
<1> QED BY <1>1, <1>2, <1>5 DEF G!Submit, G!Stored

LEMMA GradingTypesKept ==
    ASSUME G!GradingConstants, GradingTypes, [G!GradingNext]_gradingVars
    PROVE  GradingTypes'
<1>1. CASE UNCHANGED gradingVars
  BY <1>1 DEF GradingTypes, gradingVars, G!Live
<1>2. ASSUME NEW s \in Students, NEW a \in G!Live, G!Send(s, a) PROVE GradingTypes'
  <2>1. texts + 1 \in 1 .. MaxWorks /\ texts + 1 \in 0 .. MaxWorks /\ a \in Activities
    BY <1>2 DEF GradingTypes, G!Send, G!Live, G!GradingConstants
  <2>2. posts' \subseteq [student : Students, activity : Activities, text : 1 .. MaxWorks,
                          checked : BOOLEAN]
    <3> DEFINE p == [student |-> s, activity |-> a, text |-> texts + 1, checked |-> FALSE]
    <3>1. posts' = posts \cup {p}
      BY <1>2 DEF G!Send
    <3>2. p \in [student : Students, activity : Activities, text : 1 .. MaxWorks,
                 checked : BOOLEAN]
      BY <2>1
    <3> HIDE DEF p
    <3> QED BY <3>1, <3>2 DEF GradingTypes
  <2>3. texts' = texts + 1 /\ UNCHANGED <<activity, work, calls, desk, moves, crossed>>
    BY <1>2 DEF G!Send
  <2> QED BY <2>1, <2>2, <2>3 DEF GradingTypes
<1>3. ASSUME NEW p \in posts, G!Accept(p) PROVE GradingTypes'
  <2>1. [p EXCEPT !.checked = TRUE] \in [student : Students, activity : Activities,
                                         text : 1 .. MaxWorks, checked : BOOLEAN]
    BY DEF GradingTypes
  <2>2. posts' \subseteq [student : Students, activity : Activities, text : 1 .. MaxWorks,
                          checked : BOOLEAN]
    BY <1>3, <2>1 DEF GradingTypes, G!Accept
  <2> QED BY <1>3, <2>2 DEF GradingTypes, G!Accept
<1>4. ASSUME NEW p \in posts, G!PostFails(p) PROVE GradingTypes'
  BY <1>4 DEF GradingTypes, G!PostFails
<1>5. ASSUME NEW p \in posts, G!Submit(p) PROVE GradingTypes'
  <2>1. /\ p.activity \in Activities /\ p.student \in Students
        /\ work' \in [Activities -> [Students -> G!Row]]
        /\ crossed' \subseteq crossed \cup {<<p.activity, p.student>>}
        /\ UNCHANGED <<activity, calls, desk, texts, moves>> /\ posts' \subseteq posts
    BY <1>5, SubmitFacts
  <2>2. <<p.activity, p.student>> \in Activities \X Students
    BY <2>1
  <2>3. crossed' \subseteq Activities \X Students
    BY <2>1, <2>2 DEF GradingTypes
  <2> QED BY <2>1, <2>3 DEF GradingTypes
<1>6. ASSUME NEW a \in Activities, G!ChangeActivity(a) PROVE GradingTypes'
  <2>1. PICK past \in BOOLEAN, late_ \in BOOLEAN :
           activity' = [activity EXCEPT ![a] = [@ EXCEPT !.past = past, !.late = late_]]
    BY <1>6 DEF G!ChangeActivity
  <2>2. activity' \in [Activities -> [live : BOOLEAN, past : BOOLEAN, late : BOOLEAN]]
    BY <2>1 DEF GradingTypes
  <2> QED BY <1>6, <2>2 DEF GradingTypes, G!ChangeActivity
<1>7. ASSUME NEW a \in Activities, G!DeleteActivity(a) PROVE GradingTypes'
  <2>1. activity' \in [Activities -> [live : BOOLEAN, past : BOOLEAN, late : BOOLEAN]]
    BY <1>7 DEF GradingTypes, G!DeleteActivity
  <2> QED BY <1>7, <2>1 DEF GradingTypes, G!DeleteActivity
<1>8. ASSUME NEW c \in calls, G!Serve(c) PROVE GradingTypes'
  BY <1>8, ServeFacts DEF GradingTypes, G!Serve
<1>9. ASSUME NEW c \in calls, G!ItemsLand(c) PROVE GradingTypes'
  BY <1>9, ItemsLandFacts DEF GradingTypes, G!ItemsLand
<1>10. ASSUME NEW c \in calls, G!RowsLand(c) PROVE GradingTypes'
  BY <1>10, RowsLandFacts DEF GradingTypes, G!RowsLand
<1>11. ASSUME NEW c \in calls, G!CallFails(c) PROVE GradingTypes'
  BY <1>11, CallFailsFacts DEF GradingTypes, G!CallFails
<1>12. ASSUME NEW c \in calls, G!FindSubmission(c) PROVE GradingTypes'
  BY <1>12, FindFacts DEF GradingTypes, G!FindSubmission
<1>13. ASSUME NEW c \in calls, G!Grade(c) PROVE GradingTypes'
  <2>1. work' = [work EXCEPT ![c.item][c.student].verdict = c.text]
    BY <1>13 DEF G!Grade
  <2>2. c.item \in Activities /\ c.student \in Students /\ c.text \in 0 .. MaxWorks
    BY <1>13, GradeFacts
  <2>3. work' \in [Activities -> [Students -> G!Row]]
    BY <2>1, <2>2 DEF GradingTypes, G!Row
  <2>4. calls' \subseteq GradingCalls
        /\ \A d \in calls' : d.kind = "grade" => d.item \in Activities /\ d.student \in Students
    BY <1>13, GradeFacts DEF GradingTypes
  <2>5. UNCHANGED <<activity, posts, desk, texts, moves, crossed>>
    BY <1>13 DEF G!Grade
  <2> QED BY <2>3, <2>4, <2>5 DEF GradingTypes
<1>14. ASSUME G!Move PROVE moves' \in 0 .. MaxMoves
  BY <1>14 DEF G!Move, GradingTypes, G!GradingConstants
<1>15. CASE G!Move /\ G!PickCourse
  BY <1>14, <1>15, PickCourseFacts DEF GradingTypes, G!Move
<1>16. CASE G!Move /\ G!PickItem
  BY <1>14, <1>16, PickItemFacts DEF GradingTypes, G!Move
<1>17. CASE G!Move /\ (G!PickFilter \/ G!OpenForm \/ G!Cancel)
  BY <1>14, <1>17, OtherMoves DEF GradingTypes, G!Move
<1>18. CASE G!Move /\ G!Save
  BY <1>14, <1>18, SaveFacts DEF GradingTypes, G!Move
<1> QED
  BY <1>1, <1>2, <1>3, <1>4, <1>5, <1>6, <1>7, <1>8, <1>9, <1>10, <1>11, <1>12, <1>13,
     <1>15, <1>16, <1>17, <1>18 DEF G!GradingNext

-----------------------------------------------------------------------------
\* Where work and crossed stay, what is new on the page and in its requests
\* must be the text stored.
LEMMA StillAgree ==
    ASSUME UncrossedAgree, UNCHANGED <<work, crossed>>,
           \/ desk'.shown = desk.shown /\ desk'.rows = desk.rows
           \/ DOMAIN desk'.rows = {}
           \/ \E c \in calls : c.kind = "rows" /\ desk'.shown = c.item /\ desk'.rows = c.rows,
           \A d \in calls' \ calls : \A a \in Activities, s \in Students :
               <<a, s>> \notin crossed => CallAgrees(d, a, s)
    PROVE  UncrossedAgree'
<1> SUFFICES ASSUME NEW a \in Activities, NEW s \in Students, <<a, s>> \notin crossed
             PROVE  WorkAgrees(a, s)' /\ DeskAgrees(a, s)' /\ (\A c \in calls : CallAgrees(c, a, s))'
  BY DEF UncrossedAgree
<1>1. WorkAgrees(a, s) /\ DeskAgrees(a, s) /\ \A c \in calls : CallAgrees(c, a, s)
  BY DEF UncrossedAgree
<1>2. WorkAgrees(a, s)'
  BY <1>1 DEF WorkAgrees
<1>3. DeskAgrees(a, s)'
  BY <1>1 DEF DeskAgrees, CallAgrees
<1>4. \A c \in calls' : CallAgrees(c, a, s)
  BY <1>1
<1>5. (\A c \in calls : CallAgrees(c, a, s))'
  BY <1>4 DEF CallAgrees
<1> QED BY <1>2, <1>3, <1>5

LEMMA AgreementKept ==
    ASSUME G!GradingConstants, GradingTypes, UncrossedAgree, [G!GradingNext]_gradingVars
    PROVE  UncrossedAgree'
<1>0. \A d : d.kind = "items" \/ (d.kind = "rows" /\ DOMAIN d.rows = {}) =>
               \A a \in Activities, s \in Students : CallAgrees(d, a, s)
  BY DEF CallAgrees
<1>1. CASE UNCHANGED gradingVars
  BY <1>1, StillAgree DEF gradingVars
<1>2. ASSUME NEW s \in Students, NEW a \in G!Live, G!Send(s, a) PROVE UncrossedAgree'
  BY <1>2, StillAgree DEF G!Send
<1>3. ASSUME NEW p \in posts, G!Accept(p) \/ G!PostFails(p) PROVE UncrossedAgree'
  BY <1>3, StillAgree DEF G!Accept, G!PostFails
<1>4. ASSUME NEW p \in posts, G!Submit(p) PROVE UncrossedAgree'
  <2> SUFFICES ASSUME NEW a \in Activities, NEW s \in Students, <<a, s>> \notin crossed'
               PROVE  WorkAgrees(a, s)' /\ DeskAgrees(a, s)' /\ (\A c \in calls : CallAgrees(c, a, s))'
    BY DEF UncrossedAgree
  <2>0. UNCHANGED <<calls, desk>>
    BY <1>4, SubmitFacts
  <2>1. CASE <<a, s>> = <<p.activity, p.student>>
    <3>1. ~G!Held(a, s)
      BY <1>4, <2>1, SubmitFacts
    <3>2. work'[a][s].verdict = G!None
      BY <1>4, <2>1, SubmitFacts
    <3>3. WorkAgrees(a, s)'
      BY <3>2 DEF WorkAgrees
    <3>4. DeskAgrees(a, s)' /\ (\A c \in calls : CallAgrees(c, a, s))'
      BY <2>0, <3>1 DEF DeskAgrees, CallAgrees, G!Held
    <3> QED BY <3>3, <3>4
  <2>2. CASE <<a, s>> # <<p.activity, p.student>>
    <3>1. <<a, s>> \notin crossed /\ work'[a][s] = work[a][s]
      BY <1>4, <2>2, SubmitFacts
    <3>2. WorkAgrees(a, s) /\ DeskAgrees(a, s) /\ \A c \in calls : CallAgrees(c, a, s)
      BY <3>1 DEF UncrossedAgree
    <3> QED BY <2>0, <3>1, <3>2 DEF WorkAgrees, DeskAgrees, CallAgrees
  <2> QED BY <2>1, <2>2
<1>5. ASSUME NEW a \in Activities, G!ChangeActivity(a) \/ G!DeleteActivity(a)
      PROVE  UncrossedAgree'
  BY <1>5, StillAgree DEF G!ChangeActivity, G!DeleteActivity
<1>6. ASSUME NEW c \in calls, G!Serve(c) PROVE UncrossedAgree'
  <2>1. PICK d \in GradingCalls :
          /\ calls' = (calls \ {c}) \cup {d}
          /\ d.kind # "grade" /\ d.item = c.item
          /\ d.item \in Activities =>
               \A s \in DOMAIN d.rows : d.kind = "rows" => d.rows[s].text = work[d.item][s].text
    BY <1>6, ServeFacts
  <2>2. \A a \in Activities, s \in Students : CallAgrees(d, a, s)
    BY <2>1 DEF CallAgrees
  <2> QED BY <1>6, <2>1, <2>2, StillAgree DEF G!Serve
<1>7. ASSUME NEW c \in calls, G!ItemsLand(c) PROVE UncrossedAgree'
  <2>1. UNCHANGED <<work, crossed>>
    BY <1>7 DEF G!ItemsLand
  <2> QED BY <1>0, <1>7, <2>1, ItemsLandFacts, StillAgree
<1>8. ASSUME NEW c \in calls, G!RowsLand(c) PROVE UncrossedAgree'
  <2>1. UNCHANGED <<work, crossed>>
    BY <1>8 DEF G!RowsLand
  <2> QED BY <1>8, <2>1, RowsLandFacts, StillAgree
<1>9. ASSUME NEW c \in calls, G!CallFails(c) PROVE UncrossedAgree'
  <2>1. UNCHANGED <<work, crossed>>
    BY <1>9 DEF G!CallFails
  <2> QED BY <1>9, <2>1, CallFailsFacts, StillAgree
<1>10. ASSUME NEW c \in calls, G!FindSubmission(c) PROVE UncrossedAgree'
  <2>1. UNCHANGED <<work, crossed, desk>>
    BY <1>10 DEF G!FindSubmission
  <2>2. PICK d \in GradingCalls :
             /\ calls' = (calls \ {c}) \cup {d}
             /\ c.kind = "grade" /\ d.kind = "grade" /\ d.item = c.item
             /\ d.student = c.student /\ d.text = c.text
    BY <1>10, FindFacts
  <2>3. \A a \in Activities, s \in Students : <<a, s>> \notin crossed => CallAgrees(d, a, s)
    BY <2>2 DEF CallAgrees, UncrossedAgree
  <2> QED BY <2>1, <2>2, <2>3, StillAgree
<1>11. ASSUME NEW c \in calls, G!Grade(c) PROVE UncrossedAgree'
  <2>1. /\ c.kind = "grade" /\ c.item \in Activities /\ c.student \in Students
        /\ c.text \in 0 .. MaxWorks
    BY <1>11, GradeFacts
  <2>2. PICK e \in GradingCalls : /\ calls' = (calls \ {c}) \cup {e}
                                  /\ e.kind = "rows" /\ DOMAIN e.rows = {}
    BY <1>11, GradeFacts
  <2>3. UNCHANGED <<crossed, desk>> /\ work' = [work EXCEPT ![c.item][c.student].verdict = c.text]
    BY <1>11 DEF G!Grade
  <2>4. \A a \in Activities, s \in Students :
           /\ work'[a][s].text = work[a][s].text
           /\ work'[a][s].verdict = IF a = c.item /\ s = c.student THEN c.text
                                                                   ELSE work[a][s].verdict
    BY <2>1, <2>3 DEF GradingTypes, G!Row
  <2> SUFFICES ASSUME NEW a \in Activities, NEW s \in Students, <<a, s>> \notin crossed
               PROVE  WorkAgrees(a, s)' /\ DeskAgrees(a, s)' /\ (\A d \in calls : CallAgrees(d, a, s))'
    BY <2>3 DEF UncrossedAgree
  <2>5. WorkAgrees(a, s) /\ DeskAgrees(a, s) /\ \A d \in calls : CallAgrees(d, a, s)
    BY DEF UncrossedAgree
  <2>6. a = c.item /\ s = c.student => c.text = work[a][s].text
    BY <2>1, <2>5 DEF CallAgrees
  <2>7. WorkAgrees(a, s)'
    BY <2>4, <2>5, <2>6 DEF WorkAgrees
  <2>8. DeskAgrees(a, s)'
    BY <2>3, <2>4, <2>5 DEF DeskAgrees
  <2>9. \A d \in calls' : CallAgrees(d, a, s)
    BY <1>0, <2>2, <2>5
  <2>10. (\A d \in calls : CallAgrees(d, a, s))'
    BY <2>4, <2>9 DEF CallAgrees
  <2> QED BY <2>7, <2>8, <2>10
<1>12. CASE G!Move /\ G!PickCourse
  <2>1. UNCHANGED <<work, crossed>>
    BY <1>12 DEF G!Move
  <2> QED BY <1>0, <1>12, <2>1, PickCourseFacts, StillAgree
<1>13. CASE G!Move /\ G!PickItem
  <2>1. UNCHANGED <<work, crossed>>
    BY <1>13 DEF G!Move
  <2> QED BY <1>0, <1>13, <2>1, PickItemFacts, StillAgree
<1>14. CASE G!Move /\ (G!PickFilter \/ G!OpenForm \/ G!Cancel)
  <2>1. UNCHANGED <<work, crossed>>
    BY <1>14 DEF G!Move
  <2> QED BY <1>14, <2>1, OtherMoves, StillAgree
<1>15. CASE G!Move /\ G!Save
  <2>1. UNCHANGED <<work, crossed, desk>>
    BY <1>15, SaveFacts DEF G!Move
  <2>2. PICK d \in GradingCalls :
                /\ calls' = calls \cup {d}
                /\ d.kind = "grade" /\ d.item = desk.shown
                /\ d.student = desk.form[2] /\ d.student \in Students
                /\ d.text = desk.rows[desk.form[2]].text
    BY <1>15, SaveFacts
  <2>3. desk.form[2] \in DOMAIN desk.rows
    BY <1>15, SaveFacts
  <2>4. \A a \in Activities, s \in Students : <<a, s>> \notin crossed => CallAgrees(d, a, s)
    BY <2>2, <2>3 DEF CallAgrees, UncrossedAgree, DeskAgrees
  <2> QED BY <2>1, <2>2, <2>4, StillAgree
<1> QED
  BY <1>1, <1>2, <1>3, <1>4, <1>5, <1>6, <1>7, <1>8, <1>9, <1>10, <1>11, <1>12, <1>13,
     <1>14, <1>15 DEF G!GradingNext

-----------------------------------------------------------------------------
LEMMA GradingStarts ==
    ASSUME G!GradingConstants, G!GradingInit
    PROVE  GradingTypes /\ UncrossedAgree
<1> DEFINE blank == [text |-> G!None, verdict |-> G!None]
<1>1. blank \in G!Row
  BY DEF G!Row, G!None, G!GradingConstants
<1>2. work = [a \in Activities |-> [s \in Students |-> blank]]
  BY DEF G!GradingInit
<1>3. blank.verdict = G!None
  OBVIOUS
<1> HIDE DEF blank
<1>4. work \in [Activities -> [Students -> G!Row]]
  BY <1>1, <1>2
<1>5. desk \in GradingDesks /\ DOMAIN desk.rows = {}
  BY SheetFacts DEF G!GradingInit, G!EmptyDesk, GradingDesks, G!NoForm
<1>6. activity \in [Activities -> [live : BOOLEAN, past : BOOLEAN, late : BOOLEAN]]
  <2> DEFINE open == [live |-> TRUE, past |-> FALSE, late |-> FALSE]
  <2>1. open \in [live : BOOLEAN, past : BOOLEAN, late : BOOLEAN]
    OBVIOUS
  <2>2. activity \in [Activities -> {open}]
    BY DEF G!GradingInit
  <2> HIDE DEF open
  <2> QED BY <2>1, <2>2
<1>7. GradingTypes
  BY <1>4, <1>5, <1>6 DEF GradingTypes, G!GradingInit, G!GradingConstants
<1>8. \A a \in Activities, s \in Students : work[a][s].verdict = G!None
  BY <1>2, <1>3
<1>9. UncrossedAgree
  BY <1>5, <1>8 DEF UncrossedAgree, WorkAgrees, DeskAgrees, G!GradingInit
<1> QED BY <1>7, <1>9

LEMMA GradingApart ==
    PlatformSafe => G!GradingInit /\ [][G!GradingNext]_gradingVars
<1>1. PlatformInit => G!GradingInit
  BY DEF PlatformInit
<1>2. [PlatformNext]_platformVars => [G!GradingNext]_gradingVars
  <2>1. Runs("grading") /\ G!GradingNext /\ Only("grading") => G!GradingNext
    OBVIOUS
  <2> QED BY <2>1 DEF PlatformNext, Only, gradingVars, platformVars
<1> QED BY <1>1, <1>2, PTL DEF PlatformSafe

\* However submissions, loads and grades of many students, activities and calls
\* overlap, a grade in a report card is the verdict on the text that is stored,
\* unless the work was sent again while the page, or a request of it, held the
\* text before (activities.service.ts, ProfessorCorrecoesPageClient.tsx).
THEOREM GradesAreOfTheWork == PlatformSafe => []GradeIsOfWork
<1>1. G!GradingConstants
  BY PlatformConstants
<1>2. G!GradingInit => GradingTypes /\ UncrossedAgree
  BY <1>1, GradingStarts
<1>3. GradingTypes /\ UncrossedAgree /\ [G!GradingNext]_gradingVars
        => (GradingTypes /\ UncrossedAgree)'
  BY <1>1, GradingTypesKept, AgreementKept
<1>4. UncrossedAgree => GradeIsOfWork
  BY DEF GradeIsOfWork, G!GradeIsOfWork, G!Report, G!Live, UncrossedAgree, WorkAgrees
<1> QED BY <1>2, <1>3, <1>4, GradingApart, PTL

-----------------------------------------------------------------------------
(* The types of the page of corrections: a request that is answered makes  *)
(* room for the one it leads to.                                           *)

Within(s) == IsFiniteSet(s) /\ Cardinality(s) <= MaxCalls
CallsCount == \A s : G!Cardinality(s) = Cardinality(s)

LEMMA CallsAreCounted == CallsCount
  BY DEF CallsCount, G!Cardinality, Cardinality

LEMMA OneForAnother ==
    ASSUME MaxCalls \in Nat, NEW s, Within(s)
    PROVE  /\ \A c : Within(s \ {c})
           /\ \A c \in s : \A d : Within((s \ {c}) \cup {d})
           /\ Cardinality(s) < MaxCalls => \A d : Within(s \cup {d})
<1>1. Cardinality(s) \in Nat
  BY FS_CardinalityType DEF Within
<1>2. ASSUME NEW c
      PROVE  /\ IsFiniteSet(s \ {c}) /\ Cardinality(s \ {c}) \in Nat
             /\ Cardinality(s \ {c}) = IF c \in s THEN Cardinality(s) - 1 ELSE Cardinality(s)
  <2>1. IsFiniteSet(s \ {c})
    BY FS_RemoveElement DEF Within
  <2>2. Cardinality(s \ {c}) = IF c \in s THEN Cardinality(s) - 1 ELSE Cardinality(s)
    BY FS_RemoveElement DEF Within
  <2> QED BY <2>1, <2>2, FS_CardinalityType
<1>3. ASSUME NEW t, NEW d, IsFiniteSet(t), Cardinality(t) \in Nat, Cardinality(t) < MaxCalls
      PROVE  Within(t \cup {d})
  <2>1. /\ IsFiniteSet(t \cup {d})
        /\ Cardinality(t \cup {d}) = IF d \in t THEN Cardinality(t) ELSE Cardinality(t) + 1
    BY <1>3, FS_AddElement
  <2> QED BY <1>3, <2>1 DEF Within
<1>4. \A c : Within(s \ {c})
  BY <1>1, <1>2 DEF Within
<1>5. ASSUME NEW c \in s, NEW d
      PROVE  Within((s \ {c}) \cup {d})
  <2>1. /\ IsFiniteSet(s \ {c}) /\ Cardinality(s \ {c}) \in Nat
        /\ Cardinality(s \ {c}) = Cardinality(s) - 1
    BY <1>2
  <2>2. Cardinality(s \ {c}) < MaxCalls
    BY <1>1, <2>1 DEF Within
  <2> QED BY <1>3, <2>1, <2>2
<1>6. ASSUME Cardinality(s) < MaxCalls, NEW d
      PROVE  Within(s \cup {d})
  BY <1>1, <1>3, <1>6 DEF Within
<1> QED BY <1>4, <1>5, <1>6

LEMMA SelectWithin ==
    ASSUME MaxCalls \in Nat, NEW d, NEW s, Within(s), G!Select(d, s)
    PROVE  Within(calls')
<1>1. calls' = s \/ (Cardinality(s) < MaxCalls /\ \E c : calls' = s \cup {c})
  BY CallsAreCounted DEF CallsCount, G!Select
<1> QED BY <1>1, OneForAnother

LEMMA CallsWithin ==
    ASSUME MaxCalls \in Nat, Within(calls), [G!GradingNext]_gradingVars
    PROVE  Within(calls')
<1>1. ASSUME NEW c \in calls, G!ItemsLand(c)
      PROVE  Within(calls')
  <2>1. Within(calls \ {c})
    BY OneForAnother
  <2>2. \E d : G!Select(d, calls \ {c})
    BY <1>1 DEF G!ItemsLand
  <2> QED BY <2>1, <2>2, SelectWithin
<1>2. ASSUME NEW c \in calls,
             G!Serve(c) \/ G!RowsLand(c) \/ G!CallFails(c) \/ G!FindSubmission(c) \/ G!Grade(c)
      PROVE  Within(calls')
  <2>1. calls' = calls \ {c} \/ \E d : calls' = (calls \ {c}) \cup {d}
    BY <1>2 DEF G!Serve, G!RowsLand, G!CallFails, G!FindSubmission, G!Grade
  <2> QED BY <2>1, OneForAnother
<1>3. CASE G!PickItem
  <2>1. \E d : G!Select(d, calls)
    BY <1>3 DEF G!PickItem
  <2> QED BY <2>1, SelectWithin
<1>4. CASE G!PickCourse \/ G!Save
  <2>1. calls' = calls \/ (Cardinality(calls) < MaxCalls /\ \E d : calls' = calls \cup {d})
    BY <1>4, CallsAreCounted DEF CallsCount, G!PickCourse, G!Save
  <2> QED BY <2>1, OneForAnother
<1>5. CASE calls' = calls
  BY <1>5
<1>6. \/ \E c \in calls : \/ G!ItemsLand(c) \/ G!Serve(c) \/ G!RowsLand(c) \/ G!CallFails(c)
                          \/ G!FindSubmission(c) \/ G!Grade(c)
      \/ G!PickItem \/ G!PickCourse \/ G!Save
      \/ calls' = calls
  <2>1. CASE G!GradingNext
    <3>1. ASSUME NEW p \in posts, G!Accept(p) \/ G!Submit(p) \/ G!PostFails(p)
          PROVE  calls' = calls
      BY <3>1 DEF G!Accept, G!Submit, G!Stored, G!PostFails
    <3>2. ASSUME NEW a, \/ G!ChangeActivity(a) \/ G!DeleteActivity(a)
                        \/ \E s \in Students : G!Send(s, a)
          PROVE  calls' = calls
      BY <3>2 DEF G!ChangeActivity, G!DeleteActivity, G!Send
    <3>3. G!PickFilter \/ G!OpenForm \/ G!Cancel => calls' = calls
      BY DEF G!PickFilter, G!OpenForm, G!Cancel
    <3> QED BY <2>1, <3>1, <3>2, <3>3 DEF G!GradingNext
  <2>2. CASE UNCHANGED gradingVars
    BY <2>2 DEF gradingVars
  <2> QED BY <2>1, <2>2
<1> QED BY <1>1, <1>2, <1>3, <1>4, <1>5, <1>6

\* However loads, grades and failures of the page follow each other, its rows are rows of
\* students, its form is of an activity, and it has at most MaxCalls requests under way
\* (ProfessorCorrecoesPageClient.tsx).
LEMMA GradingTypesHold == PlatformSafe => []G!GradingTypeOK
<1>1. G!GradingConstants /\ MaxCalls \in Nat
  BY PlatformConstants DEF G!GradingConstants
<1>2. G!GradingInit => GradingTypes /\ Within(calls)
  <2>1. G!GradingInit => calls = {}
    BY DEF G!GradingInit
  <2> QED BY <1>1, <2>1, GradingStarts, FS_EmptySet DEF Within
<1>3. GradingTypes /\ Within(calls) /\ [G!GradingNext]_gradingVars
        => (GradingTypes /\ Within(calls))'
  <2>1. Within(calls) /\ [G!GradingNext]_gradingVars => Within(calls')
    BY <1>1, CallsWithin
  <2>2. Within(calls') <=> Within(calls)'
    BY DEF Within
  <2> QED BY <1>1, <2>1, <2>2, GradingTypesKept
<1>4. GradingTypes /\ Within(calls) => G!GradingTypeOK
  <2>1. GradingTypes => \A c \in calls : /\ c.kind \in {"items", "rows", "grade"}
                                          /\ c.item \in G!Items \cup {G!Nothing}
                                          /\ c.step \in {"ask", "land", "write"}
    BY DEF GradingTypes, GradingCalls
  <2>2. GradingTypes => /\ desk.items \subseteq G!Items
                        /\ desk.picked \in G!Items \cup {G!Nothing}
                        /\ desk.shown \in G!Items \cup {G!Nothing}
                        /\ desk.rows \in GradingSheets
                        /\ desk.form \in ((Activities \X Students) \cup {G!NoForm})
    BY DEF GradingTypes, GradingDesks
  <2>3. Within(calls) => G!Cardinality(calls) <= MaxCalls
    BY CallsAreCounted DEF CallsCount, Within
  <2> QED BY <2>1, <2>2, <2>3 DEF GradingTypes, GradingSheets, G!GradingTypeOK
<1> QED BY <1>2, <1>3, <1>4, GradingApart, PTL

-----------------------------------------------------------------------------
(* The thread: a removal takes what answers the comment, no level is       *)
(* exceeded, nothing is posted twice unknown to its author.  Depth and     *)
(* Subtree are recursive along parents, which are older comments: that     *)
(* their equations have a solution is shown first, for trees of any size.  *)

\* Every comment answers an older one, or the post.
Upward(up) == \A r \in Replies : up[r] = T!Root \/ (up[r] \in Replies /\ up[r] < r)

\* f solves the equation with value a of the comments on the post and step g of the others.
Solves(f, B, up, a, g) ==
    f = [r \in B |-> IF up[r] = T!Root THEN a[r] ELSE g[r][f[up[r]]]]
Closed(B, up) == B \subseteq Replies /\ \A r \in B : up[r] = T!Root \/ up[r] \in B

LEMMA Numbered ==
    \A r \in Replies : r \in Nat /\ r # 0 /\ r + 1 \in Nat /\ r < r + 1
  BY PlatformConstants DEF T!ThreadConstants

\* A set of comments has an oldest one.
LEMMA Oldest ==
    ASSUME NEW B, B \subseteq Replies, B # {}
    PROVE  \E r \in B : \A q \in B : r <= q
<1>1. B \subseteq Nat
  BY Numbered
<1>2. PICK r \in B : \A q \in B : ~(<<q, r>> \in OpToRel(<, Nat))
  BY <1>1, NatLessThanWellFounded, WFMin
<1>3. r \in Nat /\ \A q \in B : q \in Nat
  BY <1>1
<1>4. \A q \in B : ~(q < r)
  BY <1>2, <1>3 DEF OpToRel
<1>5. \A q \in B : r <= q
  BY <1>3, <1>4
<1> QED BY <1>5

LEMMA SolutionsAgree ==
    ASSUME NEW up, Upward(up), NEW a, NEW g, NEW B, NEW R, Closed(B, up), Closed(R, up),
           NEW f, NEW h, Solves(f, B, up, a, g), Solves(h, R, up, a, g)
    PROVE  \A r \in B \cap R : f[r] = h[r]
<1> DEFINE D == {r \in B \cap R : f[r] # h[r]}
<1>1. SUFFICES ASSUME D # {} PROVE FALSE
  OBVIOUS
<1>2. D \subseteq Replies
  BY DEF Closed
<1>3. PICK r \in D : \A q \in D : r <= q
  <2> HIDE DEF D
  <2> QED BY <1>1, <1>2, Oldest
<1>4. r \in B /\ r \in R /\ f[r] # h[r] /\ r \in Replies /\ r \in Nat
  BY <1>2, <1>3, Numbered
<1>5. f[r] = IF up[r] = T!Root THEN a[r] ELSE g[r][f[up[r]]]
  BY <1>4 DEF Solves
<1>6. h[r] = IF up[r] = T!Root THEN a[r] ELSE g[r][h[up[r]]]
  BY <1>4 DEF Solves
<1>7. up[r] # T!Root /\ f[up[r]] # h[up[r]]
  BY <1>4, <1>5, <1>6
<1>8. up[r] \in B /\ up[r] \in R /\ up[r] \in Replies /\ up[r] < r
  BY <1>4, <1>7 DEF Closed, Upward
<1>9. up[r] \in D
  BY <1>7, <1>8
<1> QED
  <2>1. r <= up[r] /\ up[r] \in Nat
    <3> HIDE DEF D
    <3> QED BY <1>3, <1>8, <1>9, Numbered
  <2> QED BY <1>4, <1>8, <2>1

Older(n) == {r \in Replies : r < n}

LEMMA OlderIsClosed ==
    ASSUME NEW up, Upward(up), NEW n \in Nat
    PROVE  Closed(Older(n), up)
<1>1. \A r \in Older(n) : r \in Nat /\ r \in Replies /\ r < n
  BY Numbered DEF Older
<1>2. ASSUME NEW r \in Older(n), up[r] # T!Root
      PROVE  up[r] \in Replies /\ up[r] < n
  <2>1. r \in Replies /\ r \in Nat /\ r < n
    BY <1>1
  <2>2. up[r] \in Replies /\ up[r] < r
    BY <1>2, <2>1 DEF Upward
  <2>3. up[r] \in Nat
    BY <2>2, Numbered
  <2> QED BY <2>1, <2>2, <2>3
<1> QED BY <1>2 DEF Older, Closed

LEMMA OlderSolution ==
    ASSUME NEW up, Upward(up), NEW a, NEW g
    PROVE  \A n \in Nat : \E f : Solves(f, Older(n), up, a, g)
<1> DEFINE Bad == {n \in Nat : ~ \E f : Solves(f, Older(n), up, a, g)}
<1>1. SUFFICES ASSUME Bad # {} PROVE FALSE
  OBVIOUS
<1>2. PICK n \in Bad : \A m \in Bad : ~(<<m, n>> \in OpToRel(<, Nat))
  <2>1. Bad \subseteq Nat
    OBVIOUS
  <2> HIDE DEF Bad
  <2> QED BY <1>1, <2>1, NatLessThanWellFounded, WFMin
<1>3. n \in Nat /\ ~ \E f : Solves(f, Older(n), up, a, g)
  OBVIOUS
<1>4. \A m \in Nat : m < n => \E f : Solves(f, Older(m), up, a, g)
  <2> SUFFICES ASSUME NEW m \in Nat, m < n PROVE m \notin Bad
    OBVIOUS
  <2> HIDE DEF Bad
  <2> QED BY <1>2, <1>3 DEF OpToRel
<1>5. CASE n = 0
  <2>1. Older(n) = {}
    BY <1>5, Numbered DEF Older
  <2>2. Solves([r \in {} |-> 0], Older(n), up, a, g)
    BY <2>1 DEF Solves
  <2> QED BY <1>3, <2>2
<1>6. CASE n # 0
  <2> DEFINE k == n - 1
  <2>1. k \in Nat /\ k < n
    BY <1>3, <1>6
  <2>2. PICK f : Solves(f, Older(k), up, a, g)
    BY <1>4, <2>1
  <2>3. \A r \in Older(n) : r \in Replies /\ r \in Nat /\ (r = k \/ r \in Older(k))
    BY <1>3, <2>1, Numbered DEF Older
  <2>4. k \notin Older(k) /\ Older(k) \subseteq Older(n)
    BY <1>3, <2>1, Numbered DEF Older
  <2>5. \A r \in Older(n) : up[r] = T!Root \/ up[r] \in Older(k)
    <3> SUFFICES ASSUME NEW r \in Older(n), up[r] # T!Root PROVE up[r] \in Older(k)
      OBVIOUS
    <3>1. up[r] \in Replies /\ up[r] < r /\ r \in Nat /\ r < n
      BY <2>3 DEF Upward, Older
    <3>2. up[r] \in Nat
      BY <3>1, Numbered
    <3> QED BY <1>3, <2>1, <3>1, <3>2 DEF Older
  <2> DEFINE Value(h, r) == IF up[r] = T!Root THEN a[r] ELSE g[r][h[up[r]]]
             h == [r \in Older(n) |-> IF r = k THEN Value(f, r) ELSE f[r]]
  <2>6. \A r \in Older(k) : h[r] = f[r]
    BY <2>4
  <2>7. \A r \in Older(n) : Value(h, r) = Value(f, r)
    <3> HIDE DEF h
    <3> QED BY <2>5, <2>6
  <2>8. \A r \in Older(k) : f[r] = Value(f, r)
    BY <2>2 DEF Solves
  <2>9. \A r \in Older(n) : h[r] = Value(f, r)
    BY <2>3, <2>8
  <2>10. h = [r \in Older(n) |-> Value(h, r)]
    <3>1. DOMAIN h = Older(n) /\ h = [r \in DOMAIN h |-> h[r]]
      OBVIOUS
    <3> HIDE DEF h, Value
    <3> QED BY <2>7, <2>9, <3>1
  <2>11. Solves(h, Older(n), up, a, g)
    <3> HIDE DEF h
    <3> QED BY <2>10 DEF Solves
  <2> QED BY <1>3, <2>11
<1> QED BY <1>5, <1>6

\* The equation has a solution on all comments.
LEMMA Solution ==
    ASSUME NEW up, Upward(up), NEW a, NEW g
    PROVE  \E f : Solves(f, Replies, up, a, g)
<1> DEFINE upto(r) == CHOOSE f : Solves(f, Older(r + 1), up, a, g)
           Value(h, r) == IF up[r] = T!Root THEN a[r] ELSE g[r][h[up[r]]]
           whole == [r \in Replies |-> upto(r)[r]]
<1>1. \A r \in Replies : r \in Nat /\ r + 1 \in Nat /\ r < r + 1
  BY Numbered
<1>2. \A r \in Replies : Solves(upto(r), Older(r + 1), up, a, g)
  BY <1>1, OlderSolution
<1> HIDE DEF upto
<1>3. \A r \in Replies : r \in Older(r + 1)
  BY <1>1 DEF Older
<1>4. ASSUME NEW r \in Replies PROVE whole[r] = Value(whole, r)
  <2>1. upto(r)[r] = Value(upto(r), r)
    BY <1>2, <1>3 DEF Solves
  <2>2. CASE up[r] = T!Root
    BY <2>1, <2>2
  <2>3. CASE up[r] # T!Root
    <3> DEFINE q == up[r]
    <3>1. q \in Replies /\ q < r
      BY <2>3 DEF Upward
    <3>2. q \in Older(q + 1) /\ q \in Older(r + 1)
      BY <1>1, <3>1 DEF Older
    <3>3. Closed(Older(q + 1), up) /\ Closed(Older(r + 1), up)
      BY <1>1, <3>1, OlderIsClosed
    <3>4. Solves(upto(q), Older(q + 1), up, a, g) /\ Solves(upto(r), Older(r + 1), up, a, g)
      BY <1>2, <3>1
    <3>5. upto(q)[q] = upto(r)[q]
      <4> HIDE DEF q
      <4> QED BY <3>2, <3>3, <3>4, SolutionsAgree
    <3>6. whole[q] = upto(q)[q]
      BY <3>1
    <3> QED
      <4> HIDE DEF whole
      <4>1. whole[r] = upto(r)[r]
        BY DEF whole
      <4> QED BY <2>1, <2>3, <3>5, <3>6, <4>1
  <2> QED BY <2>2, <2>3
<1>5. whole = [r \in Replies |-> Value(whole, r)]
  <2>1. DOMAIN whole = Replies /\ whole = [r \in DOMAIN whole |-> whole[r]]
    OBVIOUS
  <2> HIDE DEF whole, Value
  <2> QED BY <1>4, <2>1
<1>6. Solves(whole, Replies, up, a, g)
  <2> HIDE DEF whole
  <2> QED BY <1>5 DEF Solves
<1> QED BY <1>6

\* The two recursions of the code, on any tree.
Depths(up) == CHOOSE d : d = [r \in Replies |-> IF up[r] = T!Root THEN 0 ELSE d[up[r]] + 1]

LEMMA DepthEquation ==
    ASSUME NEW up, Upward(up)
    PROVE  /\ Depths(up) \in [Replies -> Nat]
           /\ \A r \in Replies : Depths(up)[r] = IF up[r] = T!Root THEN 0 ELSE Depths(up)[up[r]] + 1
<1> DEFINE a == [r \in Replies |-> 0]
           g == [r \in Replies |-> [x \in Nat |-> x + 1]]
           Deep(d) == d = [r \in Replies |-> IF up[r] = T!Root THEN 0 ELSE d[up[r]] + 1]
<1>1. PICK f : Solves(f, Replies, up, a, g)
  <2> HIDE DEF a, g
  <2> QED BY Solution
<1>2. \A r \in Replies : f[r] = IF up[r] = T!Root THEN a[r] ELSE g[r][f[up[r]]]
  <2> HIDE DEF a, g
  <2> QED BY <1>1 DEF Solves
<1>3. \A r \in Replies : f[r] \in Nat
  <2> DEFINE D == {r \in Replies : f[r] \notin Nat}
  <2>1. SUFFICES ASSUME D # {} PROVE FALSE
    OBVIOUS
  <2>2. PICK r \in D : \A q \in D : r <= q
    <3>1. D \subseteq Replies
      OBVIOUS
    <3> HIDE DEF D
    <3> QED BY <2>1, <3>1, Oldest
  <2>3. r \in Replies /\ r \in Nat /\ f[r] \notin Nat
    BY Numbered
  <2>4. CASE up[r] = T!Root
    <3>1. f[r] = a[r]
      <4> HIDE DEF a, g
      <4> QED BY <1>2, <2>3, <2>4
    <3> QED BY <2>3, <3>1
  <2>5. CASE up[r] # T!Root
    <3>1. up[r] \in Replies /\ up[r] < r /\ up[r] \in Nat
      BY <2>3, <2>5, Numbered DEF Upward
    <3>2. up[r] \notin D
      <4> HIDE DEF D
      <4> QED BY <2>2, <2>3, <3>1
    <3>3. f[up[r]] \in Nat
      BY <3>1, <3>2
    <3>4. f[r] = g[r][f[up[r]]]
      <4> HIDE DEF g
      <4> QED BY <1>2, <2>3, <2>5
    <3> QED BY <2>3, <3>3, <3>4
  <2> QED BY <2>4, <2>5
<1>4. \A r \in Replies : f[r] = IF up[r] = T!Root THEN 0 ELSE f[up[r]] + 1
  <2> SUFFICES ASSUME NEW r \in Replies
               PROVE  f[r] = IF up[r] = T!Root THEN 0 ELSE f[up[r]] + 1
    OBVIOUS
  <2>1. CASE up[r] = T!Root
    BY <1>2, <2>1
  <2>2. CASE up[r] # T!Root
    <3>1. f[up[r]] \in Nat
      BY <1>3, <2>2 DEF Upward
    <3>2. f[r] = g[r][f[up[r]]]
      <4> HIDE DEF g
      <4> QED BY <1>2, <2>2
    <3> QED BY <2>2, <3>1, <3>2
  <2> QED BY <2>1, <2>2
<1>5. f = [r \in Replies |-> f[r]]
  <2> HIDE DEF a, g
  <2> QED BY <1>1 DEF Solves
<1>6. Deep(f)
  BY <1>4, <1>5
<1>7. Deep(Depths(up))
  <2>1. Depths(up) = CHOOSE d : Deep(d)
    BY DEF Depths
  <2> HIDE DEF Deep
  <2> QED BY <1>6, <2>1
<1> DEFINE d == Depths(up)
<1>8. d = [r \in Replies |-> IF up[r] = T!Root THEN 0 ELSE d[up[r]] + 1]
  BY <1>7
<1>9. \A r \in Replies : d[r] = IF up[r] = T!Root THEN 0 ELSE d[up[r]] + 1
  <2> HIDE DEF d
  <2> QED BY <1>8
<1>10. d = f
  <2> DEFINE D == {r \in Replies : d[r] # f[r]}
  <2>1. ASSUME D # {} PROVE FALSE
    <3>1. PICK r \in D : \A q \in D : r <= q
      <4>1. D \subseteq Replies
        OBVIOUS
      <4> HIDE DEF D
      <4> QED BY <2>1, <4>1, Oldest
    <3>2. r \in Replies /\ r \in Nat /\ d[r] # f[r]
      BY Numbered
    <3>3. up[r] # T!Root
      <4> HIDE DEF d
      <4> QED BY <1>4, <1>9, <3>2
    <3>4. up[r] \in Replies /\ up[r] < r /\ up[r] \in Nat
      BY <3>2, <3>3, Numbered DEF Upward
    <3>5. up[r] \notin D
      <4> HIDE DEF D
      <4> QED BY <3>1, <3>2, <3>4
    <3>6. d[up[r]] = f[up[r]]
      BY <3>4, <3>5
    <3> QED
      <4> HIDE DEF d
      <4> QED BY <1>4, <1>9, <3>2, <3>3, <3>6
  <2>2. \A r \in Replies : d[r] = f[r]
    BY <2>1
  <2>3. d = [r \in Replies |-> d[r]]
    <3> HIDE DEF d
    <3> QED BY <1>8
  <2> HIDE DEF d
  <2> QED BY <1>5, <2>2, <2>3
<1>11. f \in [Replies -> Nat]
  BY <1>3, <1>5
<1> QED
  <2>1. d \in [Replies -> Nat]
    BY <1>10, <1>11
  <2> QED BY <1>9, <2>1

\* A new comment changes the depth of no other.
LEMMA DepthOfOthers ==
    ASSUME NEW up, NEW vp, NEW c \in Replies, Upward(up), Upward(vp),
           \A r \in Replies : r # c => vp[r] = up[r] /\ up[r] # c
    PROVE  \A r \in Replies : r # c => Depths(vp)[r] = Depths(up)[r]
<1> DEFINE d == Depths(up)
           e == Depths(vp)
           D == {r \in Replies : r # c /\ e[r] # d[r]}
<1> SUFFICES ASSUME D # {} PROVE FALSE
  OBVIOUS
<1>1. /\ \A r \in Replies : d[r] = IF up[r] = T!Root THEN 0 ELSE d[up[r]] + 1
      /\ \A r \in Replies : e[r] = IF vp[r] = T!Root THEN 0 ELSE e[vp[r]] + 1
  BY DepthEquation
<1>2. PICK r \in D : \A q \in D : r <= q
  <2>1. D \subseteq Replies
    OBVIOUS
  <2> HIDE DEF D
  <2> QED BY <2>1, Oldest
<1>3. r \in Replies /\ r \in Nat /\ r # c /\ e[r] # d[r]
  BY Numbered
<1> HIDE DEF d, e
<1>4. up[r] # T!Root /\ vp[r] = up[r] /\ up[r] # c
  BY <1>1, <1>3
<1>5. up[r] \in Replies /\ up[r] < r /\ up[r] \in Nat
  BY <1>3, <1>4, Numbered DEF Upward
<1>6. up[r] \notin D
  <2> HIDE DEF D
  <2> QED BY <1>2, <1>3, <1>5
<1>7. e[up[r]] = d[up[r]]
  BY <1>4, <1>5, <1>6
<1> QED BY <1>1, <1>3, <1>4, <1>7

Belows(up, state, q) ==
    CHOOSE b : b = [r \in Replies |-> r = q \/ (state[r] = "live" /\ up[r] # T!Root /\ b[up[r]])]

\* What is collected below a comment includes the live answers to all it includes.
LEMMA SubtreeIsClosed ==
    ASSUME NEW up, Upward(up), NEW state, NEW q
    PROVE  \A r \in Replies :
               state[r] = "live" /\ up[r] # T!Root /\ Belows(up, state, q)[up[r]] => Belows(up, state, q)[r]
<1> DEFINE a == [r \in Replies |-> r = q]
           g == [r \in Replies |-> [x \in BOOLEAN |-> r = q \/ (state[r] = "live" /\ x)]]
           Below(b) == b = [r \in Replies |-> r = q \/ (state[r] = "live" /\ up[r] # T!Root /\ b[up[r]])]
<1>1. PICK f : Solves(f, Replies, up, a, g)
  <2> HIDE DEF a, g
  <2> QED BY Solution
<1>2. \A r \in Replies : f[r] = IF up[r] = T!Root THEN a[r] ELSE g[r][f[up[r]]]
  <2> HIDE DEF a, g
  <2> QED BY <1>1 DEF Solves
<1>3. \A r \in Replies : f[r] \in BOOLEAN
  <2> DEFINE D == {r \in Replies : f[r] \notin BOOLEAN}
  <2>1. SUFFICES ASSUME D # {} PROVE FALSE
    OBVIOUS
  <2>2. PICK r \in D : \A p \in D : r <= p
    <3>1. D \subseteq Replies
      OBVIOUS
    <3> HIDE DEF D
    <3> QED BY <2>1, <3>1, Oldest
  <2>3. r \in Replies /\ r \in Nat /\ f[r] \notin BOOLEAN
    BY Numbered
  <2>4. CASE up[r] = T!Root
    <3>1. f[r] = a[r]
      <4> HIDE DEF a, g
      <4> QED BY <1>2, <2>3, <2>4
    <3>2. f[r] = (r = q)
      BY <2>3, <3>1
    <3> QED BY <2>3, <3>2
  <2>5. CASE up[r] # T!Root
    <3>1. up[r] \in Replies /\ up[r] < r /\ up[r] \in Nat
      BY <2>3, <2>5, Numbered DEF Upward
    <3>2. up[r] \notin D
      <4> HIDE DEF D
      <4> QED BY <2>2, <2>3, <3>1
    <3>3. f[up[r]] \in BOOLEAN
      BY <3>1, <3>2
    <3>4. f[r] = g[r][f[up[r]]]
      <4> HIDE DEF a, g
      <4> QED BY <1>2, <2>3, <2>5
    <3>5. f[r] = (r = q \/ (state[r] = "live" /\ f[up[r]]))
      BY <2>3, <3>3, <3>4
    <3> QED BY <2>3, <3>5
  <2> QED BY <2>4, <2>5
<1>4. \A r \in Replies : f[r] = (r = q \/ (state[r] = "live" /\ up[r] # T!Root /\ f[up[r]]))
  <2> SUFFICES ASSUME NEW r \in Replies
               PROVE  f[r] = (r = q \/ (state[r] = "live" /\ up[r] # T!Root /\ f[up[r]]))
    OBVIOUS
  <2>1. CASE up[r] = T!Root
    <3>1. f[r] = a[r]
      <4> HIDE DEF a, g
      <4> QED BY <1>2, <2>1
    <3>2. f[r] = (r = q)
      BY <3>1
    <3> QED BY <2>1, <3>2
  <2>2. CASE up[r] # T!Root
    <3>1. f[up[r]] \in BOOLEAN
      BY <1>3, <2>2 DEF Upward
    <3>2. f[r] = g[r][f[up[r]]]
      <4> HIDE DEF a, g
      <4> QED BY <1>2, <2>2
    <3>3. f[r] = (r = q \/ (state[r] = "live" /\ f[up[r]]))
      BY <3>1, <3>2
    <3> QED BY <2>2, <3>3
  <2> QED BY <2>1, <2>2
<1>5. f = [r \in Replies |-> f[r]]
  <2> HIDE DEF a, g
  <2> QED BY <1>1 DEF Solves
<1>6. Below(f)
  BY <1>4, <1>5
<1>7. Below(Belows(up, state, q))
  <2>1. Belows(up, state, q) = CHOOSE b : Below(b)
    BY DEF Belows
  <2> HIDE DEF Below
  <2> QED BY <1>6, <2>1
<1> DEFINE b == Belows(up, state, q)
<1>8. b = [r \in Replies |-> r = q \/ (state[r] = "live" /\ up[r] # T!Root /\ b[up[r]])]
  BY <1>7
<1> HIDE DEF b
<1>9. \A r \in Replies : b[r] = (r = q \/ (state[r] = "live" /\ up[r] # T!Root /\ b[up[r]]))
  BY <1>8
<1>10. \A r \in Replies : state[r] = "live" /\ up[r] # T!Root /\ b[up[r]] => b[r]
  BY <1>9
<1> QED BY <1>10 DEF b

LEMMA DepthIs == T!Depth = Depths(parent)
  BY DEF T!Depth, Depths

LEMMA SubtreeIs ==
    ASSUME NEW q
    PROVE  T!Subtree(q) = {r \in Replies : Belows(parent, reply, q)[r]}
  BY DEF T!Subtree, Belows

\* A request of a form, and the texts of comments.
Ask == [step : T!Steps, on : Replies \cup {T!Root}, ids : SUBSET Replies, beside : BOOLEAN]
Senders == Forms \cup {T!Nothing.form}

CommentTypes ==
    /\ reply \in [Replies -> {"new", "live", "deleted"}]
    /\ parent \in [Replies -> Replies \cup {T!Root}]
    /\ written \in [Replies -> [form : Senders, text : Nat]]
    /\ request \in [Forms -> Ask]
    /\ seen \in [People -> SUBSET Replies]
    /\ text \in [Forms -> Nat]

\* Comments are made in the order of their numbers and answer those made before.
Grown ==
    /\ Upward(parent)
    /\ \A r, s \in Replies : s < r /\ reply[s] = "new" => reply[r] = "new"
    /\ \A r \in Replies : parent[r] # T!Root => reply[parent[r]] # "new"

\* Pages and requests know only comments that were made.
Made(r) == r = T!Root \/ reply[r] # "new"
Acquainted ==
    /\ \A p \in People : \A r \in seen[p] : Made(r)
    /\ \A f \in Forms : Made(request[f].on)

\* A comment about to be made fits in the tree, and what it answers is there
\* unless a removal came by since that was read.
MayCreate(f) ==
    request[f].step = "create" /\ request[f].on # T!Root =>
        /\ Depths(parent)[request[f].on] + 1 <= MaxReplyDepth
        /\ reply[request[f].on] = "live" \/ request[f].beside

\* A removal has collected every answer to what it takes, but for stray ones.
HasCollected(f) ==
    request[f].step = "mark" =>
        \A r \in Replies : reply[r] = "live" /\ parent[r] \in request[f].ids
                               => r \in request[f].ids \/ r \in stray

\* A text that was posted is in its form only until it is loaded again, or
\* after the form was told of a failure.
TextKnown(r) ==
    reply[r] # "new" =>
        /\ written[r].form \in Forms
        /\ written[r].text <= text[written[r].form]
        /\ written[r].text = text[written[r].form] =>
               request[written[r].form].step = "reload" \/ written[r] \in misled

ThreadInv ==
    /\ CommentTypes /\ Grown /\ Acquainted
    /\ \A f \in Forms : MayCreate(f) /\ HasCollected(f)
    /\ \A r \in Replies : TextKnown(r)
    /\ T!AnswersGoWithTheirComment
    /\ \A r \in Replies : Depths(parent)[r] <= MaxReplyDepth
    /\ T!PostedOnce

LEMMA ThreadStarts == T!ThreadInit => ThreadInv
<1> SUFFICES ASSUME T!ThreadInit PROVE ThreadInv
  OBVIOUS
<1> USE DEF T!ThreadInit
<1>1. CommentTypes
  <2>1. T!Quiet \in Ask
    BY DEF T!Quiet, Ask, T!Steps
  <2>2. T!Nothing \in [form : Senders, text : Nat]
    BY DEF T!Nothing, Senders
  <2> HIDE DEF T!Nothing
  <2> QED BY <2>1, <2>2 DEF CommentTypes
<1>2. Grown
  BY DEF Grown, Upward
<1>3. Acquainted
  BY DEF Acquainted, Made, T!Quiet
<1>4. \A f \in Forms : MayCreate(f) /\ HasCollected(f)
  BY DEF MayCreate, HasCollected, T!Quiet
<1>5. \A r \in Replies : TextKnown(r)
  BY DEF TextKnown
<1>6. T!AnswersGoWithTheirComment
  BY DEF T!AnswersGoWithTheirComment, T!Live
<1>7. \A r \in Replies : Depths(parent)[r] <= MaxReplyDepth
  <2>1. \A r \in Replies : Depths(parent)[r] = 0
    BY <1>2, DepthEquation DEF Grown
  <2>2. MaxReplyDepth \in Nat
    BY PlatformConstants DEF T!ThreadConstants
  <2> QED BY <2>1, <2>2
<1>8. T!PostedOnce
  BY DEF T!PostedOnce
<1> QED BY <1>1, <1>2, <1>3, <1>4, <1>5, <1>6, <1>7, <1>8 DEF ThreadInv

-----------------------------------------------------------------------------
(* Steps that leave the comments as they are.                              *)

\* A request q that form f may have next.
Fits(q) ==
    /\ q \in Ask /\ Made(q.on)
    /\ q.step = "create" /\ q.on # T!Root =>
          /\ Depths(parent)[q.on] + 1 <= MaxReplyDepth
          /\ reply[q.on] = "live" \/ q.beside
    /\ q.step = "mark" =>
          \A r \in Replies : reply[r] = "live" /\ parent[r] \in q.ids => r \in q.ids \/ r \in stray

\* What becomes of the text of form f.
TextStays(f) ==
    /\ text' = text /\ misled \subseteq misled'
    /\ request[f].step = "reload" /\ request'[f].step # "reload" =>
           [form |-> f, text |-> text[f]] \in misled'
TextIsCleared(f) == text' = [text EXCEPT ![f] = @ + 1] /\ misled' = misled

LEMMA TurnKeeps ==
    ASSUME ThreadInv, NEW f \in Forms, NEW q, Fits(q), request' = [request EXCEPT ![f] = q],
           UNCHANGED <<reply, parent, written, stray>>,
           seen' \in [People -> SUBSET Replies], \A p \in People : \A r \in seen'[p] : Made(r),
           TextStays(f) \/ TextIsCleared(f)
    PROVE  ThreadInv'
<1>1. request \in [Forms -> Ask] /\ text \in [Forms -> Nat] /\ CommentTypes
  BY DEF ThreadInv, CommentTypes
<1>2. request' \in [Forms -> Ask] /\ \A g \in Forms : request'[g] = IF g = f THEN q ELSE request[g]
  BY <1>1 DEF Fits
<1>3. /\ text' \in [Forms -> Nat]
      /\ \A g \in Forms : text[g] \in Nat /\ text'[g] \in Nat /\ text[g] <= text'[g]
      /\ \A g \in Forms : g # f => text'[g] = text[g]
      /\ misled \subseteq misled'
  BY <1>1 DEF TextStays, TextIsCleared
<1>4. CommentTypes'
  BY <1>1, <1>2, <1>3 DEF CommentTypes
<1>5. Grown'
  BY DEF ThreadInv, Grown, Upward
<1>6. Acquainted'
  BY <1>2 DEF ThreadInv, Acquainted, Made, Fits
<1>7. ASSUME NEW g \in Forms PROVE MayCreate(g)' /\ HasCollected(g)'
  <2>1. CASE g = f
    <3>1. request'[g] = q
      BY <1>2, <2>1
    <3>2. Depths(parent') = Depths(parent)
      OBVIOUS
    <3>3. MayCreate(g)'
      BY <3>1, <3>2 DEF MayCreate, Fits
    <3>4. HasCollected(g)'
      BY <3>1 DEF HasCollected, Fits
    <3> QED BY <3>3, <3>4
  <2>2. CASE g # f
    <3>1. request'[g] = request[g]
      BY <1>2, <2>2
    <3>2. Depths(parent') = Depths(parent)
      OBVIOUS
    <3>3. MayCreate(g) /\ HasCollected(g)
      BY DEF ThreadInv
    <3>4. MayCreate(g)'
      BY <3>1, <3>2, <3>3 DEF MayCreate
    <3>5. HasCollected(g)'
      BY <3>1, <3>3 DEF HasCollected
    <3> QED BY <3>4, <3>5
  <2> QED BY <2>1, <2>2
<1>8. ASSUME NEW r \in Replies PROVE TextKnown(r)'
  <2> SUFFICES ASSUME reply[r] # "new"
               PROVE  /\ written[r].form \in Forms
                      /\ written[r].text <= text'[written[r].form]
                      /\ written[r].text = text'[written[r].form] =>
                             request'[written[r].form].step = "reload" \/ written[r] \in misled'
    BY DEF TextKnown
  <2> DEFINE g == written[r].form
             n == written[r].text
  <2>1. TextKnown(r) /\ g \in Senders /\ n \in Nat /\ written[r] = [form |-> g, text |-> n]
    BY <1>1 DEF ThreadInv, CommentTypes
  <2>2. /\ g \in Forms /\ n <= text[g]
        /\ n = text[g] => request[g].step = "reload" \/ written[r] \in misled
    BY <2>1 DEF TextKnown
  <2> HIDE DEF g, n
  <2>3. n <= text'[g]
    BY <1>3, <2>1, <2>2
  <2>4. n = text'[g] => request'[g].step = "reload" \/ written[r] \in misled'
    <3>1. CASE g # f
      BY <1>2, <1>3, <2>2, <3>1
    <3>2. CASE g = f /\ TextIsCleared(f)
      <4>1. text'[g] = text[g] + 1
        BY <1>1, <3>2 DEF TextIsCleared
      <4> QED BY <1>3, <2>1, <2>2, <4>1
    <3>3. CASE g = f /\ TextStays(f)
      <4>1. text'[g] = text[g]
        BY <3>3 DEF TextStays
      <4> QED BY <1>3, <2>1, <2>2, <3>3, <4>1 DEF TextStays
    <3> QED BY <3>1, <3>2, <3>3
  <2> QED BY <2>2, <2>3, <2>4 DEF g, n
<1>9. T!AnswersGoWithTheirComment'
  BY DEF ThreadInv, T!AnswersGoWithTheirComment, T!Live
<1>10. \A r \in Replies : Depths(parent')[r] <= MaxReplyDepth
  BY DEF ThreadInv
<1>11. T!PostedOnce'
  BY <1>3 DEF ThreadInv, T!PostedOnce
<1> QED BY <1>4, <1>5, <1>6, <1>7, <1>8, <1>9, <1>10, <1>11 DEF ThreadInv

\* The fields of a request whose step alone changes.
LEMMA NextStep ==
    ASSUME ThreadInv, NEW f \in Forms, NEW s \in T!Steps, s \notin {"create", "mark"}
    PROVE  Fits([request[f] EXCEPT !.step = s])
<1> DEFINE c == request[f]
           q == [c EXCEPT !.step = s]
<1>1. c \in Ask /\ Made(c.on)
  BY DEF ThreadInv, CommentTypes, Acquainted
<1> HIDE DEF c
<1>2. q \in Ask /\ q.step = s /\ q.on = c.on
  BY <1>1 DEF Ask
<1> HIDE DEF q
<1>3. Fits(q)
  BY <1>1, <1>2 DEF Fits
<1> QED BY <1>3 DEF q, c

LEMMA QuietFits == Fits(T!Quiet)
<1>1. T!Quiet \in Ask /\ T!Quiet.step = "none" /\ T!Quiet.on = T!Root
  BY DEF T!Quiet, Ask, T!Steps
<1> QED BY <1>1 DEF Fits, Made

LEMMA Seen ==
    ASSUME ThreadInv
    PROVE  seen \in [People -> SUBSET Replies] /\ \A p \in People : \A r \in seen[p] : Made(r)
  BY DEF ThreadInv, CommentTypes, Acquainted

LEMMA BeginKeeps ==
    ASSUME ThreadInv, NEW f \in Forms, NEW s \in T!Steps, s \notin {"create", "mark"},
           NEW r \in Replies \cup {T!Root}, Made(r), T!Begin(f, s, r)
    PROVE  ThreadInv'
<1> DEFINE q == [T!Quiet EXCEPT !.step = s, !.on = r]
<1>1. q \in Ask /\ q.step = s /\ q.on = r
  BY DEF T!Quiet, Ask, T!Steps
<1>2. /\ request' = [request EXCEPT ![f] = q]
      /\ UNCHANGED <<reply, parent, written, seen, text, stray, misled>>
      /\ request[f] = T!Quiet
  BY DEF T!Begin
<1> HIDE DEF q
<1>3. Fits(q)
  BY <1>1 DEF Fits
<1>4. TextStays(f)
  BY <1>2 DEF TextStays, T!Quiet
<1> QED BY <1>2, <1>3, <1>4, Seen, TurnKeeps

\* The steps of a form that leave the comments alone.
LEMMA SendingKeeps ==
    ASSUME ThreadInv, NEW f \in Forms,
           \/ T!SendRootReply(f) \/ T!SendReply(f) \/ T!SendRemoval(f) \/ T!SendTopicRemoval(f)
           \/ T!Open(f)
    PROVE  ThreadInv'
<1>1. PersonOf[f] \in People
  BY PlatformConstants DEF T!ThreadConstants
<1>2. Made(T!Root)
  BY DEF Made
<1>3. CASE T!SendRootReply(f)
  BY <1>2, <1>3, BeginKeeps DEF T!SendRootReply, T!Steps
<1>4. CASE T!SendReply(f)
  <2>1. PICK r \in Replies : r \in seen[PersonOf[f]] /\ T!Begin(f, "find_topic", r)
    BY <1>4 DEF T!SendReply, T!MayReply
  <2>2. Made(r)
    BY <1>1, <2>1, Seen
  <2> QED BY <2>1, <2>2, BeginKeeps DEF T!Steps
<1>5. CASE T!SendRemoval(f)
  <2>1. PICK r \in Replies : r \in seen[PersonOf[f]] /\ T!Begin(f, "find", r)
    BY <1>5 DEF T!SendRemoval, T!MayDelete
  <2>2. Made(r)
    BY <1>1, <2>1, Seen
  <2> QED BY <2>1, <2>2, BeginKeeps DEF T!Steps
<1>6. CASE T!SendTopicRemoval(f)
  BY <1>2, <1>6, BeginKeeps DEF T!SendTopicRemoval, T!Steps
<1>7. CASE T!Open(f)
  BY <1>2, <1>7, BeginKeeps DEF T!Open, T!Steps
<1> QED BY <1>3, <1>4, <1>5, <1>6, <1>7

LEMMA FailKeeps ==
    ASSUME ThreadInv, NEW f \in Forms, T!Fail(f)
    PROVE  ThreadInv'
<1>1. /\ request' = [request EXCEPT ![f] = T!Quiet]
      /\ UNCHANGED <<reply, parent, written, seen, text, stray>>
  BY DEF T!Fail, T!End
<1>2. TextStays(f)
  BY <1>1 DEF T!Fail, TextStays
<1> QED BY <1>1, <1>2, Seen, QuietFits, TurnKeeps

LEMMA LoadKeeps ==
    ASSUME ThreadInv, NEW f \in Forms, T!Load(f)
    PROVE  ThreadInv'
<1>1. /\ request' = [request EXCEPT ![f] = T!Quiet]
      /\ UNCHANGED <<reply, parent, written, stray>> /\ misled' = misled
      /\ seen' = [seen EXCEPT ![PersonOf[f]] = T!Live]
      /\ text' = [text EXCEPT ![f] = IF request[f].step = "reload" THEN @ + 1 ELSE @]
  BY DEF T!Load, T!End
<1>2. text \in [Forms -> Nat]
  BY DEF ThreadInv, CommentTypes
<1>3. TextStays(f) \/ TextIsCleared(f)
  <2>1. CASE request[f].step = "reload"
    BY <1>1, <2>1 DEF TextIsCleared
  <2>2. CASE request[f].step # "reload"
    <3>1. text' = text
      BY <1>1, <1>2, <2>2
    <3> QED BY <1>1, <2>2, <3>1 DEF TextStays
  <2> QED BY <2>1, <2>2
<1>4. T!Live \in SUBSET Replies /\ \A r \in T!Live : Made(r)
  BY DEF T!Live, Made
<1>5. seen' \in [People -> SUBSET Replies] /\ \A p \in People : \A r \in seen'[p] : Made(r)
  <2> HIDE DEF Made
  <2> QED BY <1>1, <1>4, Seen
<1> QED BY <1>1, <1>3, <1>5, QuietFits, TurnKeeps

LEMMA DropTopicKeeps ==
    ASSUME ThreadInv, NEW f \in Forms, T!DropTopic(f)
    PROVE  ThreadInv'
<1>1. /\ request' = [request EXCEPT ![f] = T!Quiet] /\ request[f].step = "drop"
      /\ UNCHANGED <<reply, parent, written, text, stray, misled>>
      /\ seen' = [seen EXCEPT ![PersonOf[f]] = {}]
  BY DEF T!DropTopic, T!End
<1>2. TextStays(f)
  BY <1>1 DEF TextStays
<1>3. seen' \in [People -> SUBSET Replies] /\ \A p \in People : \A r \in seen'[p] : Made(r)
  BY <1>1, Seen
<1> QED BY <1>1, <1>2, <1>3, QuietFits, TurnKeeps

\* The checks before a comment is made or a post is removed.
LEMMA CheckKeeps ==
    ASSUME ThreadInv, NEW f \in Forms,
           T!FindTopic(f) \/ T!FindParent(f) \/ T!FindReply(f) \/ T!FindPost(f)
    PROVE  ThreadInv'
<1> DEFINE c == request[f]
<1>1. c \in Ask /\ Made(c.on)
  BY DEF ThreadInv, CommentTypes, Acquainted
<1>2. /\ c.step \in {"find_topic", "find_parent", "find", "find_post"}
      /\ UNCHANGED <<reply, parent, written, seen, text, stray, misled>>
  BY DEF T!FindTopic, T!FindParent, T!FindReply, T!FindPost
<1>3. TextStays(f)
  BY <1>2 DEF TextStays
<1>4. ASSUME NEW s \in T!Steps, T!Step(f, s), Fits([c EXCEPT !.step = s]) PROVE ThreadInv'
  <2>1. request \in [Forms -> Ask]
    BY DEF ThreadInv, CommentTypes
  <2>2. request' = [request EXCEPT ![f] = [c EXCEPT !.step = s]]
    BY <1>4, <2>1 DEF T!Step
  <2> HIDE DEF c
  <2> QED BY <1>2, <1>3, <1>4, <2>2, Seen, TurnKeeps
<1>5. ASSUME c.on = T!Root \/ (Depths(parent)[c.on] + 1 <= MaxReplyDepth /\ reply[c.on] = "live")
      PROVE  Fits([c EXCEPT !.step = "create"])
  <2> DEFINE q == [c EXCEPT !.step = "create"]
  <2> HIDE DEF c
  <2>1. q \in Ask /\ q.step = "create" /\ q.on = c.on
    BY <1>1 DEF Ask, T!Steps
  <2> HIDE DEF q
  <2>2. Fits(q)
    BY <1>1, <1>5, <2>1 DEF Fits
  <2> QED BY <2>2 DEF q
<1>6. CASE T!FindTopic(f)
  <2>1. CASE c.on = T!Root
    BY <1>4, <1>5, <1>6, <2>1 DEF T!FindTopic, T!Steps
  <2>2. CASE c.on # T!Root
    BY <1>4, <1>6, <2>2, NextStep DEF T!FindTopic, T!Steps
  <2> QED BY <2>1, <2>2
<1>7. CASE T!FindParent(f)
  BY <1>4, <1>5, <1>7, DepthIs DEF T!FindParent, T!Steps
<1>8. CASE T!FindReply(f)
  BY <1>4, <1>8, NextStep DEF T!FindReply, T!Steps
<1>9. CASE T!FindPost(f)
  BY <1>4, <1>9, NextStep DEF T!FindPost, T!Steps
<1> QED BY <1>6, <1>7, <1>8, <1>9

LEMMA CollectKeeps ==
    ASSUME ThreadInv, NEW f \in Forms, T!Collect(f)
    PROVE  ThreadInv'
<1> DEFINE c == request[f]
           ids == T!Subtree(c.on)
           q == [c EXCEPT !.step = "mark", !.ids = ids]
<1>1. c \in Ask /\ Made(c.on) /\ request \in [Forms -> Ask]
  BY DEF ThreadInv, CommentTypes, Acquainted
<1>2. /\ c.step = "collect"
      /\ request' = [request EXCEPT ![f] = [@ EXCEPT !.step = "mark", !.ids = ids]]
      /\ UNCHANGED <<reply, parent, written, seen, text, stray, misled>>
  BY DEF T!Collect
<1>3. ids = {r \in Replies : Belows(parent, reply, c.on)[r]}
  BY SubtreeIs
<1>4. Upward(parent)
  BY DEF ThreadInv, Grown
<1>5. ASSUME NEW r \in Replies, reply[r] = "live", parent[r] \in ids PROVE r \in ids
  <2> HIDE DEF ids, c
  <2>1. parent[r] \in Replies /\ Belows(parent, reply, c.on)[parent[r]]
    BY <1>3, <1>5
  <2>2. parent[r] # T!Root
    BY <2>1, Numbered DEF T!Root
  <2>3. Belows(parent, reply, c.on)[r]
    BY <1>4, <1>5, <2>1, <2>2, SubtreeIsClosed
  <2> QED BY <1>3, <2>3
<1>6. ids \in SUBSET Replies
  <2> HIDE DEF ids
  <2> QED BY <1>3
<1>7. TextStays(f)
  BY <1>2 DEF TextStays
<1> HIDE DEF ids
<1>8. request' = [request EXCEPT ![f] = q]
  BY <1>1, <1>2
<1> HIDE DEF c
<1>9. q \in Ask /\ q.step = "mark" /\ q.on = c.on /\ q.ids = ids
  BY <1>1, <1>6 DEF Ask, T!Steps
<1> HIDE DEF q
<1>10. Fits(q)
  BY <1>1, <1>5, <1>9 DEF Fits
<1> QED BY <1>2, <1>7, <1>8, <1>10, Seen, TurnKeeps

\* The removal itself: updateMany on what was collected.
LEMMA MarkKeeps ==
    ASSUME ThreadInv, NEW f \in Forms, T!Mark(f)
    PROVE  ThreadInv'
<1> DEFINE ids == request[f].ids
           q == [T!Quiet EXCEPT !.step = "load", !.on = request[f].on]
<1>1. /\ request \in [Forms -> Ask] /\ request[f] \in Ask
      /\ reply \in [Replies -> {"new", "live", "deleted"}]
  BY DEF ThreadInv, CommentTypes
<1>2. /\ request[f].step = "mark"
      /\ reply' = [r \in Replies |-> IF r \in ids /\ reply[r] = "live" THEN "deleted" ELSE reply[r]]
      /\ request' = [g \in Forms |->
                       IF g = f THEN q
                       ELSE [request[g] EXCEPT !.beside = @ \/ request[g].step = "create"]]
      /\ UNCHANGED <<parent, written, seen, text, stray, misled>>
  BY DEF T!Mark
<1>3. q \in Ask /\ q.step = "load" /\ q.on = request[f].on
  BY <1>1 DEF Ask, T!Quiet, T!Steps
<1> HIDE DEF q
<1>4. request'[f] = q
  BY <1>2
<1>5. ASSUME NEW g \in Forms, g # f
      PROVE  /\ request'[g] \in Ask /\ request'[g].step = request[g].step
             /\ request'[g].on = request[g].on /\ request'[g].ids = request[g].ids
             /\ request[g].step = "create" => request'[g].beside
  <2> DEFINE c == request[g]
  <2>1. c \in Ask
    BY <1>1
  <2>2. request'[g] = [c EXCEPT !.beside = @ \/ c.step = "create"]
    BY <1>2, <1>5
  <2> HIDE DEF c
  <2>3. c.beside \in BOOLEAN
    BY <2>1 DEF Ask
  <2>4. (c.beside \/ c.step = "create") \in BOOLEAN
    OBVIOUS
  <2>5. /\ request'[g] \in Ask /\ request'[g].step = c.step
        /\ request'[g].on = c.on /\ request'[g].ids = c.ids
        /\ c.step = "create" => request'[g].beside
    BY <2>1, <2>2, <2>4 DEF Ask
  <2> QED BY <2>5 DEF c
<1>6. /\ reply' \in [Replies -> {"new", "live", "deleted"}]
      /\ \A r \in Replies : reply'[r] = "new" <=> reply[r] = "new"
      /\ \A r \in Replies : reply'[r] = "live" <=> reply[r] = "live" /\ r \notin ids
  <2> HIDE DEF ids
  <2> QED BY <1>1, <1>2
<1>7. DOMAIN request' = Forms /\ request' = [g \in DOMAIN request' |-> request'[g]]
  BY <1>2
<1>8. request' \in [Forms -> Ask]
  BY <1>3, <1>4, <1>5, <1>7
<1>9. CommentTypes'
  BY <1>2, <1>6, <1>8 DEF ThreadInv, CommentTypes
<1>10. Grown'
  BY <1>2, <1>6 DEF ThreadInv, Grown, Upward
<1>11. Acquainted'
  <2>1. \A g \in Forms : request'[g].on = request[g].on
    BY <1>3, <1>4, <1>5
  <2>2. \A r \in Replies \cup {T!Root} : Made(r)' <=> Made(r)
    BY <1>6 DEF Made
  <2>3. \A p \in People : seen'[p] \subseteq Replies
    BY <1>9 DEF CommentTypes
  <2>4. \A g \in Forms : request'[g].on \in Replies \cup {T!Root}
    BY <1>8 DEF Ask
  <2>5. Acquainted
    BY DEF ThreadInv
  <2>6. \A p \in People : \A r \in seen[p] : Made(r)'
    <3> HIDE DEF Made
    <3> QED BY <1>2, <2>2, <2>3, <2>5 DEF Acquainted
  <2>7. \A g \in Forms : (Made(request[g].on))'
    <3> SUFFICES ASSUME NEW g \in Forms PROVE (Made(request[g].on))'
      OBVIOUS
    <3>1. Made(request[g].on)
      BY <2>5 DEF Acquainted
    <3> QED BY <1>6, <2>1, <2>4, <3>1 DEF Made
  <2> QED BY <1>2, <2>6, <2>7 DEF Acquainted
<1>12. ASSUME NEW g \in Forms PROVE MayCreate(g)' /\ HasCollected(g)'
  <2>1. CASE g = f
    BY <1>3, <1>4, <2>1 DEF MayCreate, HasCollected
  <2>2. CASE g # f
    <3>1. MayCreate(g) /\ HasCollected(g)
      BY DEF ThreadInv
    <3>2. Depths(parent') = Depths(parent)
      BY <1>2
    <3>3. MayCreate(g)'
      BY <1>5, <2>2, <3>1, <3>2 DEF MayCreate
    <3>4. HasCollected(g)'
      BY <1>2, <1>5, <1>6, <2>2, <3>1 DEF HasCollected
    <3> QED BY <3>3, <3>4
  <2> QED BY <2>1, <2>2
<1>13. ASSUME NEW r \in Replies PROVE TextKnown(r)'
  <2>1. TextKnown(r)
    BY DEF ThreadInv
  <2>2. \A g \in Forms : request[g].step = "reload" => request'[g].step = "reload"
    BY <1>2, <1>5
  <2> QED BY <1>2, <1>6, <2>1, <2>2 DEF TextKnown
<1>14. T!AnswersGoWithTheirComment'
  <2> SUFFICES ASSUME NEW r \in Replies, reply'[r] = "live", parent[r] # T!Root, r \notin stray
               PROVE  reply'[parent[r]] = "live"
    BY <1>2 DEF T!AnswersGoWithTheirComment, T!Live
  <2>1. parent[r] \in Replies
    BY DEF ThreadInv, CommentTypes
  <2>2. reply[r] = "live" /\ r \notin ids
    BY <1>6
  <2>3. reply[parent[r]] = "live"
    BY <2>2 DEF ThreadInv, T!AnswersGoWithTheirComment, T!Live
  <2>4. parent[r] \notin ids
    BY <1>2, <2>2 DEF ThreadInv, HasCollected
  <2> QED BY <1>6, <2>1, <2>3, <2>4
<1>15. \A r \in Replies : Depths(parent')[r] <= MaxReplyDepth
  BY <1>2 DEF ThreadInv
<1>16. T!PostedOnce'
  BY <1>2, <1>6 DEF ThreadInv, T!PostedOnce
<1> QED BY <1>9, <1>10, <1>11, <1>12, <1>13, <1>14, <1>15, <1>16 DEF ThreadInv

-----------------------------------------------------------------------------
\* A comment is made.
LEMMA PostKeeps ==
    ASSUME ThreadInv, NEW f \in Forms, T!Create(f)
    PROVE  ThreadInv'
<1> DEFINE c == request[f]
           q == [c EXCEPT !.step = "reload"]
           post == [form |-> f, text |-> text[f]]
<1>1. PICK r \in Replies :
         /\ reply[r] = "new"
         /\ \A s \in Replies : s < r => reply[s] # "new"
         /\ reply' = [reply EXCEPT ![r] = "live"]
         /\ parent' = [parent EXCEPT ![r] = c.on]
         /\ written' = [written EXCEPT ![r] = post]
         /\ stray' = IF c.beside \/ T!Removing # {} THEN stray \cup {r} ELSE stray
  BY DEF T!Create
<1>2. /\ c.step = "create" /\ request' = [request EXCEPT ![f].step = "reload"]
      /\ UNCHANGED <<seen, text, misled>>
  BY DEF T!Create, T!Step
<1>3. CommentTypes /\ Grown /\ Acquainted /\ c \in Ask
  BY DEF ThreadInv, CommentTypes
<1>4. request' \in [Forms -> Ask] /\ \A g \in Forms : request'[g] = IF g = f THEN q ELSE request[g]
  <2>1. q \in Ask
    <3> HIDE DEF c
    <3> QED BY <1>3 DEF Ask, T!Steps
  <2> QED BY <1>2, <1>3, <2>1 DEF CommentTypes
<1>5. q.step = "reload" /\ q.on = c.on
  <2> HIDE DEF c
  <2> QED BY <1>3 DEF Ask
<1>6. post \in [form : Senders, text : Nat] /\ post.form = f /\ post.text = text[f]
  BY <1>3 DEF CommentTypes, Senders
<1> HIDE DEF q, post
<1>7. /\ \A x \in Replies : reply'[x] = IF x = r THEN "live" ELSE reply[x]
      /\ \A x \in Replies : parent'[x] = IF x = r THEN c.on ELSE parent[x]
      /\ \A x \in Replies : written'[x] = IF x = r THEN post ELSE written[x]
  <2> HIDE DEF c
  <2> QED BY <1>1, <1>3 DEF CommentTypes
<1>8. c.on \in Replies \cup {T!Root} /\ (c.on # T!Root => c.on \in Replies /\ reply[c.on] # "new")
  <2>1. Made(c.on)
    BY <1>3 DEF Acquainted
  <2>2. c.on \in Replies \cup {T!Root}
    <3> HIDE DEF c
    <3> QED BY <1>3 DEF Ask
  <2> QED BY <2>1, <2>2 DEF Made
<1>9. c.on # T!Root => c.on < r /\ c.on # r
  <2> SUFFICES ASSUME c.on # T!Root PROVE c.on < r /\ c.on # r
    OBVIOUS
  <2>1. c.on \in Replies /\ reply[c.on] # "new" /\ c.on # r
    BY <1>1, <1>8
  <2>2. ~(r < c.on)
    BY <1>1, <1>3, <2>1 DEF Grown
  <2> HIDE DEF c
  <2> QED BY <2>1, <2>2, Numbered
<1>10. \A x \in Replies : parent[x] # r
  BY <1>1, <1>3, Numbered DEF Grown, T!Root
<1>11. CommentTypes'
  <2> HIDE DEF c
  <2> QED BY <1>1, <1>2, <1>3, <1>4, <1>6, <1>8 DEF CommentTypes
<1>12. Grown'
  <2> HIDE DEF c
  <2>1. Upward(parent')
    BY <1>3, <1>7, <1>8, <1>9 DEF Grown, Upward
  <2>2. \A x, s \in Replies : s < x /\ reply'[s] = "new" => reply'[x] = "new"
    BY <1>1, <1>3, <1>7 DEF Grown
  <2>3. ASSUME NEW x \in Replies, parent'[x] # T!Root PROVE reply'[parent'[x]] # "new"
    <3>1. CASE x = r
      BY <1>7, <1>8, <2>3, <3>1
    <3>2. CASE x # r
      <4>1. parent'[x] = parent[x] /\ parent[x] \in Replies /\ reply[parent[x]] # "new"
        BY <1>3, <1>7, <2>3, <3>2 DEF Grown, Upward
      <4> QED BY <1>7, <4>1
    <3> QED BY <3>1, <3>2
  <2> QED BY <2>1, <2>2, <2>3 DEF Grown
<1>13. \A x \in Replies : x # r => Depths(parent')[x] = Depths(parent)[x]
  <2>1. Upward(parent) /\ Upward(parent')
    BY <1>3, <1>12 DEF Grown
  <2>2. \A x \in Replies : x # r => parent'[x] = parent[x] /\ parent[x] # r
    BY <1>7, <1>10
  <2> QED BY <2>1, <2>2, DepthOfOthers
<1>14. Acquainted'
  <2>1. \A x \in Replies : reply[x] # "new" => reply'[x] # "new"
    BY <1>7
  <2>2. \A p \in People : seen[p] \subseteq Replies
    BY <1>3 DEF CommentTypes
  <2>3. \A g \in Forms : request'[g].on = request[g].on /\ request[g].on \in Replies \cup {T!Root}
    <3>1. \A g \in Forms : request[g].on \in Replies \cup {T!Root}
      BY <1>3 DEF CommentTypes, Ask
    <3> QED BY <1>4, <1>5, <3>1
  <2> HIDE DEF c
  <2> QED BY <1>2, <1>3, <2>1, <2>2, <2>3 DEF Acquainted, Made
<1>15. ASSUME NEW g \in Forms PROVE MayCreate(g)' /\ HasCollected(g)'
  <2>1. CASE g = f
    BY <1>4, <1>5, <2>1 DEF MayCreate, HasCollected
  <2>2. CASE g # f
    <3>1. request'[g] = request[g] /\ MayCreate(g) /\ HasCollected(g) /\ request[g] \in Ask
      BY <1>3, <1>4, <2>2 DEF ThreadInv, CommentTypes
    <3>2. MayCreate(g)'
      <4> SUFFICES ASSUME request[g].step = "create", request[g].on # T!Root
                   PROVE  /\ Depths(parent')[request[g].on] + 1 <= MaxReplyDepth
                          /\ reply'[request[g].on] = "live" \/ request[g].beside
        BY <3>1 DEF MayCreate
      <4>1. request[g].on \in Replies
        BY <3>1 DEF Ask
      <4>2. request[g].on # r
        BY <1>1, <1>3, <4>1 DEF Acquainted, Made
      <4> QED BY <1>7, <1>13, <3>1, <4>1, <4>2 DEF MayCreate
    <3>3. HasCollected(g)'
      <4> SUFFICES ASSUME request[g].step = "mark", NEW x \in Replies, reply'[x] = "live",
                          parent'[x] \in request[g].ids
                   PROVE  x \in request[g].ids \/ x \in stray'
        BY <3>1 DEF HasCollected
      <4>1. g \in T!Removing
        BY DEF T!Removing
      <4>2. stray' = stray \cup {r}
        BY <1>1, <4>1
      <4> HIDE DEF c
      <4> QED BY <1>7, <3>1, <4>2 DEF HasCollected
    <3> QED BY <3>2, <3>3
  <2> QED BY <2>1, <2>2
<1>16. ASSUME NEW x \in Replies PROVE TextKnown(x)'
  <2>1. TextKnown(x) /\ \A g \in Forms : g # f => request'[g] = request[g]
    BY <1>4 DEF ThreadInv
  <2>2. CASE x = r
    <3>1. written'[x] = post /\ request'[f].step = "reload" /\ text[f] \in Nat
      BY <1>3, <1>4, <1>5, <1>7, <2>2 DEF CommentTypes
    <3> QED BY <1>2, <1>6, <3>1 DEF TextKnown
  <2>3. CASE x # r
    <3>1. written'[x] = written[x] /\ reply'[x] = reply[x]
      BY <1>7, <2>3
    <3> QED BY <1>2, <2>1, <3>1 DEF TextKnown
  <2> QED BY <2>2, <2>3
<1>17. T!AnswersGoWithTheirComment'
  <2> SUFFICES ASSUME NEW x \in Replies, reply'[x] = "live", parent'[x] # T!Root, x \notin stray'
               PROVE  reply'[parent'[x]] = "live"
    BY DEF T!AnswersGoWithTheirComment, T!Live
  <2>1. CASE x = r
    <3>1. c.on # T!Root /\ c.on \in Replies /\ parent'[x] = c.on /\ ~c.beside
      BY <1>1, <1>7, <1>8, <2>1
    <3>2. reply[c.on] = "live"
      BY <1>2, <3>1 DEF ThreadInv, MayCreate
    <3> HIDE DEF c
    <3> QED BY <1>7, <3>1, <3>2
  <2>2. CASE x # r
    <3>1. parent'[x] = parent[x] /\ reply[x] = "live" /\ parent[x] \in Replies /\ x \notin stray
      BY <1>1, <1>3, <1>7, <2>2 DEF CommentTypes
    <3>2. reply[parent[x]] = "live"
      BY <3>1 DEF ThreadInv, T!AnswersGoWithTheirComment, T!Live
    <3> QED BY <1>7, <3>1, <3>2
  <2> QED BY <2>1, <2>2
<1>18. ASSUME NEW x \in Replies PROVE Depths(parent')[x] <= MaxReplyDepth
  <2>1. Depths(parent)[x] <= MaxReplyDepth
    BY DEF ThreadInv
  <2>2. CASE x # r
    BY <1>13, <2>1, <2>2
  <2>3. CASE x = r
    <3>1. Depths(parent')[r] = IF c.on = T!Root THEN 0 ELSE Depths(parent')[c.on] + 1
      <4>1. parent'[r] = c.on /\ Upward(parent')
        BY <1>7, <1>12 DEF Grown
      <4> HIDE DEF c
      <4> QED BY <4>1, DepthEquation
    <3>2. CASE c.on = T!Root
      BY <2>3, <3>1, <3>2, PlatformConstants DEF T!ThreadConstants
    <3>3. CASE c.on # T!Root
      <4>1. Depths(parent')[c.on] = Depths(parent)[c.on]
        BY <1>8, <1>9, <1>13, <3>3
      <4>2. Depths(parent)[c.on] + 1 <= MaxReplyDepth
        BY <1>2, <3>3 DEF ThreadInv, MayCreate
      <4> QED BY <2>3, <3>1, <3>3, <4>1, <4>2
    <3> QED BY <3>2, <3>3
  <2> QED BY <2>2, <2>3
<1>19. T!PostedOnce'
  <2> SUFFICES ASSUME NEW x \in Replies, NEW y \in Replies, x # y, written'[x] = written'[y],
                      reply'[x] # "new", reply'[y] # "new"
               PROVE  written'[x] \in misled
    BY <1>2 DEF T!PostedOnce
  <2>1. ASSUME NEW z \in Replies, z # r, reply[z] # "new", written[z] = post
        PROVE  post \in misled
    BY <1>2, <1>6, <2>1 DEF ThreadInv, TextKnown
  <2>2. CASE x # r /\ y # r
    BY <1>7, <2>2 DEF ThreadInv, T!PostedOnce
  <2>3. CASE x = r
    BY <1>7, <2>1, <2>3
  <2>4. CASE y = r
    BY <1>7, <2>1, <2>4
  <2> QED BY <2>2, <2>3, <2>4
<1> QED BY <1>11, <1>12, <1>14, <1>15, <1>16, <1>17, <1>18, <1>19 DEF ThreadInv

-----------------------------------------------------------------------------
LEMMA ThreadApart ==
    PlatformSafe => T!ThreadInit /\ [][T!ThreadNext]_threadVars
<1>1. PlatformInit => T!ThreadInit
  BY DEF PlatformInit
<1>2. [PlatformNext]_platformVars => [T!ThreadNext]_threadVars
  <2>1. Runs("thread") /\ T!ThreadNext /\ Only("thread") => T!ThreadNext
    OBVIOUS
  <2> QED BY <2>1 DEF PlatformNext, Only, threadVars, platformVars
<1> QED BY <1>1, <1>2, PTL DEF PlatformSafe

\* For any number of people, forms, comments and levels: below a comment that was
\* removed nothing is live that was there when it was removed, no comment is deeper
\* than the limit, and a text is posted twice only by a form that was told of a
\* failure (community.service.ts, CommunityThread.tsx).
THEOREM ThreadsAreWhole == PlatformSafe => []ThreadIsWhole
<1>1. T!ThreadInit => ThreadInv
  BY ThreadStarts
<1>2. ThreadInv /\ [T!ThreadNext]_threadVars => ThreadInv'
  <2>1. ASSUME ThreadInv, T!ThreadNext
        PROVE  ThreadInv'
    BY <2>1, SendingKeeps, FailKeeps, LoadKeeps, DropTopicKeeps, CheckKeeps, CollectKeeps,
       MarkKeeps, PostKeeps DEF T!ThreadNext
  <2>2. ASSUME ThreadInv, UNCHANGED threadVars
        PROVE  ThreadInv'
    <3> USE <2>2 DEF ThreadInv, threadVars
    <3>1. CommentTypes' /\ Grown' /\ Acquainted'
      BY DEF CommentTypes, Grown, Upward, Acquainted, Made
    <3>2. \A f \in Forms : MayCreate(f)' /\ HasCollected(f)'
      BY DEF MayCreate, HasCollected
    <3>3. \A r \in Replies : TextKnown(r)'
      BY DEF TextKnown
    <3>4. T!AnswersGoWithTheirComment' /\ T!PostedOnce'
      BY DEF T!AnswersGoWithTheirComment, T!PostedOnce, T!Live
    <3>5. \A r \in Replies : Depths(parent')[r] <= MaxReplyDepth
      OBVIOUS
    <3> QED BY <3>1, <3>2, <3>3, <3>4, <3>5
  <2> QED BY <2>1, <2>2
<1>3. ThreadInv => ThreadIsWhole
  BY DepthIs DEF ThreadInv, ThreadIsWhole, T!ThreadIsWhole, T!DepthIsBounded
<1> QED BY <1>1, <1>2, <1>3, ThreadApart, PTL

-----------------------------------------------------------------------------
(* The types of the thread.  A form that has sent a text has not written   *)
(* more than the bound: only then can it be told to clear it.              *)

Requests == [step : T!Steps, on : Replies \cup {T!Root}, ids : SUBSET Replies, beside : BOOLEAN]
Posting == {"find_topic", "find_parent", "create", "reload"}
StillWrites(f) == request[f].step \in Posting => text[f] <= MaxTexts
ThreadTyped == T!ThreadTypeOK /\ \A f \in Forms : StillWrites(f)

\* One form's request moves on.
LEMMA RequestMoves ==
    ASSUME T!ThreadConstants, ThreadTyped, NEW f \in Forms, NEW q \in Requests,
           request' = [request EXCEPT ![f] = q], text' = text,
           q.step \in Posting => text[f] <= MaxTexts
    PROVE  /\ request' \in [Forms -> Requests]
           /\ text' \in [Forms -> 1 .. MaxTexts + 1]
           /\ \A g \in Forms : StillWrites(g)'
<1>1. request \in [Forms -> Requests]
  BY DEF ThreadTyped, T!ThreadTypeOK, Requests
<1>2. request' \in [Forms -> Requests]
  BY <1>1
<1>3. ASSUME NEW g \in Forms
      PROVE  StillWrites(g)'
  <2>1. StillWrites(g)
    BY DEF ThreadTyped
  <2>2. CASE g = f
    <3>1. request'[g] = q
      BY <1>1, <2>2
    <3> QED BY <2>2, <3>1 DEF StillWrites
  <2>3. CASE g # f
    BY <1>1, <2>1, <2>3 DEF StillWrites
  <2> QED BY <2>2, <2>3
<1>4. text' \in [Forms -> 1 .. MaxTexts + 1]
  BY DEF ThreadTyped, T!ThreadTypeOK
<1> QED BY <1>2, <1>3, <1>4

LEMMA RequestOf ==
    ASSUME ThreadTyped, NEW f \in Forms
    PROVE  /\ request[f] \in Requests /\ T!Quiet \in Requests
           /\ \A s \in T!Steps : [request[f] EXCEPT !.step = s] \in Requests
           /\ \A s \in T!Steps, on \in Replies \cup {T!Root} :
                [T!Quiet EXCEPT !.step = s, !.on = on] \in Requests
<1>1. request[f] \in Requests
  BY DEF ThreadTyped, T!ThreadTypeOK, Requests
<1>2. T!Quiet \in Requests
  BY DEF T!Quiet, T!Steps, Requests
<1>3. \A q \in Requests, s \in T!Steps, on \in Replies \cup {T!Root} :
         [q EXCEPT !.step = s] \in Requests /\ [q EXCEPT !.step = s, !.on = on] \in Requests
  BY DEF Requests
<1> HIDE DEF Requests
<1> QED BY <1>1, <1>2, <1>3, Zenon

LEMMA BeginTyped ==
    ASSUME T!ThreadConstants, ThreadTyped, NEW f \in Forms, NEW s \in T!Steps,
           NEW on \in Replies \cup {T!Root}, T!Begin(f, s, on),
           s \in Posting => text[f] <= MaxTexts
    PROVE  ThreadTyped'
<1> DEFINE q == [T!Quiet EXCEPT !.step = s, !.on = on]
<1>1. q \in Requests /\ q.step = s
  BY RequestOf DEF T!Quiet
<1>2. request' = [request EXCEPT ![f] = q] /\ text' = text
  BY DEF T!Begin
<1> HIDE DEF q
<1>3. /\ request' \in [Forms -> Requests]
      /\ text' \in [Forms -> 1 .. MaxTexts + 1]
      /\ \A g \in Forms : StillWrites(g)'
  BY <1>1, <1>2, RequestMoves
<1>4. sent' \in 0 .. MaxRequests
  BY DEF T!Begin, ThreadTyped, T!ThreadTypeOK, T!ThreadConstants
<1> QED BY <1>3, <1>4 DEF T!Begin, ThreadTyped, T!ThreadTypeOK, Requests

LEMMA SendingTyped ==
    ASSUME T!ThreadConstants, ThreadTyped, NEW f \in Forms,
           \/ text[f] <= MaxTexts /\ (T!SendRootReply(f) \/ T!SendReply(f))
           \/ T!SendRemoval(f) \/ T!SendTopicRemoval(f) \/ T!Open(f)
    PROVE  ThreadTyped'
<1>1. \E s \in T!Steps, on \in Replies \cup {T!Root} :
         T!Begin(f, s, on) /\ (s \in Posting => text[f] <= MaxTexts)
  BY DEF T!SendRootReply, T!SendReply, T!SendRemoval, T!SendTopicRemoval, T!Open, T!Steps, Posting
<1> QED BY <1>1, BeginTyped

\* The steps that only go on, or give up.
LEMMA TurnTyped ==
    ASSUME T!ThreadConstants, ThreadTyped, NEW f \in Forms,
           \/ T!FindTopic(f) \/ T!FindParent(f) \/ T!FindReply(f) \/ T!FindPost(f)
           \/ T!Fail(f) \/ T!Collect(f)
    PROVE  ThreadTyped'
<1>1. /\ request[f] \in Requests /\ T!Quiet \in Requests
      /\ StillWrites(f) /\ text[f] \in 1 .. MaxTexts + 1
  BY RequestOf DEF ThreadTyped, T!ThreadTypeOK
<1>2. CASE T!FindTopic(f) \/ T!FindParent(f) \/ T!FindReply(f) \/ T!FindPost(f)
  <2>1. PICK s \in T!Steps : T!Step(f, s) /\ (s \in Posting => request[f].step \in Posting)
    BY <1>2 DEF T!FindTopic, T!FindParent, T!FindReply, T!FindPost, T!Steps, Posting
  <2> DEFINE q == [request[f] EXCEPT !.step = s]
  <2>2. q \in Requests /\ q.step = s
    BY <1>1, RequestOf DEF Requests
  <2>3. request' = [request EXCEPT ![f] = q] /\ text' = text
    BY <1>2, <2>1 DEF T!Step, T!FindTopic, T!FindParent, T!FindReply, T!FindPost
  <2> HIDE DEF q
  <2>4. q.step \in Posting => text[f] <= MaxTexts
    BY <1>1, <2>1, <2>2 DEF StillWrites
  <2>5. /\ request' \in [Forms -> Requests]
        /\ text' \in [Forms -> 1 .. MaxTexts + 1]
        /\ \A g \in Forms : StillWrites(g)'
    BY <2>2, <2>3, <2>4, RequestMoves
  <2> QED BY <1>2, <2>5 DEF T!FindTopic, T!FindParent, T!FindReply, T!FindPost, ThreadTyped,
             T!ThreadTypeOK, Requests
<1>3. CASE T!Fail(f)
  <2>1. request' = [request EXCEPT ![f] = T!Quiet] /\ text' = text /\ T!Quiet.step \notin Posting
    BY <1>3 DEF T!Fail, T!End, T!Quiet, Posting
  <2>2. /\ request' \in [Forms -> Requests]
        /\ text' \in [Forms -> 1 .. MaxTexts + 1]
        /\ \A g \in Forms : StillWrites(g)'
    BY <1>1, <2>1, RequestMoves
  <2>3. misled' \in SUBSET [form : Forms, text : 1 .. MaxTexts + 1]
    BY <1>1, <1>3 DEF T!Fail, ThreadTyped, T!ThreadTypeOK
  <2> QED BY <1>3, <2>2, <2>3 DEF T!Fail, ThreadTyped, T!ThreadTypeOK, Requests
<1>4. CASE T!Collect(f)
  <2> DEFINE below == T!Subtree(request[f].on)
             q == [request[f] EXCEPT !.step = "mark", !.ids = below]
  <2>1. below \in SUBSET Replies
    BY DEF T!Subtree
  <2>2. request' = [request EXCEPT ![f] = q] /\ text' = text
    BY <1>1, <1>4 DEF T!Collect, ThreadTyped, T!ThreadTypeOK
  <2> HIDE DEF below
  <2>3. q \in Requests /\ q.step = "mark"
    BY <1>1, <2>1 DEF Requests, T!Steps
  <2> HIDE DEF q
  <2>4. /\ request' \in [Forms -> Requests]
        /\ text' \in [Forms -> 1 .. MaxTexts + 1]
        /\ \A g \in Forms : StillWrites(g)'
    BY <2>2, <2>3, RequestMoves DEF Posting
  <2> QED BY <1>4, <2>4 DEF T!Collect, ThreadTyped, T!ThreadTypeOK, Requests
<1> QED BY <1>2, <1>3, <1>4

\* The steps that store something.
LEMMA CreateTyped ==
    ASSUME T!ThreadConstants, ThreadTyped, NEW f \in Forms, T!Create(f)
    PROVE  ThreadTyped'
<1>1. /\ request[f] \in Requests /\ request[f].on \in Replies \cup {T!Root}
      /\ text[f] \in 0 .. MaxTexts
  <2>1. request[f] \in Requests
    BY RequestOf
  <2>2. StillWrites(f) /\ request[f].step = "create" /\ text[f] \in 1 .. MaxTexts + 1
    BY DEF T!Create, ThreadTyped, T!ThreadTypeOK
  <2>3. text[f] \in 0 .. MaxTexts
    BY <2>2 DEF StillWrites, Posting, T!ThreadConstants
  <2> QED BY <2>1, <2>3 DEF Requests
<1> DEFINE q == [request[f] EXCEPT !.step = "reload"]
<1>2. q \in Requests /\ q.step = "reload"
  <2> DEFINE d == request[f]
  <2>1. d \in Requests
    BY <1>1
  <2>2. q = [d EXCEPT !.step = "reload"]
    OBVIOUS
  <2> HIDE DEF d, q
  <2> QED BY <2>1, <2>2 DEF T!Steps, Requests
<1>3. request' = [request EXCEPT ![f] = q] /\ text' = text
  BY DEF T!Create, T!Step
<1> HIDE DEF q
<1>4. /\ request' \in [Forms -> Requests]
      /\ text' \in [Forms -> 1 .. MaxTexts + 1]
      /\ \A g \in Forms : StillWrites(g)'
  <2>1. q.step \in Posting => text[f] <= MaxTexts
    BY <1>1 DEF T!ThreadConstants
  <2> QED BY <1>2, <1>3, <2>1, RequestMoves
<1>5. PICK r \in Replies :
         /\ reply' = [reply EXCEPT ![r] = "live"]
         /\ parent' = [parent EXCEPT ![r] = request[f].on]
         /\ written' = [written EXCEPT ![r] = [form |-> f, text |-> text[f]]]
         /\ stray' \in {stray, stray \cup {r}}
  BY DEF T!Create
<1>6. /\ reply' \in [Replies -> {"new", "live", "deleted"}]
      /\ parent' \in [Replies -> Replies \cup {T!Root}]
      /\ stray' \in SUBSET Replies
  BY <1>1, <1>5 DEF ThreadTyped, T!ThreadTypeOK
<1>7. written' \in [Replies -> [form : Forms, text : 0 .. MaxTexts]]
  BY <1>1, <1>5 DEF ThreadTyped, T!ThreadTypeOK
<1> QED BY <1>4, <1>6, <1>7 DEF T!Create, ThreadTyped, T!ThreadTypeOK, Requests

LEMMA MarkTyped ==
    ASSUME T!ThreadConstants, ThreadTyped, NEW f \in Forms, T!Mark(f)
    PROVE  ThreadTyped'
<1>1. request[f].on \in Replies \cup {T!Root}
  BY RequestOf DEF Requests
<1> DEFINE after(g) == IF g = f THEN [T!Quiet EXCEPT !.step = "load", !.on = request[f].on]
                       ELSE [request[g] EXCEPT !.beside = @ \/ request[g].step = "create"]
<1>2. ASSUME NEW g \in Forms
      PROVE  after(g) \in Requests /\ (after(g).step \in Posting => request[g].step \in Posting)
  <2>1. request[g] \in Requests
    BY RequestOf
  <2>2. CASE g = f
    BY <1>1, <2>2 DEF Requests, T!Quiet, T!Steps, Posting
  <2>3. CASE g # f
    <3> DEFINE d == request[g]
               both == d.beside \/ d.step = "create"
    <3>1. d \in Requests /\ both \in BOOLEAN
      BY <2>1 DEF Requests
    <3>2. after(g) = [d EXCEPT !.beside = both]
      BY <2>3
    <3> HIDE DEF d, both, after
    <3>3. after(g) \in Requests /\ after(g).step = d.step
      BY <3>1, <3>2 DEF Requests
    <3> QED BY <3>3 DEF d
  <2> QED BY <2>2, <2>3
<1>3. request' = [g \in Forms |-> after(g)] /\ text' = text
  BY DEF T!Mark
<1> HIDE DEF after
<1>4. request' \in [Forms -> Requests]
  BY <1>2, <1>3
<1>5. \A g \in Forms : StillWrites(g)'
  BY <1>2, <1>3 DEF ThreadTyped, StillWrites
<1>6. reply' \in [Replies -> {"new", "live", "deleted"}]
  BY DEF T!Mark, ThreadTyped, T!ThreadTypeOK
<1> QED BY <1>3, <1>4, <1>5, <1>6 DEF T!Mark, ThreadTyped, T!ThreadTypeOK, Requests

LEMMA EndTyped ==
    ASSUME T!ThreadConstants, ThreadTyped, NEW f \in Forms, T!DropTopic(f) \/ T!Load(f)
    PROVE  ThreadTyped'
<1>1. /\ request \in [Forms -> Requests] /\ T!Quiet \in Requests /\ T!Quiet.step \notin Posting
      /\ request' = [request EXCEPT ![f] = T!Quiet]
  BY RequestOf DEF T!DropTopic, T!Load, T!End, T!Quiet, Posting, ThreadTyped, T!ThreadTypeOK, Requests
<1>2. request' \in [Forms -> Requests]
  BY <1>1
<1>3. /\ text' \in [Forms -> 1 .. MaxTexts + 1]
      /\ \A g \in Forms \ {f} : text'[g] = text[g]
  <2>1. CASE T!DropTopic(f)
    BY <2>1 DEF T!DropTopic, ThreadTyped, T!ThreadTypeOK
  <2>2. CASE T!Load(f)
    <3> DEFINE n == IF request[f].step = "reload" THEN text[f] + 1 ELSE text[f]
    <3>1. n \in 1 .. MaxTexts + 1
      BY DEF ThreadTyped, T!ThreadTypeOK, StillWrites, Posting, T!ThreadConstants
    <3>2. text' = [text EXCEPT ![f] = n]
      BY <2>2 DEF T!Load
    <3> HIDE DEF n
    <3> QED BY <3>1, <3>2 DEF ThreadTyped, T!ThreadTypeOK
  <2> QED BY <2>1, <2>2
<1>4. ASSUME NEW g \in Forms
      PROVE  StillWrites(g)'
  <2>1. CASE g = f
    BY <1>1, <2>1 DEF StillWrites
  <2>2. CASE g # f
    BY <1>1, <1>3, <2>2 DEF StillWrites, ThreadTyped
  <2> QED BY <2>1, <2>2
<1>5. seen' \in [People -> SUBSET Replies]
  BY DEF T!DropTopic, T!Load, ThreadTyped, T!ThreadTypeOK, T!Live
<1>6. topic' \in BOOLEAN
  BY DEF T!DropTopic, T!Load, ThreadTyped, T!ThreadTypeOK
<1> QED BY <1>2, <1>3, <1>4, <1>5, <1>6 DEF T!DropTopic, T!Load, ThreadTyped, T!ThreadTypeOK, Requests

LEMMA ThreadTypesStart == T!ThreadConstants /\ T!ThreadInit => ThreadTyped
<1> SUFFICES ASSUME T!ThreadConstants, T!ThreadInit
             PROVE  ThreadTyped
  OBVIOUS
<1>1. T!Quiet \in [step : T!Steps, on : Replies \cup {T!Root}, ids : SUBSET Replies,
                   beside : BOOLEAN] /\ T!Quiet.step \notin Posting
  BY DEF T!Quiet, T!Steps, Posting
<1>2. T!Nothing \in [form : Forms, text : 0 .. MaxTexts]
  BY DEF T!Nothing, T!ThreadConstants
<1>3. 1 \in 1 .. MaxTexts + 1 /\ 0 \in 0 .. MaxRequests
  BY DEF T!ThreadConstants
<1> QED BY <1>1, <1>2, <1>3 DEF T!ThreadInit, ThreadTyped, T!ThreadTypeOK, StillWrites

\* No text beyond the bound is written, posted or lost, whatever is retried
\* (CommunityThread.tsx clears a form only after the thread was loaded again).
LEMMA ThreadTypesHold == PlatformSafe => []T!ThreadTypeOK
<1>1. T!ThreadConstants
  BY PlatformConstants
<1>2. ThreadTyped /\ [T!ThreadNext]_threadVars => ThreadTyped'
  <2>1. ASSUME ThreadTyped, T!ThreadNext
        PROVE  ThreadTyped'
    BY <1>1, <2>1, SendingTyped, TurnTyped, CreateTyped, MarkTyped, EndTyped DEF T!ThreadNext
  <2>2. ASSUME ThreadTyped, UNCHANGED threadVars
        PROVE  ThreadTyped'
    BY <2>2 DEF ThreadTyped, T!ThreadTypeOK, StillWrites, threadVars
  <2> QED BY <2>1, <2>2
<1>3. ThreadTyped => T!ThreadTypeOK
  BY DEF ThreadTyped
<1> QED BY <1>1, <1>2, <1>3, ThreadTypesStart, ThreadApart, PTL

-----------------------------------------------------------------------------
(* The whole platform.                                                     *)

\* For any people, tokens, lists, posts, lessons and bounds, every variable of every
\* component keeps its type, whatever requests fail or overtake each other: a session is
\* of a token that was issued, a counter of the login stops one above its limit, a list
\* asks for pages from the first on, a teacher's form is of a student's work, the badge
\* is never below 0 nor above the notifications there are, and a lesson's position is a
\* number (auth.service.ts, login-protection.service.ts, ProfessorCorrecoesPageClient.tsx,
\* NotificationBell.tsx, courses.service.ts and the pages of src/apps/web).
THEOREM PlatformTypesHold == PlatformSafe => []PlatformTypeOK
<1>1. SessionsInv => S!TypeOK
  BY DEF SessionsInv
<1>2. S!TypeOK /\ L!ProtectionTypeOK /\ P!ListTypeOK /\ T!ThreadTypeOK /\ G!GradingTypeOK
      /\ N!NotificationsTypeOK /\ Y!PlayerTypeOK /\ E!EditorTypeOK => PlatformTypeOK
  BY DEF PlatformTypeOK
<1> QED BY <1>1, <1>2, SessionsInvariant, CountersStayBounded, ListTypesHold, ThreadTypesHold,
           GradingTypesHold, BellTyped, PlayerTypesHold, EditorTypesHold, PTL
=============================================================================
