------------------------------ MODULE Sessions ------------------------------
(***************************************************************************)
(* Who is logged in (auth.service.ts, auth.controller.ts, and in the web   *)
(* client session.ts, api.ts, middleware.ts, AppShell.tsx and the forms).  *)
(*                                                                         *)
(* A browser holds the cookies and localStorage, which its tabs share.  A  *)
(* tab runs several promises at once; a thread is one of them: a call of   *)
(* the page, the shell's recovery of the session, a login.  The refresh    *)
(* token is rotated at every use by three statements (look up, revoke,     *)
(* issue) and travels by cookie, so that what a request holds may be       *)
(* revoked before it arrives.  Rows of revoked tokens that nobody can      *)
(* present any more are as good as gone, and their names are used again.   *)
(*                                                                         *)
(* The markers ava_session and ava_role are set and cleared together with  *)
(* the refresh cookie and live as long: the cookie stands for the three.   *)
(***************************************************************************)
EXTENDS Naturals, FiniteSets

CONSTANTS
    Browsers, Tabs, Threads,
    BrowserOf,      \* the browser of a tab
    TabOf,          \* the tab of a thread
    Accounts, Nobody,
    Tokens, NoToken,
    NoThread,
    InitialStatus,  \* of the accounts
    MaxEvents,      \* bound: things that happen to tokens and accounts
    MaxVisits,      \* bound: what people begin, opening a page apart
    MaxLost         \* bound: requests lost, or cut short by a process that dies

SessionConstants ==
    /\ BrowserOf \in [Tabs -> Browsers]
    /\ TabOf \in [Threads -> Tabs]
    /\ Nobody \notin Accounts /\ NoToken \notin Tokens /\ NoThread \notin Threads
    /\ InitialStatus \in [Accounts -> {"absent", "active", "blocked"}]
    /\ MaxEvents \in Nat /\ MaxVisits \in Nat /\ MaxLost \in Nat

VARIABLES
    status,     \* of each account
    live,       \* refresh tokens neither revoked nor expired
    owner,      \* the account of each token
    cookie,     \* ava_refresh of each browser, with its markers
    access,     \* whom ava_access of a browser names while the token is valid
    stored,     \* ava_user in localStorage
    view,       \* what a tab shows: the login form or a page
    shown,      \* the user in the shell of a tab
    renewing,   \* refreshInFlight of a tab
    run,        \* the threads
    events, visits, lost,
    epoch,      \* ghost: how often all sessions of an account were ended
    era,        \* ghost: the epoch that a token's session began in
    late,       \* ghost: tokens issued on grounds that were gone by then
    kept        \* ghost: what the person at a browser may expect of the session

server == <<status, live, owner>>
browser == <<cookie, access, stored>>
tabs == <<view, shown, renewing>>
counts == <<events, visits, lost>>
vars == <<status, live, owner, cookie, access, stored, view, shown, renewing,
          run, events, visits, lost, epoch, era, late, kept>>

CallKinds == {"call", "profile", "password", "boot", "login", "register", "logout"}
Steps == {"idle", "ask", "denied", "wait", "lookup", "revoke", "issue", "issued",
          "refused", "persist", "signout", "signed_out", "verify", "create"}
Idle == [pc |-> "idle", kind |-> "call", tok |-> NoToken, new |-> NoToken,
         acct |-> Nobody, retried |-> FALSE, era |-> 0]

-----------------------------------------------------------------------------
Home(th) == BrowserOf[TabOf[th]]
Siblings(th) == {o \in Threads : TabOf[o] = TabOf[th]}
Active(a) == a # Nobody /\ status[a] = "active"

\* validateUserById, with the account that the access cookie names
Authentic(b) == access[b] # Nobody /\ Active(access[b])

Referenced == {cookie[b] : b \in Browsers} \cup {run[th].tok : th \in Threads}
                \cup {run[th].new : th \in Threads}
Fresh == Tokens \ (live \cup Referenced)

Refreshing(th) == run[th].pc \in {"lookup", "revoke", "issue", "issued", "refused"}
                    /\ run[th].kind \notin {"login", "register"}

\* The calls of a tab share one refresh (refreshInFlight); the shell's own is
\* apart, and so are those of the other tabs.
SameParty(th, o) ==
    TabOf[o] = TabOf[th] /\ (run[o].kind = "boot" <=> run[th].kind = "boot")

\* Other parties of the browser whose refresh of token k has come to one of
\* these steps.
Rivals(th, k, steps) ==
    {o \in Threads : /\ Home(o) = Home(th) /\ ~SameParty(th, o)
                     /\ run[o].tok = k /\ run[o].pc \in steps}

Go(th, pc) == run' = [run EXCEPT ![th].pc = pc]
Finish(th) == run' = [run EXCEPT ![th] = Idle]

Forget(b) == kept' = [kept EXCEPT ![b] = "no"]

-----------------------------------------------------------------------------
(* What people do *)

\* The middleware lets a request for a page pass when the marker is there.
PageOrLogin(ck) == IF ck = NoToken THEN "login" ELSE "page"

\* The shell of a page that passed shows the stored user, or asks the API who
\* this is.  A login form that finds a stored user asks for that user's home: the
\* middleware, without a marker, shows the form again, and, when another tab has
\* logged in meanwhile, the page, which is a visit too.
Visit(th) ==
    LET t == TabOf[th]  b == Home(th) IN
    /\ run[th] = Idle
    /\ \A o \in Siblings(th) : run[o].kind # "boot"
    /\ view' = [view EXCEPT ![t] = PageOrLogin(cookie[b])]
    /\ shown' = [shown EXCEPT ![t] = IF cookie[b] = NoToken THEN Nobody ELSE stored[b]]
    /\ run' = IF cookie[b] # NoToken /\ stored[b] = Nobody
              THEN [run EXCEPT ![th] = [Idle EXCEPT !.pc = "ask", !.kind = "boot"]]
              ELSE run
    /\ UNCHANGED <<server, browser, renewing, counts, epoch, era, late, kept>>

BeginCall(th, kind) ==
    /\ visits < MaxVisits
    /\ run[th] = Idle /\ view[TabOf[th]] = "page"
    /\ kind = "call" \/ shown[TabOf[th]] # Nobody
    /\ visits' = visits + 1
    /\ run' = [run EXCEPT ![th] = [Idle EXCEPT !.pc = "ask", !.kind = kind]]
    /\ UNCHANGED <<server, browser, tabs, events, lost, epoch, era, late, kept>>

\* A page calls the API: apiUpload here, and apiFetch.
CallPage(th) == BeginCall(th, "call")

\* The answer is stored: the profile, the picture, and /courses/me/has-school.
SaveProfile(th) == BeginCall(th, "profile")

ChangePassword(th) == BeginCall(th, "password")

\* onLogout
ClickLogout(th) ==
    /\ visits < MaxVisits
    /\ run[th] = Idle /\ shown[TabOf[th]] # Nobody
    /\ visits' = visits + 1
    /\ run' = [run EXCEPT ![th] = [Idle EXCEPT !.pc = "signout", !.kind = "logout"]]
    /\ Forget(Home(th))
    /\ UNCHANGED <<server, browser, tabs, events, lost, epoch, era, late>>

Submit(th, a, kind) ==
    /\ visits < MaxVisits
    /\ view[TabOf[th]] = "login"
    /\ \A o \in Siblings(th) : run[o] = Idle
    /\ visits' = visits + 1
    /\ run' = [run EXCEPT ![th] = [Idle EXCEPT !.pc = "verify", !.kind = kind, !.acct = a]]
    /\ UNCHANGED <<server, browser, tabs, events, lost, epoch, era, late, kept>>

\* onSubmit of the two forms
LogIn(th, a) == Submit(th, a, "login")
Register(th, a) == Submit(th, a, "register")

-----------------------------------------------------------------------------
(* A call and its retry *)

Served(th) ==
    /\ run[th].pc = "ask" /\ Authentic(Home(th))
    /\ LET b == Home(th)  a == access[b] IN
       CASE run[th].kind = "call" ->
                /\ Finish(th)
                /\ UNCHANGED <<live, epoch, kept>>
         [] run[th].kind = "password" ->
                \* changeOwnPassword: every session of the account, this one too
                /\ Finish(th)
                /\ live' = {k \in live : owner[k] # a}
                /\ epoch' = [epoch EXCEPT ![a] = @ + 1]
                /\ kept' = [o \in Browsers |->
                              IF o = b /\ kept[b] = "yes" THEN "told"
                              ELSE IF cookie[o] # NoToken /\ owner[cookie[o]] = a THEN "no"
                              ELSE kept[o]]
         [] OTHER ->
                /\ run' = [run EXCEPT ![th] = [@ EXCEPT !.pc = "persist", !.acct = a]]
                /\ UNCHANGED <<live, epoch, kept>>
    /\ UNCHANGED <<status, owner, browser, tabs, counts, era, late>>

\* persistSession with the user the API answered; the event makes the shell of
\* this window show it.
Persist(th) ==
    /\ run[th].pc = "persist"
    /\ stored' = [stored EXCEPT ![Home(th)] = run[th].acct]
    /\ shown' = [shown EXCEPT ![TabOf[th]] = IF view[TabOf[th]] = "page" THEN run[th].acct ELSE @]
    /\ Finish(th)
    /\ UNCHANGED <<server, cookie, access, view, renewing, counts, epoch, era, late, kept>>

\* 401: an error for the page the second time, and the end of the session for
\* the shell, which asks /auth/me twice at most.
Denied(th) ==
    /\ run[th].pc = "ask" /\ ~Authentic(Home(th))
    /\ IF ~run[th].retried THEN Go(th, "denied")
       ELSE IF run[th].kind = "boot" THEN Go(th, "signout")
       ELSE Finish(th)
    /\ UNCHANGED <<server, browser, tabs, counts, epoch, era, late, kept>>

\* The request carries the cookie of this moment, which another party may
\* have revoked without having its successor yet.
SendRefresh(th) ==
    LET k == cookie[Home(th)] IN
    /\ run' = [run EXCEPT ![th] = [@ EXCEPT !.pc = "lookup", !.tok = k]]
    /\ IF Rivals(th, k, {"issue", "issued"}) = {} THEN UNCHANGED kept ELSE Forget(Home(th))

\* Renew, if each call refreshed for itself.
RenewUnshared(th) ==
    /\ run[th].pc = "denied"
    /\ SendRefresh(th)
    /\ UNCHANGED <<server, browser, tabs, counts, epoch, era, late>>

\* ensureFreshAccess
Renew(th) ==
    /\ run[th].pc = "denied"
    /\ IF run[th].kind = "boot"
       THEN SendRefresh(th) /\ UNCHANGED renewing
       ELSE IF renewing[TabOf[th]] = NoThread
       THEN /\ SendRefresh(th)
            /\ renewing' = [renewing EXCEPT ![TabOf[th]] = th]
       ELSE Go(th, "wait") /\ UNCHANGED <<renewing, kept>>
    /\ UNCHANGED <<server, browser, view, shown, counts, epoch, era, late>>

\* AuthService.refresh: three statements.  The one that revokes dooms the
\* requests of other parties which carry the same token and are not looked up.
LookUp(th) ==
    LET k == run[th].tok IN
    /\ run[th].pc = "lookup"
    /\ IF k \in live /\ Active(owner[k])
       THEN run' = [run EXCEPT ![th] = [@ EXCEPT !.pc = "revoke", !.acct = owner[k],
                               !.era = era[k]]]
       ELSE Go(th, "refused")
    /\ UNCHANGED <<server, browser, tabs, counts, epoch, era, late, kept>>

Revoke(th) ==
    /\ run[th].pc = "revoke"
    /\ live' = live \ {run[th].tok}
    /\ Go(th, "issue")
    /\ IF Rivals(th, run[th].tok, {"lookup"}) = {} THEN UNCHANGED kept ELSE Forget(Home(th))
    /\ UNCHANGED <<status, owner, browser, tabs, counts, epoch, era, late>>

\* issueRefresh, of a refresh, a login or a registration
Issue(th) ==
    LET a == run[th].acct IN
    /\ run[th].pc = "issue"
    /\ Fresh # {}
    /\ LET k == CHOOSE k \in Fresh : TRUE IN
         /\ live' = live \cup {k}
         /\ owner' = [owner EXCEPT ![k] = a]
         /\ era' = [era EXCEPT ![k] = run[th].era]
         /\ late' = IF run[th].era # epoch[a] THEN late \cup {k} ELSE late \ {k}
         /\ run' = [run EXCEPT ![th] = [@ EXCEPT !.pc = "issued", !.new = k]]
    /\ UNCHANGED <<status, browser, tabs, counts, epoch, kept>>

\* Those who share the refresh of th: itself and the calls that wait for it.
Sharers(th) ==
    IF run[th].kind = "boot" THEN {th}
    ELSE {th} \cup {o \in Siblings(th) : run[o].pc = "wait"}

\* Settled, if the slot were left with another mark than the one asked for.
SettledUndefined(th) == IF renewing[TabOf[th]] = th
                        THEN [renewing EXCEPT ![TabOf[th]] = Nobody] ELSE renewing

Settled(th) == IF renewing[TabOf[th]] = th
               THEN [renewing EXCEPT ![TabOf[th]] = NoThread] ELSE renewing

\* The answer of the refresh sets the cookies; everybody asks again.
Renewed(th) ==
    /\ run[th].pc = "issued" /\ run[th].kind \notin {"login", "register"}
    /\ cookie' = [cookie EXCEPT ![Home(th)] = run[th].new]
    /\ access' = [access EXCEPT ![Home(th)] = run[th].acct]
    /\ run' = [o \in Threads |->
                 IF o \in Sharers(th)
                 THEN [Idle EXCEPT !.pc = "ask", !.kind = run[o].kind, !.retried = TRUE]
                 ELSE run[o]]
    /\ renewing' = Settled(th)
    /\ UNCHANGED <<server, stored, view, shown, counts, epoch, era, late, kept>>

NotRenewed(th) ==
    /\ run[th].pc = "refused" /\ run[th].kind \notin {"login", "register"}
    /\ run' = [o \in Threads |->
                 IF o \in Sharers(th)
                 THEN [Idle EXCEPT !.pc = "signout", !.kind = run[o].kind]
                 ELSE run[o]]
    /\ renewing' = Settled(th)
    /\ UNCHANGED <<server, browser, view, shown, counts, epoch, era, late, kept>>

-----------------------------------------------------------------------------
(* Logging out *)

\* AuthService.logout revokes the token that the request carries.
LogOut(th) ==
    /\ run[th].pc = "signout"
    /\ live' = live \ {cookie[Home(th)]}
    /\ Go(th, "signed_out")
    /\ UNCHANGED <<status, owner, browser, tabs, counts, epoch, era, late, kept>>

\* clearSession, whatever became of the request; then the shell goes to /login,
\* whence the middleware sends a browser with cookies back to its home.
Leave(th, ck) ==
    LET t == TabOf[th]  b == Home(th) IN
    /\ cookie' = [cookie EXCEPT ![b] = ck]
    /\ stored' = [stored EXCEPT ![b] = Nobody]
    /\ shown' = [shown EXCEPT ![t] = Nobody]
    /\ view' = [view EXCEPT ![t] = PageOrLogin(ck)]
    /\ run' = [run EXCEPT ![th] =
                 IF ck = NoToken THEN Idle ELSE [Idle EXCEPT !.pc = "ask", !.kind = "boot"]]
    /\ UNCHANGED <<renewing, server, epoch, era, late, kept>>

\* SignOut, if the answer did not clear ava_refresh and its markers.
SignOutKeepingCookies(th) ==
    /\ run[th].pc = "signed_out"
    /\ access' = [access EXCEPT ![Home(th)] = Nobody]
    /\ Leave(th, cookie[Home(th)])
    /\ UNCHANGED counts

SignOut(th) ==
    /\ run[th].pc = "signed_out"
    /\ access' = [access EXCEPT ![Home(th)] = Nobody]
    /\ Leave(th, NoToken)
    /\ UNCHANGED counts

-----------------------------------------------------------------------------
(* Logging in and registering *)

\* The password is right or nothing changes.  register asks first whether the
\* address is taken, and the unique key has the last word.
Verify(th) ==
    LET a == run[th].acct IN
    /\ run[th].pc = "verify"
    /\ IF run[th].kind = "register"
       THEN IF status[a] = "absent" THEN Go(th, "create") ELSE Finish(th)
       ELSE IF Active(a)
       THEN run' = [run EXCEPT ![th] = [@ EXCEPT !.pc = "issue", !.era = epoch[a]]]
       ELSE Finish(th)
    /\ UNCHANGED <<server, browser, tabs, counts, epoch, era, late, kept>>

Create(th) ==
    LET a == run[th].acct IN
    /\ run[th].pc = "create"
    /\ IF status[a] = "absent"
       THEN /\ status' = [status EXCEPT ![a] = "active"]
            /\ run' = [run EXCEPT ![th] = [@ EXCEPT !.pc = "issue", !.era = epoch[a]]]
       ELSE Finish(th) /\ UNCHANGED status
    /\ UNCHANGED <<live, owner, browser, tabs, counts, epoch, era, late, kept>>

SignedIn(th) ==
    LET t == TabOf[th]  b == Home(th)  a == run[th].acct IN
    /\ run[th].pc = "issued" /\ run[th].kind \in {"login", "register"}
    /\ cookie' = [cookie EXCEPT ![b] = run[th].new]
    /\ access' = [access EXCEPT ![b] = a]
    /\ stored' = [stored EXCEPT ![b] = a]
    /\ shown' = [shown EXCEPT ![t] = a]
    /\ view' = [view EXCEPT ![t] = "page"]
    /\ Finish(th)
    \* a fresh session, unless another request of this browser may still end it
    /\ kept' = [kept EXCEPT ![b] =
                  IF run[th].new \in live /\ Active(a)
                     /\ \A o \in Threads \ {th} : Home(o) = b => run[o] = Idle
                  THEN "yes" ELSE "no"]
    /\ UNCHANGED <<server, renewing, counts, epoch, era, late>>

-----------------------------------------------------------------------------
(* What happens to tokens, accounts and requests *)

\* After its 15 minutes; not between a renewal and the retry it was for.
AccessExpires(b) ==
    /\ events < MaxEvents /\ access[b] # Nobody
    /\ \A th \in Threads : Home(th) = b => ~run[th].retried
    /\ events' = events + 1
    /\ access' = [access EXCEPT ![b] = Nobody]
    /\ UNCHANGED <<server, cookie, stored, tabs, run, visits, lost, epoch, era, late, kept>>

Ended(a) == [b \in Browsers |-> IF cookie[b] # NoToken /\ owner[cookie[b]] = a
                                THEN "no" ELSE kept[b]]

\* resetPassword and softDelete of users.service.ts, one transaction each
EndAll(a, to) ==
    /\ events < MaxEvents /\ status[a] \in {"active", "blocked"}
    /\ events' = events + 1
    /\ status' = [status EXCEPT ![a] = to]
    /\ live' = {k \in live : owner[k] # a}
    /\ epoch' = [epoch EXCEPT ![a] = @ + 1]
    /\ kept' = Ended(a)
    /\ UNCHANGED <<owner, browser, tabs, run, visits, lost, era, late>>

\* ResetPassword, if it left the sessions alone.
ResetPasswordOnly(a) ==
    /\ events < MaxEvents /\ status[a] \in {"active", "blocked"}
    /\ events' = events + 1
    /\ epoch' = [epoch EXCEPT ![a] = @ + 1]
    /\ kept' = Ended(a)
    /\ UNCHANGED <<server, browser, tabs, run, visits, lost, era, late>>

ResetPassword(a) == EndAll(a, status[a])
DeleteAccount(a) == EndAll(a, "deleted")

\* update of users.service.ts with a status: tokens stay, but serve nobody
SetStatus(a, to) ==
    /\ events < MaxEvents /\ status[a] \in {"active", "blocked"} \ {to}
    /\ events' = events + 1
    /\ status' = [status EXCEPT ![a] = to]
    /\ kept' = Ended(a)
    /\ UNCHANGED <<live, owner, browser, tabs, run, visits, lost, epoch, era, late>>

\* The network fails or the process dies: apiFetch throws, the other calls of
\* session.ts answer null or go on.
Lose(th) ==
    LET b == Home(th)  p == run[th].pc  k == run[th].kind IN
    /\ lost < MaxLost
    /\ lost' = lost + 1
    /\ CASE p = "ask" /\ k # "boot" -> Finish(th)
         [] p = "ask" /\ k = "boot" -> Go(th, IF run[th].retried THEN "signout" ELSE "denied")
         [] p \in {"lookup", "revoke", "issue", "issued"} /\ k \notin {"login", "register"} ->
                Go(th, "refused")
         [] p \in {"verify", "create", "issue", "issued"} /\ k \in {"login", "register"} ->
                Finish(th)
         [] p = "persist" /\ k = "profile" -> Finish(th)
         [] OTHER -> FALSE
    /\ IF run'[th].pc \in {"refused", "signout"} THEN Forget(b) ELSE UNCHANGED kept
    /\ UNCHANGED <<server, browser, tabs, events, visits, epoch, era, late>>

\* logoutRequest swallows the failure: the page forgets the user, the cookies,
\* which only the API can clear, stay.
LoseLogout(th) ==
    /\ lost < MaxLost /\ run[th].pc \in {"signout", "signed_out"}
    /\ lost' = lost + 1
    /\ Leave(th, cookie[Home(th)])
    /\ UNCHANGED <<access, events, visits>>

-----------------------------------------------------------------------------
Begin(th) ==
    \/ Visit(th)
    \/ CallPage(th) \/ SaveProfile(th) \/ ChangePassword(th) \/ ClickLogout(th)
    \/ \E a \in Accounts : LogIn(th, a) \/ Register(th, a)

Continue(th) ==
    \/ Served(th) \/ Persist(th) \/ Denied(th) \/ Renew(th)
    \/ LookUp(th) \/ Revoke(th) \/ Issue(th) \/ Renewed(th) \/ NotRenewed(th)
    \/ LogOut(th) \/ SignOut(th)
    \/ Verify(th) \/ Create(th) \/ SignedIn(th)

Disturb ==
    \/ \E b \in Browsers : AccessExpires(b)
    \/ \E a \in Accounts : ResetPassword(a) \/ DeleteAccount(a)
                             \/ \E to \in {"active", "blocked"} : SetStatus(a, to)
    \/ \E th \in Threads : Lose(th) \/ LoseLogout(th)

Init ==
    /\ status = InitialStatus
    /\ live = {} /\ late = {}
    /\ owner = [k \in Tokens |-> Nobody]
    /\ cookie = [b \in Browsers |-> NoToken]
    /\ access = [b \in Browsers |-> Nobody]
    /\ stored = [b \in Browsers |-> Nobody]
    /\ view = [t \in Tabs |-> "login"]
    /\ shown = [t \in Tabs |-> Nobody]
    /\ renewing = [t \in Tabs |-> NoThread]
    /\ run = [th \in Threads |-> Idle]
    /\ events = 0 /\ visits = 0 /\ lost = 0
    /\ epoch = [a \in Accounts |-> 0]
    /\ era = [k \in Tokens |-> 0]
    /\ kept = [b \in Browsers |-> "no"]

Next == Disturb \/ \E th \in Threads : Begin(th) \/ Continue(th)

Spec == Init /\ [][Next]_vars /\ \A th \in Threads : WF_vars(Continue(th))

-----------------------------------------------------------------------------
TypeOK ==
    /\ status \in [Accounts -> {"absent", "active", "blocked", "deleted"}]
    /\ live \subseteq Tokens /\ late \subseteq Tokens
    /\ owner \in [Tokens -> Accounts \cup {Nobody}]
    /\ cookie \in [Browsers -> Tokens \cup {NoToken}]
    /\ access \in [Browsers -> Accounts \cup {Nobody}]
    /\ stored \in [Browsers -> Accounts \cup {Nobody}]
    /\ view \in [Tabs -> {"login", "page"}]
    /\ shown \in [Tabs -> Accounts \cup {Nobody}]
    /\ renewing \in [Tabs -> Threads \cup {NoThread}]
    /\ run \in [Threads -> [pc: Steps, kind: CallKinds, tok: Tokens \cup {NoToken},
                            new: Tokens \cup {NoToken}, acct: Accounts \cup {Nobody},
                            retried: BOOLEAN, era: Nat]]
    /\ epoch \in [Accounts -> Nat] /\ era \in [Tokens -> Nat]
    /\ kept \in [Browsers -> {"no", "yes", "told"}]
    /\ events \in 0..MaxEvents /\ visits \in 0..MaxVisits /\ lost \in 0..MaxLost

\* The browser holds a token that serves, or a refresh is about to bring one.
HasSession(b) ==
    \/ cookie[b] \in live /\ Active(owner[cookie[b]])
    \/ \E th \in Threads : /\ Home(th) = b /\ run[th].tok = cookie[b]
                           /\ run[th].pc \in {"issue", "issued"}
SigningOut(b) ==
    \E th \in Threads : Home(th) = b /\ run[th].pc \in {"refused", "signout", "signed_out"}

\* Nobody is logged out without a cause: however the access token expires and
\* the calls of a tab, its shell and the other tabs retry, the rotation of the
\* refresh token keeps the session.  The causes are: the person logged out, the
\* password or the status of the account changed, a request that had to bring
\* the next token (or the shell's last question) was lost, or the token was
\* revoked under a refresh of another party (auth.service.ts:222-230): the three
\* statements let one rotation doom a request that carries the same token, and
\* nothing but refreshInFlight, which a tab's calls share, keeps two requests
\* apart (api.ts:13-22).
SessionSurvives ==
    \A b \in Browsers : kept[b] = "yes" => HasSession(b) /\ ~SigningOut(b)

\* What the profile page says after a change of the password: 'Outras sessões
\* ativas foram encerradas; continue nesta.' (ProfilePageClient.tsx:158)
OwnSessionContinues ==
    \A b \in Browsers : kept[b] = "told" => ~SigningOut(b)

\* A changed password, a reset or a deletion ends every session of the account
\* (users.service.ts:306, 472, 523); what can still come up is a token issued by
\* a login or a refresh that had passed its check by then, and its successors.
EndedSessionsEnd ==
    \A k \in live : era[k] = epoch[owner[k]] \/ k \in late

\* Nobody waits before an empty shell for ever: a tab that opens a page comes to
\* show its user or the login form (AppShell.tsx:54-105).
TabSettles ==
    \A t \in Tabs : (view[t] = "page" /\ shown[t] = Nobody)
                      ~> (view[t] = "login" \/ shown[t] # Nobody)
=============================================================================
