---------------------------- MODULE Notifications ----------------------------
(***************************************************************************)
(* One person's notifications (notifications.service.ts), the bell on      *)
(* every page (NotificationBell) and the page that lists them              *)
(* (NotificationsPanel).  Both change the same rows and neither knows of   *)
(* the other; the badge is a number of its own, corrected by a poll.       *)
(***************************************************************************)
EXTENDS Naturals, FiniteSets

CONSTANTS
    Notes,          \* identities, 1 .. n in the order of creation
    BellLimit,      \* rows the bell asks for (30)
    PanelLimit,     \* rows the page asks for (50)
    MaxBellActs,    \* bound on what the person does
    MaxAsks,        \* bound on requests in progress
    MaxFailures     \* bound on requests that fail

NotificationConstants ==
    /\ Notes \subseteq Nat \ {0} /\ IsFiniteSet(Notes)
    /\ BellLimit \in Nat \ {0} /\ PanelLimit \in Nat \ {0}
    /\ MaxBellActs \in Nat /\ MaxFailures \in Nat

VARIABLES
    note,       \* "none" (not yet), "unread", "read" or "removed"
    allowed,    \* the person belongs to a school
    sending,    \* a change of a course on its way to its students
    asks,       \* requests in progress
    bell,       \* the bell: open, its items, its badge
    panel,      \* the page's items
    bellActs,
    failures

bellVars == <<note, allowed, sending, asks, bell, panel, bellActs, failures>>

Clients == {"bell", "panel"}
Kept == {n \in Notes : note[n] \in {"unread", "read"}}
Unread == {n \in Notes : note[n] = "unread"}
UnreadIn(items) == Cardinality({n \in DOMAIN items : items[n] = "unread"})
NoItems == [n \in {} |-> "read"]

-----------------------------------------------------------------------------
(* What is sent: notifyCourseStudents, notifyTeacherAssigned.  Who is told *)
(* is read first; the rows are written afterwards, and a failure there is  *)
(* swallowed by the change that is told of.                                *)

SendBegins ==
    /\ sending = "no" /\ \E n \in Notes : note[n] = "none"
    /\ sending' = "find"
    /\ UNCHANGED <<note, allowed, asks, bell, panel, bellActs, failures>>

\* Those of a school, enrolled (or assigned), the author apart.
FindStudents ==
    /\ sending = "find"
    /\ sending' = IF allowed THEN "create" ELSE "no"
    /\ UNCHANGED <<note, allowed, asks, bell, panel, bellActs, failures>>

CreateRows ==
    /\ sending = "create"
    /\ \E n \in Notes : /\ note[n] = "none"
                        /\ \A m \in Notes : m < n => note[m] # "none"
                        /\ note' = [note EXCEPT ![n] = "unread"]
    /\ sending' = "no"
    /\ UNCHANGED <<allowed, asks, bell, panel, bellActs, failures>>

SendFails ==
    /\ sending # "no" /\ failures < MaxFailures
    /\ sending' = "no" /\ failures' = failures + 1
    /\ UNCHANGED <<note, allowed, asks, bell, panel, bellActs>>

\* The person's last membership of a school ends.
Leave ==
    /\ allowed
    /\ allowed' = FALSE
    /\ UNCHANGED <<note, sending, asks, bell, panel, bellActs, failures>>

-----------------------------------------------------------------------------
(* The API: every request asserts that notifications are enabled.          *)

Ask(c, kind, n) == [client |-> c, kind |-> kind, note |-> n, served |-> FALSE,
                    items |-> NoItems, count |-> 0, at |-> bellActs]

Newest(limit) == {n \in Kept : Cardinality({m \in Kept : m > n}) < limit}

\* listMine, unreadCount, markRead, markAllRead, removeOne, removeAll
Answered(q) ==
    [q EXCEPT !.served = TRUE,
              !.items = IF q.kind # "list" THEN NoItems
                        ELSE [n \in Newest(IF q.client = "bell" THEN BellLimit ELSE PanelLimit)
                                |-> note[n]],
              !.count = IF q.kind = "count" THEN Cardinality(Unread) ELSE 0]

After(q) ==
    CASE q.kind = "read" -> [note EXCEPT ![q.note] = "read"]
      [] q.kind = "remove" -> [note EXCEPT ![q.note] = "removed"]
      [] q.kind = "read_all" -> [n \in Notes |-> IF n \in Unread THEN "read" ELSE note[n]]
      [] q.kind = "remove_all" -> [n \in Notes |-> IF n \in Kept THEN "removed" ELSE note[n]]
      [] OTHER -> note

Serve(q) ==
    /\ ~q.served /\ allowed
    /\ q.kind \in {"read", "remove"} => q.note \in Kept
    /\ note' = After(q)
    /\ asks' = (asks \ {q}) \cup {Answered(q)}
    /\ UNCHANGED <<allowed, sending, bell, panel, bellActs, failures>>

\* Refused, or lost on the way there or back; the panel opens the link anyway.
AskFails(q) ==
    /\ IF ~q.served /\ (~allowed \/ (q.kind \in {"read", "remove"} /\ q.note \notin Kept))
       THEN UNCHANGED failures
       ELSE failures < MaxFailures /\ failures' = failures + 1
    /\ asks' = asks \ {q}
    /\ bell' = IF q.kind = "read" /\ q.client = "bell" THEN [bell EXCEPT !.open = FALSE] ELSE bell
    /\ UNCHANGED <<note, allowed, sending, panel, bellActs>>

-----------------------------------------------------------------------------
(* Answers on the two pages.                                               *)

Less(b) == IF b = 0 THEN 0 ELSE b - 1
Without(items, n) == [m \in DOMAIN items \ {n} |-> items[m]]
ReadIn(items, n) == [m \in DOMAIN items |-> IF m = n THEN "read" ELSE items[m]]
AllRead(items) == [m \in DOMAIN items |-> "read"]

Shown(q, items) ==
    CASE q.kind = "list" -> q.items
      [] q.kind = "read" -> ReadIn(items, q.note)
      [] q.kind = "remove" -> Without(items, q.note)
      [] q.kind = "read_all" -> AllRead(items)
      [] q.kind = "remove_all" -> NoItems
      [] OTHER -> items

Badge(q) ==
    CASE q.kind = "count" -> q.count
      [] q.kind = "list" -> UnreadIn(q.items)
      [] q.kind = "read" -> Less(bell.badge)
      [] q.kind = "remove" -> IF q.note \in DOMAIN bell.items /\ bell.items[q.note] = "unread"
                              THEN Less(bell.badge) ELSE bell.badge
      [] OTHER -> 0

BellLands(q) ==
    /\ q.served /\ q.client = "bell"
    /\ asks' = asks \ {q}
    /\ bell' = [open |-> bell.open /\ q.kind # "read",
                items |-> Shown(q, bell.items),
                badge |-> Badge(q)]
    /\ UNCHANGED <<note, allowed, sending, panel, bellActs, failures>>

PanelLands(q) ==
    /\ q.served /\ q.client = "panel"
    /\ asks' = asks \ {q}
    /\ panel' = Shown(q, panel)
    /\ UNCHANGED <<note, allowed, sending, bell, bellActs, failures>>

-----------------------------------------------------------------------------
(* What the pages ask.                                                     *)

Polling == \E q \in asks : q.kind = "count"

PollStarts ==
    /\ ~Polling
    /\ asks' = asks \cup {[Ask("bell", "count", 0) EXCEPT !.at = 0]}
    /\ UNCHANGED <<note, allowed, sending, bell, panel, bellActs, failures>>

\* Poll, if the timer ran only while the bell is open.
PollWhileOpen == bell.open /\ PollStarts

\* Every 60 s; a poll is taken to be answered before the next.
Poll == PollStarts

Does(client, kind, n) ==
    /\ bellActs < MaxBellActs /\ Cardinality(asks) < MaxAsks
    /\ bellActs' = bellActs + 1
    /\ asks' = asks \cup {Ask(client, kind, n)}
    /\ UNCHANGED <<note, allowed, sending, panel, failures>>

Open ==
    /\ ~bell.open
    /\ Does("bell", "list", 0)
    /\ bell' = [bell EXCEPT !.open = TRUE]

Close ==
    /\ bell.open
    /\ bell' = [bell EXCEPT !.open = FALSE]
    /\ UNCHANGED <<note, allowed, sending, asks, panel, bellActs, failures>>

\* Marcar lidas, Remover todas, an item, its cross.  An item that is read
\* only closes the bell.
BellActs ==
    /\ bell.open
    /\ \/ bell.badge > 0 /\ Does("bell", "read_all", 0)
       \/ bell.items # NoItems /\ Does("bell", "remove_all", 0)
       \/ \E n \in DOMAIN bell.items :
            \/ Does("bell", "remove", n)
            \/ bell.items[n] = "unread" /\ Does("bell", "read", n)
    /\ UNCHANGED bell

PanelActs ==
    /\ \/ Does("panel", "list", 0)
       \/ UnreadIn(panel) > 0 /\ Does("panel", "read_all", 0)
       \/ panel # NoItems /\ Does("panel", "remove_all", 0)
       \/ \E n \in DOMAIN panel :
            \/ Does("panel", "remove", n)
            \/ panel[n] = "unread" /\ Does("panel", "read", n)
    /\ UNCHANGED bell

-----------------------------------------------------------------------------
\* The bell's effect counts when the page opens.
NotificationsInit ==
    /\ note = [n \in Notes |-> "none"]
    /\ allowed = TRUE
    /\ sending = "no"
    /\ bell = [open |-> FALSE, items |-> NoItems, badge |-> 0]
    /\ panel = NoItems
    /\ bellActs = 0 /\ failures = 0
    /\ asks = {Ask("bell", "count", 0)}

Answering == \E q \in asks : Serve(q) \/ BellLands(q) \/ PanelLands(q)

NotificationsNext ==
    \/ SendBegins \/ FindStudents \/ CreateRows \/ SendFails \/ Leave
    \/ Answering
    \/ \E q \in asks : AskFails(q)
    \/ Poll \/ Open \/ Close \/ BellActs \/ PanelActs

NotificationsFairness == WF_bellVars(Poll) /\ WF_bellVars(Answering)

NotificationsSpec == NotificationsInit /\ [][NotificationsNext]_bellVars /\ NotificationsFairness

-----------------------------------------------------------------------------
Items == UNION {[s -> {"read", "unread"}] : s \in SUBSET Notes}

NotificationsTypeOK ==
    /\ note \in [Notes -> {"none", "unread", "read", "removed"}]
    /\ allowed \in BOOLEAN
    /\ sending \in {"no", "find", "create"}
    /\ \A q \in asks : /\ q.client \in Clients /\ q.items \in Items
                       /\ q.kind \in {"count", "list", "read", "remove", "read_all", "remove_all"}
    /\ bell \in [open : BOOLEAN, items : Items, badge : 0 .. Cardinality(Notes)]
    /\ panel \in Items
    /\ bellActs \in 0 .. MaxBellActs /\ failures \in 0 .. MaxFailures

(* Once the person rests and nothing more is sent, the badge comes to show *)
(* the number of unread notifications and keeps to it, whatever the bell   *)
(* and the page did to the rows and in whatever order answers landed.      *)
BadgeCatchesUp == <>[](~allowed \/ bell.badge = Cardinality(Unread))
=============================================================================
