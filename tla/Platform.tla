------------------------------ MODULE Platform ------------------------------
(***************************************************************************)
(* The components that keep small states of their own, side by side: in a  *)
(* behaviour one of them runs and the others rest.                         *)
(***************************************************************************)
EXTENDS Naturals, StoredImage

CONSTANTS
    Running,                                            \* the components among which one is chosen
    Browsers, Tabs, Threads, BrowserOf, TabOf, Accounts, Nobody, Tokens, NoToken, NoThread,
    InitialStatus, MaxEvents, MaxVisits, MaxLost,                                 \* sessions
    Attempts, Limits,                                                             \* login
    Rows, Kinds, InitialRows, Found, PageSize, TabSize, MaxActs, MaxLoads,                 \* pages
    Replies, Forms, People, PersonOf, Moderators, MaxReplyDepth, MaxTexts,
    MaxRequests,                                                                  \* thread
    Activities, Quizzes, Students, EssayWriters, MaxWorks, MaxMoves, MaxCalls,    \* grading
    Notes, BellLimit, PanelLimit, MaxBellActs, MaxAsks, MaxFailures,              \* bell
    Modules, Playlist, Legacy, Processing, MaxPages, MaxFetches, MaxLosses,       \* player
    Units, QuizPapers, Tasks, MaxDeeds, MaxReads, MaxSlips                        \* editor

VARIABLES
    part,       \* the component that runs
    status, live, owner, cookie, access, stored, view, shown, renewing, run,
    events, visits, lost, epoch, era, late, kept,
    counter, bounded, lock, attempt, cut,
    page, rows, query, typed, ready, loads, list, error, form, op, posting, acts, landed,
    overtaken, warned,
    topic, reply, parent, written, request, seen, text, sent, stray, misled,
    activity, work, posts, calls, desk, texts, moves, crossed,
    note, allowed, sending, asks, bell, panel, bellActs, failures,
    done, media, local, imported, player, fetches, opened, losses, unsent, behind,
    made, rank, video, content, pane, errand, reads, deeds, slips, excess, mixed, blurred

S == INSTANCE Sessions
L == INSTANCE LoginProtection
P == INSTANCE ListPages
T == INSTANCE Thread
G == INSTANCE Grading
N == INSTANCE Notifications
Y == INSTANCE LessonPlayer
E == INSTANCE ContentEditor

ASSUME PlatformConstants ==
    /\ S!SessionConstants /\ L!AttemptConstants /\ P!ListConstants /\ T!ThreadConstants
    /\ G!GradingConstants /\ N!NotificationConstants /\ Y!PlayerConstants /\ E!EditorConstants

sessionVars == <<status, live, owner, cookie, access, stored, view, shown, renewing, run,
                 events, visits, lost, epoch, era, late, kept>>
loginVars == <<counter, bounded, lock, attempt, cut>>
pageVars == <<page, rows, query, typed, ready, loads, list, error, form, op, posting, acts,
              landed, overtaken, warned>>
threadVars == <<topic, reply, parent, written, request, seen, text, sent, stray, misled>>
gradingVars == <<activity, work, posts, calls, desk, texts, moves, crossed>>
bellVars == <<note, allowed, sending, asks, bell, panel, bellActs, failures>>
playerVars == <<done, media, local, imported, player, fetches, opened, losses, unsent, behind>>
editorVars == <<made, rank, video, content, pane, errand, reads, deeds, slips, excess, mixed, blurred>>

platformVars == <<part, vars, sessionVars, loginVars, pageVars, threadVars, gradingVars, bellVars,
                  playerVars, editorVars>>

\* One component runs and the others rest.
Runs(p) == part = p
Only(p) ==
    /\ UNCHANGED part
    /\ p # "image" => UNCHANGED vars
    /\ p # "sessions" => UNCHANGED sessionVars
    /\ p # "login" => UNCHANGED loginVars
    /\ p # "pages" => UNCHANGED pageVars
    /\ p # "thread" => UNCHANGED threadVars
    /\ p # "grading" => UNCHANGED gradingVars
    /\ p # "bell" => UNCHANGED bellVars
    /\ p # "player" => UNCHANGED playerVars
    /\ p # "editor" => UNCHANGED editorVars

PlatformInit ==
    /\ part \in Running
    /\ Init
    /\ S!Init /\ L!ProtectionInit /\ P!ListInit /\ T!ThreadInit
    /\ G!GradingInit /\ N!NotificationsInit /\ Y!PlayerInit /\ E!EditorInit
    /\ part # "pages" => page = "users"
    /\ part # "editor" => ~pane.course

PlatformNext ==
    \/ Runs("image") /\ Next /\ Only("image")
    \/ Runs("sessions") /\ S!Next /\ Only("sessions")
    \/ Runs("login") /\ L!ProtectionNext /\ Only("login")
    \/ Runs("pages") /\ P!ListNext /\ Only("pages")
    \/ Runs("thread") /\ T!ThreadNext /\ Only("thread")
    \/ Runs("grading") /\ G!GradingNext /\ Only("grading")
    \/ Runs("bell") /\ N!NotificationsNext /\ Only("bell")
    \/ Runs("player") /\ Y!PlayerNext /\ Only("player")
    \/ Runs("editor") /\ E!EditorNext /\ Only("editor")

\* The fairness each component has of its own.
PlatformFairness ==
    /\ WF_platformVars(Runs("sessions") /\ (\E th \in Threads : S!Continue(th)) /\ Only("sessions"))
    /\ WF_platformVars(Runs("login") /\ (\E r \in Attempts : L!Try(r) \/ L!Serve(r)) /\ Only("login"))
    /\ SF_platformVars(Runs("login") /\ (\E r \in Attempts : L!Throttle(r)) /\ Only("login"))
    /\ SF_platformVars(Runs("login") /\ (\E r \in Attempts : L!ThrottleExpire(r)) /\ Only("login"))
    /\ SF_platformVars(Runs("login") /\ L!WindowEnds("hit") /\ Only("login"))
    /\ WF_platformVars(Runs("bell") /\ N!Poll /\ Only("bell"))
    /\ WF_platformVars(Runs("bell") /\ N!Answering /\ Only("bell"))

PlatformSafe == PlatformInit /\ [][PlatformNext]_platformVars

PlatformSpec == PlatformSafe /\ PlatformFairness

-----------------------------------------------------------------------------
\* The variables of every component have their types.
PlatformTypeOK ==
    /\ Runs("sessions") => S!TypeOK
    /\ Runs("login") => L!ProtectionTypeOK
    /\ Runs("pages") => P!ListTypeOK
    /\ Runs("thread") => T!ThreadTypeOK
    /\ Runs("grading") => G!GradingTypeOK
    /\ Runs("bell") => N!NotificationsTypeOK
    /\ Runs("player") => Y!PlayerTypeOK
    /\ Runs("editor") => E!EditorTypeOK

\* Nobody is logged out without a cause (rotation of the refresh token).
SessionSurvives == Runs("sessions") => S!SessionSurvives

\* The session in which the password was changed goes on, as the profile page says
\* ('continue nesta', ProfilePageClient.tsx:158).
OwnSessionContinues == Runs("sessions") => S!OwnSessionContinues

\* A changed password, a reset or a deletion ends every session of the account.
EndedSessionsEnd == Runs("sessions") => S!EndedSessionsEnd

\* A tab that opens a page comes to show its user or the login form.
TabSettles == S!TabSettles

\* A login counter without an expiry is about to get one.
CountersAreBounded == Runs("login") => L!CountersAreBounded

\* Throttling ends, even after a process died between its two commands.
ThrottlingEnds == L!ThrottlingEnds

\* A list at rest shows what is stored for its filters.
ListIsCurrent == Runs("pages") => P!ListIsCurrent

\* Removals take the whole subtree, depth is bounded, nothing is posted twice.
ThreadIsWhole == Runs("thread") => T!ThreadIsWhole

\* A grade that counts is the verdict on the text that is stored.
GradeIsOfWork == Runs("grading") => G!GradeIsOfWork

\* The bell's badge comes to the number of unread notifications.
BadgeCatchesUp == N!BadgeCatchesUp

\* The rings of the player are the server's record.
RingsAreTrue == Runs("player") => Y!RingsAreTrue

\* Retries make one course, papers keep their own questions, the editor is current.
EditorIsFaithful == Runs("editor") => E!EditorIsFaithful
=============================================================================
