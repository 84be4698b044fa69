------------------------------- MODULE Grading -------------------------------
(***************************************************************************)
(* The work students send for the activities of a course and its grading   *)
(* (activities.service.ts), the teacher's page of corrections              *)
(* (ProfessorCorrecoesPageClient) and the report card (grades.service.ts). *)
(* A text is a number, later texts have greater ones; a verdict is the     *)
(* text the teacher had before her when she gave it.  Requests are served  *)
(* in steps, and answers land on the page in any order.                    *)
(***************************************************************************)
EXTENDS Naturals, FiniteSets

CONSTANTS
    Activities,
    Quizzes,        \* listed beside the activities; their grades are automatic
    Students,
    EssayWriters,   \* students whose finished attempt awaits correction
    MaxWorks,      \* bound on the texts sent
    MaxMoves,       \* bound on what the teacher does
    MaxCalls        \* bound on her page's requests in progress

Items == Activities \cup Quizzes

GradingConstants ==
    /\ Activities \cap Quizzes = {} /\ EssayWriters \subseteq Students
    /\ MaxWorks \in Nat \ {0} /\ MaxMoves \in Nat /\ MaxCalls \in Nat

None == 0

VARIABLES
    activity,   \* of each activity: not deleted, deadline passed, late work allowed
    work,       \* the text sent, and the verdict its grade is from
    posts,      \* students' submissions in progress
    calls,      \* the page's requests in progress
    desk,       \* the page
    texts,
    moves,
    crossed     \* ghost: work sent while the page showed, or graded, the one before

gradingVars == <<activity, work, posts, calls, desk, texts, moves, crossed>>

Nothing == "none"
NoRows == [s \in {} |-> None]
Row == [text : 0 .. MaxWorks, verdict : 0 .. MaxWorks]
EmptyDesk == [course |-> FALSE, items |-> {}, picked |-> Nothing, shown |-> Nothing,
              rows |-> NoRows, filter |-> "all", loading |-> FALSE,
              form |-> <<Nothing, Nothing>>]
NoForm == <<Nothing, Nothing>>

Live == {a \in Activities : activity[a].live}

-----------------------------------------------------------------------------
(* Submissions.                                                            *)

\* The student's page has loaded the activity; nothing stops a second
\* submission while one is in progress.
Send(s, a) ==
    /\ texts < MaxWorks
    /\ texts' = texts + 1
    /\ posts' = posts \cup {[student |-> s, activity |-> a, text |-> texts + 1,
                             checked |-> FALSE]}
    /\ UNCHANGED <<activity, work, calls, desk, moves, crossed>>

\* requireActivity, assertEnrolled, the deadline.
Accept(p) ==
    /\ ~p.checked /\ p.activity \in Live
    /\ activity[p.activity].past => activity[p.activity].late
    /\ posts' = (posts \ {p}) \cup {[p EXCEPT !.checked = TRUE]}
    /\ UNCHANGED <<activity, work, calls, desk, texts, moves, crossed>>

PostFails(p) ==
    /\ posts' = posts \ {p}
    /\ UNCHANGED <<activity, work, calls, desk, texts, moves, crossed>>

\* The page shows the work's row, or a request of its holds it.
Held(a, s) ==
    \/ desk.shown = a /\ s \in DOMAIN desk.rows
    \/ \E c \in calls : /\ c.item = a
                        /\ \/ c.kind = "rows" /\ s \in DOMAIN c.rows
                           \/ c.kind = "grade" /\ c.student = s

Stored(p, verdict) ==
    /\ p.checked
    /\ work' = [work EXCEPT ![p.activity][p.student] = [text |-> p.text, verdict |-> verdict]]
    /\ posts' = posts \ {p}
    /\ crossed' = IF Held(p.activity, p.student)
                  THEN crossed \cup {<<p.activity, p.student>>}
                  ELSE crossed \ {<<p.activity, p.student>>}
    /\ UNCHANGED <<activity, calls, desk, texts, moves>>

\* Submit, if the upsert left the earlier grade.
SubmitKeepingGrade(p) == Stored(p, work[p.activity][p.student].verdict)

\* submit: one upsert; a grade of the earlier text is removed (the scores it
\* was made of stay, and fill the form in when it is opened).
Submit(p) == Stored(p, None)

-----------------------------------------------------------------------------
(* The activities.                                                         *)

\* update changes the deadline; time passes it.
ChangeActivity(a) ==
    /\ a \in Live
    /\ \E past, late \in BOOLEAN :
         activity' = [activity EXCEPT ![a] = [@ EXCEPT !.past = past, !.late = late]]
    /\ UNCHANGED <<work, posts, calls, desk, texts, moves, crossed>>

DeleteActivity(a) ==
    /\ a \in Live
    /\ activity' = [activity EXCEPT ![a].live = FALSE]
    /\ UNCHANGED <<work, posts, calls, desk, texts, moves, crossed>>

-----------------------------------------------------------------------------
(* The page's requests.                                                    *)

SheetRows(i) ==
    IF i \in Quizzes
    THEN [s \in Students |-> [text |-> 1, verdict |-> IF s \in EssayWriters THEN None ELSE 1]]
    ELSE [s \in {t \in Students : work[i][t].text # None} |-> work[i][s]]

Call(kind, i) == [kind |-> kind, item |-> i, student |-> Nothing, text |-> None, step |-> "ask",
                  items |-> {}, rows |-> NoRows, n |-> moves, after |-> FALSE]

\* listByCourse, twice; getActivity and listSubmissions; listAttempts.
Serve(c) ==
    /\ c.step = "ask" /\ c.kind # "grade"
    /\ c.kind = "rows" => c.item \in Live \cup Quizzes
    /\ calls' = (calls \ {c}) \cup
                {IF c.kind = "items" THEN [c EXCEPT !.step = "land", !.items = Live \cup Quizzes]
                 ELSE [c EXCEPT !.step = "land", !.rows = SheetRows(c.item)]}
    /\ UNCHANGED <<activity, work, posts, desk, texts, moves, crossed>>

\* The effect of a selected item: it runs again when the items are loaded again.
Select(d, cs) ==
    IF d.picked \notin d.items
    THEN desk' = d /\ calls' = cs
    ELSE /\ Cardinality(cs) < MaxCalls
         /\ desk' = [d EXCEPT !.filter = "all", !.loading = TRUE]
         /\ calls' = cs \cup {Call("rows", d.picked)}

\* The items land whatever the course selected by now.
ItemsLand(c) ==
    /\ c.kind = "items" /\ c.step = "land"
    /\ Select([desk EXCEPT !.items = c.items], calls \ {c})
    /\ UNCHANGED <<activity, work, posts, texts, moves, crossed>>

\* The rows land whatever the item selected by now; after a grade the form
\* that is open is closed.
RowsLand(c) ==
    /\ c.kind = "rows" /\ c.step = "land"
    /\ calls' = calls \ {c}
    /\ desk' = [desk EXCEPT !.shown = c.item, !.rows = c.rows,
                            !.loading = (c.after /\ desk.loading),
                            !.form = IF c.after THEN NoForm ELSE @]
    /\ UNCHANGED <<activity, work, posts, texts, moves, crossed>>

CallFails(c) ==
    /\ calls' = calls \ {c}
    /\ desk' = [desk EXCEPT !.items = IF c.kind = "items" THEN {} ELSE @,
                            !.loading = (desk.loading /\ (c.kind # "rows" \/ c.after)),
                            !.form = IF c.kind = "grade" \/ c.after THEN NoForm ELSE @]
    /\ UNCHANGED <<activity, work, posts, texts, moves, crossed>>

\* grade: the submission is found, whether or not its activity is deleted.
FindSubmission(c) ==
    /\ c.kind = "grade" /\ c.step = "ask"
    /\ calls' = (calls \ {c}) \cup {[c EXCEPT !.step = "write"]}
    /\ UNCHANGED <<activity, work, posts, desk, texts, moves, crossed>>

\* The grade is written, and the page asks for the rows again.
Grade(c) ==
    /\ c.kind = "grade" /\ c.step = "write"
    /\ work' = [work EXCEPT ![c.item][c.student].verdict = c.text]
    /\ calls' = (calls \ {c}) \cup
                {[Call("rows", c.item) EXCEPT !.after = TRUE, !.n = c.n]}
    /\ UNCHANGED <<activity, posts, desk, texts, moves, crossed>>

-----------------------------------------------------------------------------
(* What the teacher does.                                                  *)

Move == moves < MaxMoves /\ moves' = moves + 1
        /\ UNCHANGED <<activity, work, posts, texts, crossed>>

\* The effect of the course; with none selected the page is emptied.
PickCourse ==
    /\ Cardinality(calls) < MaxCalls
    /\ desk' = [EmptyDesk EXCEPT !.course = ~desk.course, !.form = desk.form,
                                 !.loading = desk.loading,
                                 !.items = IF desk.course THEN {} ELSE desk.items]
    /\ calls' = IF desk.course THEN calls ELSE calls \cup {Call("items", Nothing)}

PickItem ==
    /\ desk.course
    /\ \E i \in desk.items \ {desk.picked} : Select([desk EXCEPT !.picked = i], calls)

\* activityRows, quizRows
Visible == {s \in DOMAIN desk.rows :
              CASE desk.filter = "all" -> TRUE
                [] desk.filter = "pending" -> desk.rows[s].verdict = None
                [] desk.filter = "graded" -> desk.rows[s].verdict # None}

PickFilter ==
    /\ desk.picked \in desk.items
    /\ \E f \in {"all", "pending", "graded"} \ {desk.filter} :
          desk' = [desk EXCEPT !.filter = f]
    /\ UNCHANGED calls

\* The table of an activity is shown: rows of quizzes have no form.
TableShown == /\ desk.picked \in desk.items \cap Activities /\ ~desk.loading
              /\ desk.shown \in Activities

\* openGradeForm
OpenForm ==
    /\ TableShown
    /\ \E s \in Visible : /\ desk.form # <<desk.shown, s>>
                          /\ desk' = [desk EXCEPT !.form = <<desk.shown, s>>]
    /\ UNCHANGED calls

Cancel ==
    /\ TableShown /\ desk.form[1] = desk.shown /\ desk.form[2] \in Visible
    /\ desk' = [desk EXCEPT !.form = NoForm]
    /\ UNCHANGED calls

\* saveGrade: the form stays open, and may be saved again.
Save ==
    /\ TableShown /\ desk.form[1] = desk.shown /\ desk.form[2] \in Visible
    /\ Cardinality(calls) < MaxCalls
    /\ calls' = calls \cup
                {[Call("grade", desk.shown) EXCEPT !.student = desk.form[2],
                                                   !.text = desk.rows[desk.form[2]].text]}
    /\ UNCHANGED desk

-----------------------------------------------------------------------------
GradingInit ==
    /\ activity \in [Activities -> {[live |-> TRUE, past |-> FALSE, late |-> FALSE]}]
    /\ work = [a \in Activities |-> [s \in Students |-> [text |-> None, verdict |-> None]]]
    /\ posts = {} /\ calls = {}
    /\ desk = EmptyDesk
    /\ texts = 0 /\ moves = 0
    /\ crossed = {}

GradingNext ==
    \/ \E s \in Students, a \in Live : Send(s, a)
    \/ \E p \in posts : Accept(p) \/ Submit(p) \/ PostFails(p)
    \/ \E a \in Activities : ChangeActivity(a) \/ DeleteActivity(a)
    \/ \E c \in calls : \/ Serve(c) \/ ItemsLand(c) \/ RowsLand(c) \/ CallFails(c)
                        \/ FindSubmission(c) \/ Grade(c)
    \/ Move /\ (PickCourse \/ PickItem \/ PickFilter \/ OpenForm \/ Cancel \/ Save)

GradingSpec == GradingInit /\ [][GradingNext]_gradingVars

-----------------------------------------------------------------------------
GradingTypeOK ==
    /\ activity \in [Activities -> [live : BOOLEAN, past : BOOLEAN, late : BOOLEAN]]
    /\ work \in [Activities -> [Students -> Row]]
    /\ posts \subseteq [student : Students, activity : Activities, text : 1 .. MaxWorks,
                        checked : BOOLEAN]
    /\ \A c \in calls : /\ c.kind \in {"items", "rows", "grade"}
                        /\ c.item \in Items \cup {Nothing}
                        /\ c.step \in {"ask", "land", "write"}
    /\ Cardinality(calls) <= MaxCalls
    /\ desk.items \subseteq Items
    /\ desk.picked \in Items \cup {Nothing} /\ desk.shown \in Items \cup {Nothing}
    /\ desk.rows \in UNION {[t -> Row] : t \in SUBSET Students}
    /\ desk.form \in ((Activities \X Students) \cup {NoForm})
    /\ texts \in 0 .. MaxWorks /\ moves \in 0 .. MaxMoves
    /\ crossed \subseteq Activities \X Students

\* buildReport: of the activities not deleted, those graded.
Report(s) == {a \in Live : work[a][s].verdict # None}

(* A grade in a student's report card is the verdict on the text stored,   *)
(* except when the work was sent again while the teacher's page showed the *)
(* text before, or a request of hers was on its way.                       *)
GradeIsOfWork ==
    \A s \in Students : \A a \in Report(s) :
        <<a, s>> \notin crossed => work[a][s].verdict = work[a][s].text
=============================================================================
