-------------------------------- MODULE Thread --------------------------------
(***************************************************************************)
(* A post of a course's community and the comments below it                *)
(* (community.service.ts), with the pages people read and write it on      *)
(* (CommunityThread, CommunityCommentTree).  A request's queries are its   *)
(* steps, and the requests of several forms interleave.  Who belongs to    *)
(* the course is Enrolments' matter: here a request may be refused.        *)
(***************************************************************************)
EXTENDS Naturals, FiniteSets

CONSTANTS
    Replies,        \* identities, 1 .. n
    Forms,          \* forms that send comments and removals, one request at a time
    People,
    PersonOf,       \* whose page each form is on
    Moderators,     \* teachers and administrators of the course
    MaxReplyDepth,
    MaxTexts,       \* bound on the texts written in a form
    MaxRequests     \* bound on the requests sent

ThreadConstants ==
    /\ Replies \subseteq Nat \ {0}
    /\ Forms # {} /\ PersonOf \in [Forms -> People]
    /\ Moderators \subseteq People
    /\ MaxReplyDepth \in Nat /\ MaxTexts \in Nat /\ MaxRequests \in Nat

Root == 0

VARIABLES
    topic,      \* the post is not deleted
    reply,      \* "new" (no such comment), "live" or "deleted"
    parent,     \* Root, or the comment it answers
    written,    \* the form a comment came from and the number of its text
    request,    \* the request of each form
    seen,       \* the comments each person's page shows
    text,       \* the number of the text in each form
    sent,       \* requests sent
    stray,      \* ghost: comments made while some removal was at work
    misled      \* ghost: texts whose form was told of a failure after they were stored

threadVars == <<topic, reply, parent, written, request, seen, text, sent, stray, misled>>

Quiet == [step |-> "none", on |-> Root, ids |-> {}, beside |-> FALSE]
Steps == {"none", "find_topic", "find_parent", "create", "reload", "find", "collect",
          "mark", "find_post", "drop", "load"}

Live == {r \in Replies : reply[r] = "live"}
Author(r) == PersonOf[written[r].form]

\* replyDepth
Depth == LET depth[r \in Replies] == IF parent[r] = Root THEN 0 ELSE depth[parent[r]] + 1
         IN depth

\* buildReplyTree: a comment whose parent is not in the answer is shown as a root.
ShownDepth(s) ==
    LET depth[r \in s] == IF parent[r] \notin s THEN 0 ELSE depth[parent[r]] + 1
    IN depth

Step(f, s) == request' = [request EXCEPT ![f].step = s]
End(f) == request' = [request EXCEPT ![f] = Quiet]

-----------------------------------------------------------------------------
(* The page.                                                               *)

\* canReply, canDelete
MayReply(f, r) == r \in seen[PersonOf[f]] /\ ShownDepth(seen[PersonOf[f]])[r] < MaxReplyDepth
MayModerate(p, r) == p \in Moderators \/ p = Author(r)
MayDelete(f, r) == r \in seen[PersonOf[f]] /\ MayModerate(PersonOf[f], r)

Begin(f, s, on) ==
    /\ request[f] = Quiet /\ sent < MaxRequests
    /\ sent' = sent + 1
    /\ request' = [request EXCEPT ![f] = [Quiet EXCEPT !.step = s, !.on = on]]
    /\ UNCHANGED <<topic, reply, parent, written, seen, text, stray, misled>>

SendRootReply(f) == Begin(f, "find_topic", Root)
SendReply(f) == \E r \in Replies : MayReply(f, r) /\ Begin(f, "find_topic", r)
SendRemoval(f) == \E r \in Replies : MayDelete(f, r) /\ Begin(f, "find", r)
SendTopicRemoval(f) == PersonOf[f] \in Moderators /\ Begin(f, "find_post", Root)
Open(f) == Begin(f, "load", Root)

\* A request is refused or fails, or the answer of the comment or of the load
\* after it is lost: the form keeps its text.
Fail(f) ==
    /\ request[f].step \in Steps \ {"none"}
    /\ End(f)
    /\ misled' = IF request[f].step = "reload"
                 THEN misled \cup {[form |-> f, text |-> text[f]]} ELSE misled
    /\ UNCHANGED <<topic, reply, parent, written, seen, text, sent, stray>>

-----------------------------------------------------------------------------
(* reply                                                                   *)

FindTopic(f) ==
    /\ request[f].step = "find_topic"
    /\ topic
    /\ Step(f, IF request[f].on = Root THEN "create" ELSE "find_parent")
    /\ UNCHANGED <<topic, reply, parent, written, seen, text, sent, stray, misled>>

\* FindParent, if a removed comment could be answered.
FindParentRemoved(f) ==
    /\ request[f].step = "find_parent"
    /\ Depth[request[f].on] + 1 <= MaxReplyDepth
    /\ Step(f, "create")
    /\ UNCHANGED <<topic, reply, parent, written, seen, text, sent, stray, misled>>

\* A comment's parent never changes, so its depth is read as at one instant.
FindParent(f) ==
    /\ request[f].step = "find_parent"
    /\ reply[request[f].on] = "live"
    /\ Depth[request[f].on] + 1 <= MaxReplyDepth
    /\ Step(f, "create")
    /\ UNCHANGED <<topic, reply, parent, written, seen, text, sent, stray, misled>>

Removing == {g \in Forms : request[g].step = "mark"}

Create(f) ==
    /\ request[f].step = "create"
    /\ \E r \in Replies :
         /\ reply[r] = "new"
         /\ \A s \in Replies : s < r => reply[s] # "new"
         /\ reply' = [reply EXCEPT ![r] = "live"]
         /\ parent' = [parent EXCEPT ![r] = request[f].on]
         /\ written' = [written EXCEPT ![r] = [form |-> f, text |-> text[f]]]
         /\ stray' = IF request[f].beside \/ Removing # {} THEN stray \cup {r} ELSE stray
    /\ Step(f, "reload")
    /\ UNCHANGED <<topic, seen, text, sent, misled>>

-----------------------------------------------------------------------------
(* softDeleteReply                                                         *)

FindReply(f) ==
    /\ request[f].step = "find"
    /\ reply[request[f].on] = "live"
    /\ MayModerate(PersonOf[f], request[f].on)
    /\ Step(f, "collect")
    /\ UNCHANGED <<topic, reply, parent, written, seen, text, sent, stray, misled>>

\* collectReplySubtreeIds: by live comments only.
Subtree(q) ==
    LET below[r \in Replies] ==
            \/ r = q
            \/ reply[r] = "live" /\ parent[r] # Root /\ below[parent[r]]
    IN {r \in Replies : below[r]}

Collect(f) ==
    /\ request[f].step = "collect"
    /\ request' = [request EXCEPT ![f] = [@ EXCEPT !.step = "mark", !.ids = Subtree(request[f].on)]]
    /\ UNCHANGED <<topic, reply, parent, written, seen, text, sent, stray, misled>>

Mark(f) ==
    /\ request[f].step = "mark"
    /\ reply' = [r \in Replies |-> IF r \in request[f].ids /\ reply[r] = "live"
                                   THEN "deleted" ELSE reply[r]]
    /\ request' = [g \in Forms |->
                     IF g = f THEN [Quiet EXCEPT !.step = "load", !.on = request[f].on]
                     ELSE [request[g] EXCEPT !.beside = @ \/ request[g].step = "create"]]
    /\ UNCHANGED <<topic, parent, written, seen, text, sent, stray, misled>>

-----------------------------------------------------------------------------
(* softDeleteTopic: the comments stay as they are.                         *)

FindPost(f) ==
    /\ request[f].step = "find_post"
    /\ topic
    /\ Step(f, "drop")
    /\ UNCHANGED <<topic, reply, parent, written, seen, text, sent, stray, misled>>

DropTopic(f) ==
    /\ request[f].step = "drop"
    /\ topic' = FALSE
    /\ seen' = [seen EXCEPT ![PersonOf[f]] = {}]
    /\ End(f)
    /\ UNCHANGED <<reply, parent, written, text, sent, stray, misled>>

-----------------------------------------------------------------------------
(* getTopic.  sendReply loads the thread again, and only then is the text  *)
(* of the form cleared.                                                    *)
Load(f) ==
    /\ request[f].step \in {"load", "reload"}
    /\ topic
    /\ seen' = [seen EXCEPT ![PersonOf[f]] = Live]
    /\ text' = [text EXCEPT ![f] = IF request[f].step = "reload" THEN @ + 1 ELSE @]
    /\ End(f)
    /\ UNCHANGED <<topic, reply, parent, written, sent, stray, misled>>

-----------------------------------------------------------------------------
Nothing == [form |-> CHOOSE f \in Forms : TRUE, text |-> 0]

ThreadInit ==
    /\ topic = TRUE
    /\ reply = [r \in Replies |-> "new"]
    /\ parent = [r \in Replies |-> Root]
    /\ written = [r \in Replies |-> Nothing]
    /\ request = [f \in Forms |-> Quiet]
    /\ seen = [p \in People |-> {}]
    /\ text = [f \in Forms |-> 1]
    /\ sent = 0
    /\ stray = {} /\ misled = {}

ThreadNext == \E f \in Forms :
    \/ text[f] <= MaxTexts /\ (SendRootReply(f) \/ SendReply(f))
    \/ SendRemoval(f) \/ SendTopicRemoval(f) \/ Open(f) \/ Fail(f)
    \/ FindTopic(f) \/ FindParent(f) \/ Create(f)
    \/ FindReply(f) \/ Collect(f) \/ Mark(f)
    \/ FindPost(f) \/ DropTopic(f) \/ Load(f)

ThreadSpec == ThreadInit /\ [][ThreadNext]_threadVars

-----------------------------------------------------------------------------
ThreadTypeOK ==
    /\ topic \in BOOLEAN
    /\ reply \in [Replies -> {"new", "live", "deleted"}]
    /\ parent \in [Replies -> Replies \cup {Root}]
    /\ written \in [Replies -> [form : Forms, text : 0 .. MaxTexts]]
    /\ request \in [Forms -> [step : Steps, on : Replies \cup {Root},
                              ids : SUBSET Replies, beside : BOOLEAN]]
    /\ seen \in [People -> SUBSET Replies]
    /\ text \in [Forms -> 1 .. MaxTexts + 1]
    /\ sent \in 0 .. MaxRequests
    /\ stray \in SUBSET Replies
    /\ misled \in SUBSET [form : Forms, text : 1 .. MaxTexts + 1]

\* No comment answers a removed one, unless it was made while a removal was at work.
AnswersGoWithTheirComment ==
    \A r \in Live : parent[r] = Root \/ reply[parent[r]] = "live" \/ r \in stray

\* No comment is deeper than the limit.
DepthIsBounded == \A r \in Replies : Depth[r] <= MaxReplyDepth

\* A text is posted twice only when its form was told of a failure after the first time.
PostedOnce ==
    \A r, s \in Replies :
        (r # s /\ written[r] = written[s] /\ reply[r] # "new" /\ reply[s] # "new")
            => written[r] \in misled

(* The thread stays whole however the requests of several people           *)
(* interleave, fail or lose their answers: a removal takes all that        *)
(* answers the comment, no level is exceeded, and nothing is posted twice  *)
(* behind the back of its author.                                          *)
ThreadIsWhole == AnswersGoWithTheirComment /\ DepthIsBounded /\ PostedOnce
=============================================================================
