----------------------------- MODULE MCPlatform -----------------------------
(***************************************************************************)
(* Small instances of every component.                                     *)
(***************************************************************************)
EXTENDS Platform, TLC

CONSTANTS w1, w2, w3, k1, k2, k3, r1   \* the image: three writers, three uploads, one reader

\* One browser with two tabs; the first makes two calls at a time.
MCBrowserOf == [t \in {"first", "second"} |-> "laptop"]
MCTabOf == [th \in {"p1", "p2", "q1"} |-> IF th = "q1" THEN "second" ELSE "first"]
MCInitialStatus == "ana" :> "absent"

\* Two attempts to log in at a time.
MCLimits == "hit" :> 1 @@ "ip" :> 1 @@ "fail" :> 2

\* Two rows and room for a third, in pages of one.
MCInitialRows == <<"a", "b", "none">>

\* A student and a teacher before one post.
MCPersonOf == "s1" :> "ana" @@ "t1" :> "prof"

\* Two modules of one lesson.
MCModules == <<"m1", "m2">>
MCPlaylist == "m1" :> <<"v1">> @@ "m2" :> <<"v2">>
=============================================================================
