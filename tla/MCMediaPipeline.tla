-------------------------- MODULE MCMediaPipeline ---------------------------
\* One lesson whose first media was deleted and left linked, two teachers, two jobs.
EXTENDS MediaPipeline

CONSTANTS v1, a0, a1, a2, q1, q2, j1, j2

MCLegacyOf == [a \in Assets |-> IF a = a0 THEN v1 ELSE NoVideo]
MCNoLegacy == [a \in Assets |-> NoVideo]
=============================================================================
