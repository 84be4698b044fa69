-------------------------- MODULE MCCourseProgress --------------------------
\* A small course for TLC: one student in two tabs, two lessons in the first
\* module and one that may be added to the second.
EXTENDS CourseProgress

CONSTANTS alice, school, m1, m2, v1, v2, v3, r1, r2

MCModuleOf == [v \in Videos |-> IF v = v3 THEN m2 ELSE m1]
MCStudentOf == [r \in Requests |-> alice]
=============================================================================
