----------------------------- MODULE MCAddClass -----------------------------
(* One school of two periods, with two courses in each, and two teachers,  *)
(* existing or not yet created.  Two titles are enough for a picker that   *)
(* has been moved.                                                         *)
EXTENDS AddClass

CONSTANTS A, B, C, D, High, T, U

MCCourse   == {A, B, C, D}
MCSchool   == {High}
MCFaculty  == {T, U}
MCPeriod   == [c \in MCCourse |-> IF c \in {A, B} THEN 1 ELSE 2]
MCSchoolId == [c \in MCCourse |-> High]
MCMax      == [s \in MCSchool |-> 2]
=============================================================================
