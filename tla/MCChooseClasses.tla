-------------------------- MODULE MCChooseClasses --------------------------
(* One school of two periods with three courses: A and B meet in period 1, *)
(* C in period 2.  One row fits on the screen, so any row may be re-asked  *)
(* for.                                                                    *)
EXTENDS ChooseClasses

CONSTANTS A, B, C, High

MCCourse   == {A, B, C}
MCSchool   == {High}
MCPeriod   == [c \in MCCourse |-> IF c = C THEN 2 ELSE 1]
MCSchoolId == [c \in MCCourse |-> High]
MCMax      == [s \in MCSchool |-> 2]
=============================================================================
