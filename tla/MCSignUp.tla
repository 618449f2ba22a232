------------------------------ MODULE MCSignUp ------------------------------
(* Two schools.  High has two periods: course A exists in the first, C may *)
(* be created in the second.  Low has one period, in which B may be        *)
(* created, so a form for the wrong school can clash.  One teacher.        *)
EXTENDS SignUp

CONSTANTS A, B, C, High, Low, T

MCCourse   == {A, B, C}
MCSchool   == {High, Low}
MCFaculty  == {T}
MCPeriod   == [c \in MCCourse |-> IF c = C THEN 2 ELSE 1]
MCSchoolId == [c \in MCCourse |-> IF c = B THEN Low ELSE High]
MCMax      == [s \in MCSchool |-> IF s = High THEN 2 ELSE 1]

MCInit == SignUpInit /\ courseDocs = {A} /\ facultyDocs = [s \in MCSchool |-> MCFaculty]

MCSpec == MCInit /\ [][SignUpNext]_signUpVars

(* States the rest of a behaviour cannot tell apart: a covered instance    *)
(* never comes back, no property reads its variables (except the schedule  *)
(* FinalSetup was entered with), and nobody reads the course list of the   *)
(* school that is saved, only its id.                                      *)
MCView ==
    <<IF newUserData.school = Nil THEN Nil ELSE newUserData.school.id, newUserData.schedule,
      top, crashed, docVars, outran,
      currentSelection, fetches, requests, lastRun, strayed,
      IF top = "SchoolSelector" THEN <<listOfSchools, listAsked, errorShown>>
      ELSE <<listOfSchools = <<>>>>,
      IF top = "ChooseClasses"
      THEN <<userSchool, currentUserSchedule, searchResults, showAllCourses, rows, periods,
             errors, appeared, {s.id : s \in asked}, handOff>> ELSE <<>>,
      IF top = "FinalSetup" THEN currentUserSchedule ELSE Nil,
      IF top = "AddClass" THEN formVars ELSE <<>>,
      alerted>>
=============================================================================
