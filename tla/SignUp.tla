------------------------------- MODULE SignUp -------------------------------
(***************************************************************************)
(* The part of the sign-up flow that ends with a schedule: SchoolSelector, *)
(* ChooseClasses and AddClass, presenting one another, over one Firestore  *)
(* that other students write to as well.                                   *)
(*                                                                         *)
(* A segue presents a new instance, so the variables of ChooseClasses and  *)
(* AddClass are those of the instance presented last; they are set afresh  *)
(* when the next one is presented.  Callbacks of a covered instance write  *)
(* into nothing that is seen again, and are dropped, except those of       *)
(* updateNewUser (CourseListAnswer), which write the global newUserData.   *)
(***************************************************************************)
EXTENDS SchoolSelector, ChooseClasses, AddClass

(* Until the first ChooseClasses screen and the first form are presented,  *)
(* some school stands for theirs.                                          *)
ASSUME SignUpAssumption == School # {}

VARIABLE outran   \* history: AddClass was opened before ChooseClasses had its schedule

signUpVars == <<appVars, selectorVars, screenVars, formVars, docVars, outran>>

SignUpTypeOK ==
    /\ AppTypeOK /\ SelectorTypeOK /\ ScreenTypeOK /\ FormTypeOK
    /\ outran \in BOOLEAN

(* What getCourseList, getFaculty and getSchoolList answer now. *)
CourseLists(s) == Listings(courseDocs \cap CoursesOf(s))

StaffLists(s) == Listings(facultyDocs[s])

-----------------------------------------------------------------------------
SignUpInit ==
    /\ newUserData = [school |-> Nil, schedule |-> Nil]
    /\ top = "SchoolSelector"
    /\ crashed = FALSE
    /\ FreshSelector
    /\ FreshScreen
    /\ handOff = [from |-> "selector", school |-> CHOOSE s \in School : TRUE,
                  schedule |-> Nil, ran |-> TRUE]
    /\ FreshForm(CHOOSE s \in School : TRUE, <<>>, Nil)
    /\ courseDocs \in SUBSET Course
    /\ facultyDocs \in [School -> SUBSET Faculty]
    /\ outran = FALSE

(* Steps of one screen, or of a callback that reaches it *)
OnSchoolSelector ==
    /\ \/ \E list \in UNION {Listings(S) : S \in SUBSET School} : SchoolListAnswer(list)
       \/ SchoolListFailure
       \/ \E row \in DOMAIN listOfSchools : pickSchool(row)
       \/ continueRefused
    /\ UNCHANGED <<screenVars, formVars, docVars, outran>>

SavedWithList ==
    /\ \E f \in fetches : \E list \in CourseLists(f.school) : CourseListAnswer(f, list)
    /\ UNCHANGED <<screenVars, formVars, docVars, outran>>

OnChooseClasses ==
    /\ \/ \E i \in DOMAIN rows : didSelectRow(i) \/ Scroll(i)
       \/ searchBarTextDidBeginEditing \/ searchBarTextDidEndEditing \/ textDidChange
       \/ addClass \/ viewDidAppear \/ Continue
       \/ \E list \in CourseLists(handOff.school) :
             SelectorHandOff(list) \/ AddClassHandOff(list)
    /\ UNCHANGED <<selectorVars, formVars, docVars, outran>>

OnAddClass ==
    /\ FormTouch \/ FadeDone
    /\ UNCHANGED <<selectorVars, screenVars, outran>>

(* Another student creates a course. *)
OthersAdd(c) ==
    /\ ~crashed /\ c \notin courseDocs
    /\ courseDocs' = courseDocs \cup {c}
    /\ UNCHANGED <<appVars, selectorVars, screenVars, formVars, facultyDocs, outran>>

-----------------------------------------------------------------------------
(* Segues *)

(* Mutant: the school of the hand-off is the first of the list. *)
Present_firstSchool(from, s, schedule) ==
    handOff' = [from |-> from, school |-> Head(listOfSchools), schedule |-> schedule,
                ran |-> FALSE]

(* The closure prepare hands to getCourseList *)
Present(from, s, schedule) ==
    handOff' = [from |-> from, school |-> s, schedule |-> schedule, ran |-> FALSE]

(* FreshScreen and FreshForm, for the new instance *)
NewScreen ==
    /\ userSchool' = Nil /\ currentUserSchedule' = Nil
    /\ searchResults' = <<>> /\ showAllCourses' = TRUE
    /\ rows' = Table'
    /\ periods' = NoCoursesSelected
    /\ errors' = [text |-> "", isHidden |-> TRUE]
    /\ appeared' = FALSE /\ asked' = {} /\ alerted' = FALSE

NewForm(s, staff, sched) ==
    /\ school' = [id |-> s, Staff |-> staff] /\ scheduleToReturn' = sched
    /\ ClassTitle' = FALSE /\ currentSelectorItem' = "teacher"
    /\ pickerHidden' = TRUE /\ wheel' = 1
    /\ currentTeacher' = Nil /\ currentTeacherRow' = Nil /\ currentPeriod' = Nil
    /\ classData' = [key \in DOMAIN classData |-> Nil]
    /\ overlay' = FALSE /\ fading' = FALSE /\ formEnabled' = TRUE /\ reopened' = FALSE
    /\ teacherLast' = FALSE /\ currentNewTeacherTitle' = Nil /\ TeacherPickerRow' = 1
    /\ alert' = "none" /\ newCrs' = Nil

SelectorToChooseClasses ==
    /\ continueAction
    /\ NewScreen
    /\ Present("selector", currentSelection, Nil)
    /\ UNCHANGED <<formVars, docVars, outran>>

ChooseClassesToAddClass ==
    /\ \E saved \in asked :
         /\ FacultyAnswer(saved)
         /\ \E staff \in StaffLists(saved.id) : NewForm(saved.id, staff, currentUserSchedule)
    /\ outran' = (outran \/ currentUserSchedule = Nil)
    /\ UNCHANGED <<selectorVars, docVars>>

AddClassToChooseClasses ==
    /\ \/ OkAdded /\ Present("return", newUserData.school.id, scheduleToReturn')
       \/ cancelAddClass /\ Present("cancel", newUserData.school.id, scheduleToReturn)
    /\ NewScreen
    /\ UNCHANGED <<selectorVars, outran>>

SignUpNext ==
    \/ OnSchoolSelector \/ SavedWithList \/ OnChooseClasses \/ OnAddClass
    \/ SelectorToChooseClasses \/ ChooseClassesToAddClass \/ AddClassToChooseClasses
    \/ \E c \in Course : OthersAdd(c)

SignUpSpec == SignUpInit /\ [][SignUpNext]_signUpVars

-----------------------------------------------------------------------------
(* Properties *)

(* The schedule the app holds for the student, wherever it is: on the way  *)
(* to a ChooseClasses screen, on that screen, or in the form.              *)
Held ==
    CASE top = "AddClass" -> scheduleToReturn
      [] top = "ChooseClasses" /\ ~handOff.ran -> handOff.schedule
      [] top = "ChooseClasses" /\ handOff.ran -> currentUserSchedule
      [] OTHER -> Nil

HeldCourses == IF Held = Nil THEN {} ELSE ToSet(Held.courseLoad)

(* The schedule never has a period twice, whichever screen the courses     *)
(* were added on and whatever happened between (verifyNewCourseToSchedule  *)
(* is asked by both didSelectRowAt and the form's alert).                  *)
HeldClashFree == Held # Nil => ClashFree(Held)

(* The callbacks of updateNewUser save the school of their call, so the    *)
(* saved school is the selected one whenever the callback that ran last is *)
(* the one of the last selection, however many are still to come.          *)
SavedIsSelected ==
    requests > 0 /\ lastRun = requests => newUserData.school.id = currentSelection

(* As long as no callback has saved another school than the selected one,  *)
(* a schedule holds courses of one school only, that of the student, and   *)
(* no more than this school allows: nobody compares the two.               *)
OneSchool ==
    ~strayed /\ Held # Nil =>
        /\ \A c \in HeldCourses : schoolId[c] = currentSelection
        /\ Len(Held.courseLoad) <= MaxStudentCourseLoad[currentSelection]

(* ... and a course is created in the school the student has selected.     *)
CreatedForSelected ==
    ~strayed /\ top = "AddClass" /\ newCrs # Nil => schoolId[newCrs] = currentSelection

(* Without a list of schools there is no way on: getSchoolList is asked    *)
(* once, and when it fails, finds a document it cannot decode, or finds no *)
(* school, the student stays on the first screen for good.                 *)
NoListNoWay == listOfSchools = <<>> => top = "SchoolSelector"

(* Going to the form and back, and a hand-off that comes late, loses no    *)
(* course of the schedule and adds at most the new one - unless the form   *)
(* is opened before the hand-off arrived, when the schedule is lost.       *)
NothingLost ==
    [][{top, top'} \subseteq {"ChooseClasses", "AddClass"} /\ <<top, handOff>>' # <<top, handOff>>
         => \/ HeldCourses' = HeldCourses
            \/ top = "AddClass" /\ HeldCourses' = HeldCourses \cup {newCrs}
            \/ outran']_signUpVars
=============================================================================
