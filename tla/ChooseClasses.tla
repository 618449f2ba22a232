--------------------------- MODULE ChooseClasses ---------------------------
(***************************************************************************)
(* The screen on which a student picks courses                             *)
(* (ChooseClassesViewController.swift), one instance of it from the moment *)
(* it is presented until it is covered by AddClass or FinalSetup.          *)
(*                                                                         *)
(* The instance starts without school and schedule.  Whoever presented it  *)
(* has asked Firestore for the school's course list, and the callback of   *)
(* that query - the hand-off - fills the instance in when the answer       *)
(* arrives.  Callbacks run on the main queue, so each is one step; it can  *)
(* arrive at any time, or never (an error, or a malformed document, makes  *)
(* School.getCourseList return without calling its completion).            *)
(*                                                                         *)
(* rows is what the table shows.  A UITableView asks its data source again *)
(* only on reloadData and when a row scrolls into view, so rows can lag    *)
(* behind the data it was made from; a tap is answered from the data.      *)
(***************************************************************************)
EXTENDS App

CONSTANT ScreenRows   \* how many rows of the table fit on the screen

ASSUME ScreenRowsAssumption == ScreenRows \in Nat

VARIABLES
    userSchool,           \* the school with its course list, or Nil
    currentUserSchedule,  \* a Schedule, or Nil
    searchResults,
    showAllCourses,       \* FALSE while the search bar is being edited
    rows,                 \* what the table shows, row by row
    periods,              \* the label under the table, see periodLabelTextGenerator
    errors,               \* the label errors: its text and isHidden
    appeared,             \* viewDidAppear has run: the screen takes touches
    asked,                \* the schools of the getFaculty queries under way
    alerted,              \* schoolAlert has been presented
    handOff               \* the callback that fills the instance in

screenVars == <<userSchool, currentUserSchedule, searchResults, showAllCourses,
                rows, periods, errors, appeared, asked, alerted, handOff>>

vars == <<appVars, screenVars>>

Cells == [kind : {"course", "noSchool", "noSchedule"},
          course : {Nil} \cup Course, check : BOOLEAN]

ErrorTexts == {"", "no courses", "no schedule", "period taken", "periods"}

HandOffs == [from : {"selector", "cancel", "return"}, school : School,
             schedule : {Nil} \cup Schedules, ran : BOOLEAN]

ScreenTypeOK ==
    /\ userSchool \in {Nil} \cup SchoolValues
    /\ currentUserSchedule \in {Nil} \cup Schedules
    /\ searchResults \in Seq(Course)
    /\ showAllCourses \in BOOLEAN
    /\ rows \in Seq(Cells)
    /\ DOMAIN periods \subseteq Nat /\ \A p \in DOMAIN periods : periods[p] \in Nat
    /\ errors \in [text : ErrorTexts, isHidden : BOOLEAN]
    /\ appeared \in BOOLEAN
    /\ asked \subseteq SchoolValues
    /\ alerted \in BOOLEAN
    /\ handOff \in HandOffs

(* Every variable has a value the program's types allow. *)
TypeOK == AppTypeOK /\ ScreenTypeOK

-----------------------------------------------------------------------------
(* The table *)

(* self.userSchool?.CourseList *)
courses == IF userSchool = Nil THEN Nil ELSE userSchool.CourseList

(* The list the data source answers from, if there is one. *)
Source == IF showAllCourses THEN courses ELSE searchResults

NoSource == showAllCourses /\ courses = Nil

numberOfRows == IF NoSource THEN 1 ELSE Len(Source)

cellForRow(i) ==
    IF NoSource THEN
        [kind |-> "noSchool", course |-> Nil, check |-> FALSE]
    ELSE IF currentUserSchedule = Nil THEN
        [kind |-> "noSchedule", course |-> Nil, check |-> FALSE]
    ELSE
        [kind |-> "course", course |-> Source[i],
         check |-> Contains(currentUserSchedule.courseLoad, Source[i])]

(* What the table shows after tableView.reloadData(). *)
Table == [i \in 1 .. numberOfRows |-> cellForRow(i)]

(* Indexing a Swift array beyond its end is a runtime trap. *)
Beyond(i) == ~NoSource /\ i > Len(Source)

-----------------------------------------------------------------------------
(* An instance as presented: viewDidLoad has run, and the table has loaded *)
(* itself for the first time.  The presenter sets handOff.                 *)
FreshScreen ==
    /\ userSchool = Nil
    /\ currentUserSchedule = Nil
    /\ searchResults = <<>>
    /\ showAllCourses = TRUE
    /\ rows = Table
    /\ periods = NoCoursesSelected
    /\ errors = [text |-> "", isHidden |-> TRUE]
    /\ appeared = FALSE
    /\ asked = {}
    /\ alerted = FALSE

Live == top = "ChooseClasses" /\ ~crashed

Touchable == Live /\ appeared

viewDidAppear ==
    /\ Live /\ ~appeared
    /\ appeared' = TRUE
    /\ rows' = Table
    /\ UNCHANGED <<appVars, userSchool, currentUserSchedule, searchResults,
                   showAllCourses, periods, errors, asked, alerted, handOff>>

(* Mutant: the schedule is made without a maximum. *)
SelectorHandOff_noMax(list) ==
    /\ Live /\ handOff.from = "selector" /\ ~handOff.ran
    /\ userSchool' = SchoolWith(handOff.school, list)
    /\ currentUserSchedule' = Schedule(Nil, <<>>)
    /\ handOff' = [handOff EXCEPT !.ran = TRUE]
    /\ UNCHANGED <<appVars, searchResults, showAllCourses, rows, periods, errors,
                   appeared, asked, alerted>>

(* Mutant: a listener instead of a query, so the callback runs repeatedly. *)
SelectorHandOff_listener(list) ==
    /\ Live /\ handOff.from = "selector"
    /\ userSchool' = SchoolWith(handOff.school, list)
    /\ currentUserSchedule' = Schedule(MaxStudentCourseLoad[handOff.school], <<>>)
    /\ handOff' = [handOff EXCEPT !.ran = TRUE]
    /\ UNCHANGED <<appVars, searchResults, showAllCourses, rows, periods, errors,
                   appeared, asked, alerted>>

(* The callback of SchoolSelectorViewController.prepare: the school and a  *)
(* fresh schedule, no reload of the table.                                 *)
SelectorHandOff(list) ==
    /\ Live /\ handOff.from = "selector" /\ ~handOff.ran
    /\ userSchool' = SchoolWith(handOff.school, list)
    /\ currentUserSchedule' = Schedule(MaxStudentCourseLoad[handOff.school], <<>>)
    /\ handOff' = [handOff EXCEPT !.ran = TRUE]
    /\ UNCHANGED <<appVars, searchResults, showAllCourses, rows, periods, errors,
                   appeared, asked, alerted>>

(* Mutant: no reload. *)
AddClassHandOff_noReload(list) ==
    /\ Live /\ handOff.from \in {"cancel", "return"} /\ ~handOff.ran
    /\ userSchool' = SchoolWith(handOff.school, list)
    /\ currentUserSchedule' = handOff.schedule
    /\ handOff' = [handOff EXCEPT !.ran = TRUE]
    /\ UNCHANGED <<appVars, searchResults, showAllCourses, rows, periods, errors,
                   appeared, asked, alerted>>

(* The callbacks of AddClassViewController.prepare: the school and the     *)
(* schedule that AddClass returns, then a reload.  After a class was added *)
(* the text for the label periods goes to the label errors.                *)
AddClassHandOff(list) ==
    /\ Live /\ handOff.from \in {"cancel", "return"} /\ ~handOff.ran
    /\ userSchool' = SchoolWith(handOff.school, list)
    /\ currentUserSchedule' = handOff.schedule
    /\ handOff' = [handOff EXCEPT !.ran = TRUE]
    /\ errors' = IF handOff.from = "return" /\ handOff.schedule # Nil
                 THEN [errors EXCEPT !.text = "periods"] ELSE errors
    /\ UNCHANGED <<appVars, searchResults, showAllCourses, periods, appeared,
                   asked, alerted>>
    /\ rows' = Table'

-----------------------------------------------------------------------------
(* Touches on the table *)

(* A row scrolls into view: the data source is asked for it again. *)
Scroll(i) ==
    /\ Touchable /\ Len(rows) > ScreenRows /\ i \in DOMAIN rows
    /\ IF Beyond(i) THEN crashed' = TRUE /\ UNCHANGED rows
                    ELSE rows' = [rows EXCEPT ![i] = cellForRow(i)] /\ UNCHANGED crashed
    /\ UNCHANGED <<newUserData, top, userSchool, currentUserSchedule, searchResults,
                   showAllCourses, periods, errors, appeared, asked, alerted, handOff>>

Complain(text) ==
    /\ errors' = [text |-> text, isHidden |-> FALSE]
    /\ UNCHANGED <<crashed, currentUserSchedule, rows, periods>>

(* The schedule after a tap on a row of the given course: the course is    *)
(* removed if it is there, and otherwise added unless its period is taken. *)
Tapped(schedule, course) ==
    LET load == schedule.courseLoad
    IN  IF Contains(load, course)
        THEN [schedule EXCEPT !.courseLoad = RemoveAt(load, FirstIndex(load, course))]
        ELSE IF verifyNewCourseToSchedule(course, schedule)
        THEN [schedule EXCEPT !.courseLoad = Append(load, course)]
        ELSE schedule

(* Mutant: the checkmark stays when a course is removed. *)
Checked_afterRemoval(schedule, course) ==
    \/ Contains(schedule.courseLoad, course)
    \/ verifyNewCourseToSchedule(course, schedule)

(* cell.accessoryType after the tap *)
Checked(schedule, course) ==
    /\ ~Contains(schedule.courseLoad, course)
    /\ verifyNewCourseToSchedule(course, schedule)

(* Only a refused course changes the error text, and nothing unhides it.   *)
Toggle(i) ==
    LET course == Source[i]
    IN  /\ currentUserSchedule' = Tapped(currentUserSchedule, course)
        /\ rows' = [rows EXCEPT ![i].check = Checked(currentUserSchedule, course)]
        /\ errors' = IF currentUserSchedule' = currentUserSchedule
                     THEN [errors EXCEPT !.text = "period taken"] ELSE errors
        /\ periods' = periodLabelTextGenerator(currentUserSchedule')
        /\ UNCHANGED crashed

didSelectRow(i) ==
    /\ Touchable /\ i \in DOMAIN rows
    /\ \/ courses = Nil /\ Complain("no courses")
       \/ courses # Nil /\ currentUserSchedule = Nil /\ Complain("no schedule")
       \/ /\ courses # Nil /\ currentUserSchedule # Nil /\ Beyond(i)
          /\ crashed' = TRUE
          /\ UNCHANGED <<currentUserSchedule, rows, periods, errors>>
       \/ courses # Nil /\ currentUserSchedule # Nil /\ ~Beyond(i) /\ Toggle(i)
    /\ UNCHANGED <<newUserData, top, userSchool, searchResults, showAllCourses,
                   appeared, asked, alerted, handOff>>

-----------------------------------------------------------------------------
(* The search bar *)

searchBarTextDidBeginEditing ==
    /\ Touchable /\ showAllCourses
    /\ showAllCourses' = FALSE
    /\ searchResults' = <<>>
    /\ UNCHANGED <<appVars, userSchool, currentUserSchedule, rows, periods, errors,
                   appeared, asked, alerted, handOff>>

(* Mutant: no reload. *)
searchBarTextDidEndEditing_noReload ==
    /\ Touchable /\ ~showAllCourses
    /\ showAllCourses' = TRUE
    /\ searchResults' = <<>>
    /\ UNCHANGED <<appVars, userSchool, currentUserSchedule, rows, periods, errors,
                   appeared, asked, alerted, handOff>>

(* Cancel ends the editing, which calls this handler. *)
searchBarTextDidEndEditing ==
    /\ Touchable /\ ~showAllCourses
    /\ showAllCourses' = TRUE
    /\ searchResults' = <<>>
    /\ UNCHANGED <<appVars, userSchool, currentUserSchedule, periods, errors,
                   appeared, asked, alerted, handOff>>
    /\ rows' = Table'

textDidChange ==
    /\ Touchable /\ ~showAllCourses
    /\ UNCHANGED <<appVars, userSchool, currentUserSchedule, showAllCourses, periods,
                   errors, appeared, asked, alerted, handOff>>
    /\ \/ courses = Nil /\ searchResults' = <<>> /\ UNCHANGED rows
       \/ /\ courses # Nil
          /\ searchResults' \in Sublists(courses)
          /\ rows' = Table'

-----------------------------------------------------------------------------
(* Leaving the screen *)

(* The button "add a class" asks for the faculty of the saved school.      *)
addClass ==
    /\ Touchable
    /\ IF newUserData.school # Nil
       THEN asked' = asked \cup {newUserData.school} /\ UNCHANGED alerted
       ELSE alerted' = TRUE /\ UNCHANGED asked
    /\ UNCHANGED <<appVars, userSchool, currentUserSchedule, searchResults,
                   showAllCourses, rows, periods, errors, appeared, handOff>>

(* Its callback presents AddClass. *)
FacultyAnswer(school) ==
    /\ Touchable /\ school \in asked
    /\ asked' = asked \ {school}
    /\ userSchool' = school
    /\ top' = "AddClass"
    /\ UNCHANGED <<newUserData, crashed, currentUserSchedule, searchResults,
                   showAllCourses, rows, periods, errors, appeared, alerted, handOff>>

(* override func prepare(for:sender:), as far as it changes newUserData *)
prepare(identifier) ==
    newUserData' = IF identifier = "signUpSegueThree"
                   THEN [newUserData EXCEPT !.schedule = currentUserSchedule]
                   ELSE newUserData

(* The Continue button is the segue signUpSegueFour to FinalSetup. *)
Continue ==
    /\ Touchable
    /\ prepare("signUpSegueFour")
    /\ top' = "FinalSetup"
    /\ UNCHANGED <<crashed, screenVars>>

-----------------------------------------------------------------------------
(* One instance on its own.  It was presented by SchoolSelector, or by     *)
(* AddClass with any schedule that was made for the same school (SignUp    *)
(* has the case that the saved school was changed in between), and the     *)
(* course list it gets is any listing of courses of the school.            *)

Presented(s) ==
    [from : {"selector"}, school : {s}, schedule : {Nil}, ran : {FALSE}]
    \cup [from : {"cancel", "return"}, school : {s},
          schedule : {Nil} \cup SchedulesReturned(s), ran : {FALSE}]

Init ==
    /\ FreshScreen
    /\ \E s \in School :
         /\ handOff \in Presented(s)
         /\ newUserData = [school |-> SchoolWith(s, Nil), schedule |-> Nil]
    /\ top = "ChooseClasses"
    /\ crashed = FALSE

CourseListAnswers == UNION {Listings(S) : S \in SUBSET CoursesOf(handOff.school)}

Touch ==
    \/ \E i \in DOMAIN rows : didSelectRow(i) \/ Scroll(i)
    \/ searchBarTextDidBeginEditing \/ searchBarTextDidEndEditing \/ textDidChange
    \/ addClass \/ Continue

Answer ==
    \/ viewDidAppear
    \/ \E list \in CourseListAnswers : SelectorHandOff(list) \/ AddClassHandOff(list)
    \/ \E school \in asked : FacultyAnswer(school)

Next == Touch \/ Answer

Spec == Init /\ [][Next]_vars

(* The main queue runs what it holds, and Firestore answers the query of   *)
(* the hand-off (it is reachable and the documents are well formed).       *)
FairSpec ==
    /\ Spec
    /\ WF_vars(viewDidAppear)
    /\ WF_vars(\E list \in CourseListAnswers : SelectorHandOff(list) \/ AddClassHandOff(list))

-----------------------------------------------------------------------------
(* Properties *)

Selected(c) == currentUserSchedule # Nil /\ Contains(currentUserSchedule.courseLoad, c)

PlaceholderShown == \E i \in DOMAIN rows : rows[i].kind = "noSchool"

(* However taps, searches and hand-offs interleave, no two courses of the  *)
(* schedule meet in the same period (the purpose of                        *)
(* verifyNewCourseToSchedule, called in didSelectRowAt).                   *)
NoPeriodClash == currentUserSchedule # Nil => ClashFree(currentUserSchedule)

(* The app never compares the number of courses with maxCourseCount: the   *)
(* limit is kept because periods are distinct and lie in 1..max, as long   *)
(* as every selected course is of the school the schedule was made for.    *)
LoadBounded ==
    currentUserSchedule # Nil =>
        LET load == currentUserSchedule.courseLoad
        IN  (\A i \in DOMAIN load : schoolId[load[i]] = handOff.school)
                => Len(load) <= currentUserSchedule.maxCourseCount

(* A row that shows a course is checked exactly when the course is in the  *)
(* schedule, also when the row was made before a search, a tap or a        *)
(* refused course (cellForRowAt against didSelectRowAt).                   *)
CheckmarksTruthful ==
    \A i \in DOMAIN rows :
        rows[i].kind = "course" => (rows[i].check <=> Selected(rows[i].course))

(* What the user sees change is what changes: when a course enters or      *)
(* leaves the schedule, a row that shows this course flips its checkmark,  *)
(* unless the table shows the row "Please Select a School".                *)
TapTogglesShownCourse ==
    [][currentUserSchedule # Nil /\ ~PlaceholderShown =>
         \A c \in Course : Selected(c) # Selected(c)' =>
            \E i \in DOMAIN rows : /\ rows[i].course = c
                                   /\ rows'[i].check # rows[i].check]_vars

(* A screen that AddClass presented ends up with its placeholder row       *)
(* replaced, whatever the user does meanwhile.                             *)
ReturnedScreenFills ==
    (handOff.from \in {"cancel", "return"}) ~> (~Live \/ ~PlaceholderShown)

-----------------------------------------------------------------------------
(* The screen implements a timetable.                                      *)

Load == IF currentUserSchedule = Nil THEN <<>> ELSE currentUserSchedule.courseLoad

CourseAt(p) ==
    IF \E i \in DOMAIN Load : period[Load[i]] = p
    THEN Load[CHOOSE i \in DOMAIN Load : period[Load[i]] = p] ELSE Nil

AsTimetable ==
    INSTANCE Timetable WITH held  <- currentUserSchedule # Nil,
                            slot  <- [p \in {period[c] : c \in Course} |-> CourseAt(p)],
                            count <- Len(Load)

(* Through taps, searches and late hand-offs the list of courses behaves   *)
(* as a table with one slot per period: nothing but a tap changes it, by   *)
(* one course, and a course is added only to an empty slot.                *)
IsTimetable == AsTimetable!TableSpec

-----------------------------------------------------------------------------
(* What the repository says and the code does not do *)

(* "//Showing All Courses" (didSelectRowAt, 165): a tap answered from the  *)
(* course list is a tap on a row that shows that course.                   *)
ShowingAllCourses ==
    [][currentUserSchedule # Nil /\ showAllCourses =>
         \A c \in Course : Selected(c) # Selected(c)' =>
            \E i \in DOMAIN rows : rows[i].course = c]_vars

(* "//Showing Search Results" (didSelectRowAt, 209): while a search is on, *)
(* the rows that can be tapped are the search results.                     *)
ShowingSearchResults ==
    ~showAllCourses /\ courses # Nil /\ currentUserSchedule # Nil => rows = Table

(* "You have already selected a course for period ..." (didSelectRowAt,    *)
(* 203 and 247): a message that is set to say so is on the screen.         *)
AlreadySelectedShown == errors.text = "period taken" => ~errors.isHidden

(* "No Courses Selected" (Main.storyboard, 183, the label periods, and     *)
(* periodLabelTextGenerator, 344): the label says so only when the         *)
(* schedule on the screen is empty.                                        *)
NoCoursesSelectedTruthful ==
    currentUserSchedule # Nil /\ periods = NoCoursesSelected
        => currentUserSchedule.courseLoad = <<>>

(* "You're All SET!" (Main.storyboard, 309, FinalSetup): the schedule that *)
(* was on the screen has been saved (prepare, 358-360).                    *)
AllSet == top = "FinalSetup" => newUserData.schedule = currentUserSchedule
=============================================================================
