------------------------------ MODULE AddClass ------------------------------
(***************************************************************************)
(* The form on which a student creates a course, and if need be a teacher  *)
(* (AddClassViewController.swift), one instance of it.                     *)
(*                                                                         *)
(* The form keeps every choice twice: in a property (currentTeacher,       *)
(* currentPeriod) and in the dictionary classData, from which the course   *)
(* is made.  updateUserInfo copies only the choice of the wheel that is    *)
(* selected, so the dictionary is right only because every handler calls   *)
(* it before it switches wheels.                                           *)
(*                                                                         *)
(* Not kept: the room (a text field, its text always becomes an entry of   *)
(* classData and nothing reads it back), the first name of a new teacher,  *)
(* and addTeacherData, which endAddTeacher refreshes before it reads it.   *)
(***************************************************************************)
EXTENDS App

CONSTANTS Faculty,   \* ids of the faculty documents, existing or not yet created
          FacTitles  \* how many titles a teacher can have (FacTitle.count)

ASSUME AddClassAssumption == FacTitles \in Nat \ {0} /\ IsFiniteSet(Faculty)

ASSUME ChoiceAssumption == Nil \notin Faculty \cup BOOLEAN /\ Nil \notin Nat

VARIABLES
    school,               \* id and Staff of the school the form is for
    scheduleToReturn,
    ClassTitle,           \* has the title field any text?
    currentSelectorItem,  \* which wheel the picker is: "teacher" or "period"
    pickerHidden,
    wheel,                \* the row the picker stands on
    currentTeacher, currentTeacherRow, currentPeriod,
    classData,            \* the entries of the dictionary, Nil when absent
    overlay,              \* is the dialog TeacherView on the screen?
    fading,               \* animateOut has been called, its completion has not run
    formEnabled,          \* the fields and buttons of the form take touches
    reopened,             \* history: addTeacher was tapped during a fade
    teacherLast,          \* has the field for the last name any text?
    currentNewTeacherTitle, TeacherPickerRow,
    alert,                \* "none", "teacher refused", "class added"
    newCrs,               \* the course the alert's Ok action holds, or Nil
    courseDocs,           \* the course documents that exist in Firestore
    facultyDocs           \* the faculty documents, school by school

choiceVars == <<ClassTitle, currentSelectorItem, pickerHidden, wheel,
                currentTeacher, currentTeacherRow, currentPeriod, classData>>

dialogVars == <<overlay, fading, formEnabled, reopened, teacherLast,
                currentNewTeacherTitle, TeacherPickerRow>>

docVars == <<courseDocs, facultyDocs>>

formVars == <<school, scheduleToReturn, choiceVars, dialogVars, alert, newCrs>>

(* The entries of classData that can be present *)
ClassData == [displayName : {Nil} \cup BOOLEAN, teacher : {Nil} \cup Faculty,
              period : {Nil} \cup Nat, schoolId : {Nil} \cup School]

ChoiceTypeOK ==
    /\ ClassTitle \in BOOLEAN
    /\ currentSelectorItem \in {"teacher", "period"}
    /\ pickerHidden \in BOOLEAN
    /\ wheel \in Nat
    /\ currentTeacher \in {Nil} \cup Faculty
    /\ currentTeacherRow \in {Nil} \cup Nat
    /\ currentPeriod \in {Nil} \cup Nat
    /\ classData \in ClassData

DialogTypeOK ==
    /\ overlay \in BOOLEAN /\ fading \in BOOLEAN
    /\ formEnabled \in BOOLEAN /\ reopened \in BOOLEAN
    /\ teacherLast \in BOOLEAN
    /\ currentNewTeacherTitle \in {Nil} \cup Nat
    /\ TeacherPickerRow \in Nat

FormTypeOK ==
    /\ school \in [id : School, Staff : Seq(Faculty)]
    /\ scheduleToReturn \in {Nil} \cup Schedules
    /\ ChoiceTypeOK
    /\ DialogTypeOK
    /\ alert \in {"none", "teacher refused", "class added"}
    /\ newCrs \in {Nil} \cup Course
    /\ courseDocs \subseteq Course
    /\ facultyDocs \in [School -> SUBSET Faculty]

-----------------------------------------------------------------------------
(* The form as ChooseClassesViewController.prepare and viewDidLoad leave   *)
(* it: for school s with the given staff, carrying the schedule sched.     *)
FreshForm(s, staff, sched) ==
    /\ school = [id |-> s, Staff |-> staff]
    /\ scheduleToReturn = sched
    /\ ClassTitle = FALSE
    /\ currentSelectorItem = "teacher"
    /\ pickerHidden = TRUE
    /\ wheel = 1
    /\ currentTeacher = Nil /\ currentTeacherRow = Nil /\ currentPeriod = Nil
    /\ classData = [displayName |-> Nil, teacher |-> Nil, period |-> Nil, schoolId |-> Nil]
    /\ overlay = FALSE /\ fading = FALSE
    /\ formEnabled = TRUE /\ reopened = FALSE
    /\ teacherLast = FALSE
    /\ currentNewTeacherTitle = Nil /\ TeacherPickerRow = 1
    /\ alert = "none" /\ newCrs = Nil

OnForm == top = "AddClass" /\ ~crashed /\ alert = "none"

(* func updateUserInfo(), as the new value of classData *)
updateUserInfo ==
    [displayName |-> ClassTitle,
     teacher  |-> IF currentSelectorItem = "teacher" /\ currentTeacher # Nil
                  THEN currentTeacher ELSE classData.teacher,
     period   |-> IF currentSelectorItem = "period" /\ currentPeriod # Nil
                  THEN currentPeriod ELSE classData.period,
     schoolId |-> school.id]

-----------------------------------------------------------------------------
(* The fields and wheels of the form *)

(* TitleStart, Title, RoomNumStart and RoomNum: editing of a field begins  *)
(* or ends.  A field in which editing has begun is still edited, and left, *)
(* while the dialog or an alert is open.                                   *)
FieldEvent ==
    /\ top = "AddClass" /\ ~crashed
    /\ classData' = updateUserInfo
    /\ pickerHidden' = TRUE
    /\ UNCHANGED <<appVars, docVars, dialogVars, school, scheduleToReturn, alert, newCrs,
                   ClassTitle, currentSelectorItem, wheel, currentTeacher,
                   currentTeacherRow, currentPeriod>>

(* The user types into, or clears, the title field. *)
TypeTitle ==
    /\ OnForm
    /\ ClassTitle' = ~ClassTitle
    /\ UNCHANGED <<appVars, docVars, dialogVars, school, scheduleToReturn, alert, newCrs,
                   currentSelectorItem, pickerHidden, wheel, currentTeacher,
                   currentTeacherRow, currentPeriod, classData>>

(* The row the picker is turned to when a wheel is opened *)
OpenAt(row) == IF row = Nil THEN 1 ELSE row

(* @IBAction func Teacher *)
Teacher ==
    /\ OnForm /\ formEnabled
    /\ classData' = updateUserInfo
    /\ currentSelectorItem' = "teacher"
    /\ wheel' = OpenAt(currentTeacherRow)
    /\ pickerHidden' = FALSE
    /\ UNCHANGED <<appVars, docVars, dialogVars, school, scheduleToReturn, alert, newCrs,
                   ClassTitle, currentTeacher, currentTeacherRow, currentPeriod>>

(* Mutants: the wheel is switched before the choice is copied; the picker  *)
(* is turned to currentPeriod even when that is nil, or not at all.        *)
Period_switchFirst ==
    /\ OnForm /\ formEnabled
    /\ currentSelectorItem' = "period"
    /\ classData' = [updateUserInfo EXCEPT
                       !.teacher = classData.teacher,
                       !.period = IF currentPeriod = Nil THEN @ ELSE currentPeriod]
    /\ wheel' = OpenAt(currentPeriod)
    /\ pickerHidden' = FALSE
    /\ UNCHANGED <<appVars, docVars, dialogVars, school, scheduleToReturn, alert, newCrs,
                   ClassTitle, currentTeacher, currentTeacherRow, currentPeriod>>

Period_noDefault ==
    /\ OnForm /\ formEnabled
    /\ classData' = updateUserInfo
    /\ currentSelectorItem' = "period"
    /\ wheel' = currentPeriod
    /\ pickerHidden' = FALSE
    /\ UNCHANGED <<appVars, docVars, dialogVars, school, scheduleToReturn, alert, newCrs,
                   ClassTitle, currentTeacher, currentTeacherRow, currentPeriod>>

Period_noTurn ==
    /\ OnForm /\ formEnabled
    /\ classData' = updateUserInfo
    /\ currentSelectorItem' = "period"
    /\ pickerHidden' = FALSE
    /\ UNCHANGED <<appVars, docVars, dialogVars, school, scheduleToReturn, alert, newCrs,
                   wheel, ClassTitle, currentTeacher, currentTeacherRow, currentPeriod>>

(* @IBAction func Period *)
Period ==
    /\ OnForm /\ formEnabled
    /\ classData' = updateUserInfo
    /\ currentSelectorItem' = "period"
    /\ wheel' = OpenAt(currentPeriod)
    /\ pickerHidden' = FALSE
    /\ UNCHANGED <<appVars, docVars, dialogVars, school, scheduleToReturn, alert, newCrs,
                   ClassTitle, currentTeacher, currentTeacherRow, currentPeriod>>

(* numberOfRowsInComponent of the picker of the form *)
pickerRows == IF currentSelectorItem = "teacher" THEN Len(school.Staff)
              ELSE MaxStudentCourseLoad[school.id]

(* pickerView(_:didSelectRow:inComponent:) of the picker of the form *)
pickRow(row) ==
    /\ OnForm /\ ~pickerHidden /\ row \in 1 .. pickerRows
    /\ wheel' = row
    /\ \/ /\ currentSelectorItem = "teacher"
          /\ currentTeacher' = school.Staff[row]
          /\ currentTeacherRow' = row
          /\ UNCHANGED currentPeriod
       \/ /\ currentSelectorItem = "period"
          /\ currentPeriod' = row
          /\ UNCHANGED <<currentTeacher, currentTeacherRow>>
    /\ UNCHANGED <<appVars, docVars, dialogVars, school, scheduleToReturn, alert, newCrs,
                   ClassTitle, currentSelectorItem, pickerHidden, classData>>

-----------------------------------------------------------------------------
(* The dialog for a new teacher.  animateOut makes it transparent at once, *)
(* so that touches reach the button "Add a Teacher" under it again, and    *)
(* removes it from the screen 0.3 s later.  animateIn keeps touches off    *)
(* the dialog for 0.4 s, so a dialog that fades is not touched.            *)

OnDialog == OnForm /\ overlay /\ ~fading

(* @IBAction func addTeacher, with animateIn *)
addTeacher ==
    /\ OnForm /\ (overlay => fading)
    /\ overlay' = TRUE
    /\ reopened' = (reopened \/ fading)
    /\ formEnabled' = FALSE
    /\ pickerHidden' = TRUE
    /\ currentNewTeacherTitle' = 1
    /\ UNCHANGED <<appVars, docVars, school, scheduleToReturn, alert, newCrs, fading,
                   teacherLast, TeacherPickerRow, ClassTitle, currentSelectorItem, wheel,
                   currentTeacher, currentTeacherRow, currentPeriod, classData>>

(* The completion of animateOut. *)
FadeDone ==
    /\ top = "AddClass" /\ ~crashed /\ fading
    /\ overlay' = FALSE
    /\ fading' = FALSE
    /\ UNCHANGED <<appVars, docVars, school, scheduleToReturn, alert, newCrs, choiceVars,
                   formEnabled, reopened, teacherLast, currentNewTeacherTitle,
                   TeacherPickerRow>>

(* The user types into, or clears, the field for the last name. *)
TypeTeacherLast ==
    /\ OnDialog
    /\ teacherLast' = ~teacherLast
    /\ UNCHANGED <<appVars, docVars, school, scheduleToReturn, alert, newCrs, choiceVars,
                   overlay, fading, formEnabled, reopened, currentNewTeacherTitle,
                   TeacherPickerRow>>

(* pickerView(_:didSelectRow:inComponent:) of the picker of the dialog *)
pickTitle(row) ==
    /\ OnDialog
    /\ TeacherPickerRow' = row
    /\ currentNewTeacherTitle' = row
    /\ UNCHANGED <<appVars, docVars, school, scheduleToReturn, alert, newCrs, choiceVars,
                   overlay, fading, formEnabled, reopened, teacherLast>>

(* animateOut and the assignments that follow it in both handlers below *)
CloseDialog ==
    /\ fading' = TRUE
    /\ formEnabled' = TRUE
    /\ teacherLast' = FALSE
    /\ TeacherPickerRow' = 1
    /\ UNCHANGED <<overlay, reopened, currentNewTeacherTitle>>

verifyNewTeacher == teacherLast /\ currentNewTeacherTitle # Nil

(* Faculty.init(ref:data:) creates the document t. *)
NewFaculty(t) ==
    /\ t \notin facultyDocs[school.id] /\ ~Contains(school.Staff, t)
    /\ facultyDocs' = [facultyDocs EXCEPT ![school.id] = @ \cup {t}]

(* @IBAction func endAddTeacher: t is the teacher created. *)
endAddTeacher(t) ==
    /\ OnDialog
    /\ IF verifyNewTeacher
       THEN /\ NewFaculty(t)
            /\ school' = [school EXCEPT !.Staff = Append(@, t)]
            /\ CloseDialog
            /\ UNCHANGED alert
       ELSE /\ alert' = "teacher refused"
            /\ UNCHANGED <<facultyDocs, school, dialogVars>>
    /\ UNCHANGED <<appVars, courseDocs, scheduleToReturn, newCrs, choiceVars>>

(* Mutant: the form stays locked. *)
cancelAddTeacher_locked ==
    /\ OnDialog
    /\ fading' = TRUE
    /\ teacherLast' = FALSE
    /\ TeacherPickerRow' = 1
    /\ UNCHANGED <<overlay, reopened, formEnabled, currentNewTeacherTitle>>
    /\ UNCHANGED <<appVars, docVars, school, scheduleToReturn, alert, newCrs, choiceVars>>

(* @IBAction func cancelAddTeacher *)
cancelAddTeacher ==
    /\ OnDialog
    /\ CloseDialog
    /\ UNCHANGED <<appVars, docVars, school, scheduleToReturn, alert, newCrs, choiceVars>>

(* The button "Ok" of the alert of endAddTeacher. *)
OkRefused ==
    /\ top = "AddClass" /\ ~crashed /\ alert = "teacher refused"
    /\ alert' = "none"
    /\ UNCHANGED <<appVars, docVars, school, scheduleToReturn, newCrs, choiceVars, dialogVars>>

-----------------------------------------------------------------------------
(* Creating the course and leaving *)

verification == ClassTitle /\ currentTeacher # Nil /\ currentPeriod # Nil

(* Course.init(ref:data:) throws when a key it needs is missing. *)
Complete(data) == \A key \in DOMAIN data : data[key] # Nil

(* Otherwise it creates the document c. *)
NewCourse(c, data) ==
    /\ c \notin courseDocs
    /\ period[c] = data.period /\ schoolId[c] = data.schoolId
    /\ courseDocs' = courseDocs \cup {c}

(* @IBAction func AddClass: c is the course that is created.               *)
(* The alert says "Your Class Has Been Added" in any case, but has a       *)
(* button only when there is a course.                                     *)
AddClass(c) ==
    /\ OnForm /\ formEnabled
    /\ pickerHidden' = TRUE
    /\ classData' = updateUserInfo
    /\ IF verification
       THEN /\ alert' = "class added"
            /\ IF Complete(updateUserInfo)
               THEN NewCourse(c, updateUserInfo) /\ newCrs' = c
               ELSE UNCHANGED <<newCrs, courseDocs>>
       ELSE UNCHANGED <<alert, newCrs, courseDocs>>
    /\ UNCHANGED <<appVars, facultyDocs, dialogVars, school, scheduleToReturn, ClassTitle,
                   currentSelectorItem, wheel, currentTeacher, currentTeacherRow,
                   currentPeriod>>

(* Mutants: the course is appended without asking                          *)
(* verifyNewCourseToSchedule; it replaces the others.                      *)
WithNewCourse_replace(schedule, c) ==
    IF schedule = Nil THEN Nil ELSE [schedule EXCEPT !.courseLoad = <<c>>]

WithNewCourse_unchecked(schedule, c) ==
    IF schedule = Nil THEN Nil
    ELSE [schedule EXCEPT !.courseLoad = Append(@, c)]

(* scheduleToReturn after the button "Ok" of that alert *)
WithNewCourse(schedule, c) ==
    IF schedule # Nil /\ verifyNewCourseToSchedule(c, schedule)
    THEN [schedule EXCEPT !.courseLoad = Append(@, c)] ELSE schedule

(* That button: it presents a new ChooseClasses screen. *)
OkAdded ==
    /\ top = "AddClass" /\ ~crashed /\ alert = "class added" /\ newCrs # Nil
    /\ scheduleToReturn' = WithNewCourse(scheduleToReturn, newCrs)
    /\ alert' = "none"
    /\ top' = "ChooseClasses"
    /\ UNCHANGED <<newUserData, crashed, docVars, school, newCrs, choiceVars, dialogVars>>

(* The button "Cancel" of the form, which neither the dialog covers nor    *)
(* addTeacher disables: the segue cancelAddClass.                          *)
cancelAddClass ==
    /\ OnForm
    /\ top' = "ChooseClasses"
    /\ UNCHANGED <<newUserData, crashed, docVars, formVars>>

-----------------------------------------------------------------------------
(* One instance on its own, presented with any staff and with any schedule *)
(* ChooseClasses can hold; FormEnd stands for the app after it.            *)

FormInit ==
    /\ \E s \in School :
         \E staff \in UNION {Listings(F) : F \in SUBSET Faculty},
            sched \in {Nil} \cup SchedulesReturned(s) :
              /\ FreshForm(s, staff, sched)
              /\ newUserData = [school |-> SchoolWith(s, Nil), schedule |-> Nil]
              /\ facultyDocs = [x \in School |-> IF x = s THEN ToSet(staff) ELSE {}]
              /\ courseDocs = IF sched = Nil THEN {} ELSE ToSet(sched.courseLoad)
    /\ top = "AddClass"
    /\ crashed = FALSE

FormTouch ==
    \/ FieldEvent \/ TypeTitle \/ Teacher \/ Period
    \/ \E row \in 1 .. pickerRows : pickRow(row)
    \/ addTeacher \/ TypeTeacherLast \/ cancelAddTeacher \/ OkRefused
    \/ \E row \in 1 .. FacTitles : pickTitle(row)
    \/ \E t \in Faculty : endAddTeacher(t)
    \/ \E c \in Course : AddClass(c)

FormLeave == OkAdded \/ cancelAddClass

FormNext == FormTouch \/ FadeDone \/ FormLeave

FormSpec == FormInit /\ [][FormNext]_<<appVars, docVars, formVars>>

-----------------------------------------------------------------------------
(* Properties *)

(* A course that is reported as added was made from the choices the form   *)
(* shows, although classData is copied from them piece by piece: the       *)
(* dictionary is complete, so that the alert can be left, and no entry of  *)
(* it is older than the choice on the screen (updateUserInfo, AddClass).   *)
CreatedAsShown ==
    alert = "class added" =>
        /\ newCrs # Nil
        /\ classData.teacher = currentTeacher
        /\ period[newCrs] = currentPeriod
        /\ schoolId[newCrs] = school.id

(* The row remembered for the chosen teacher is still that teacher's, also *)
(* after teachers were added (Teacher turns the picker to this row).       *)
StaffRowStable ==
    currentTeacher # Nil => /\ currentTeacherRow \in DOMAIN school.Staff
                            /\ school.Staff[currentTeacherRow] = currentTeacher

(* An open wheel stands on the choice it edits, or on its first row when   *)
(* nothing is chosen yet.                                                  *)
WheelAgrees ==
    ~pickerHidden =>
        wheel = OpenAt(IF currentSelectorItem = "teacher" THEN currentTeacherRow
                       ELSE currentPeriod)

(* A dialog that is open creates the teacher with the title its picker     *)
(* shows: the picker is reset on every way out of the dialog, and the      *)
(* title on every way in.                                                  *)
TitleAsShown == overlay /\ ~fading => currentNewTeacherTitle = TeacherPickerRow

(* The form is locked only while the dialog is open, unless the dialog was *)
(* opened again while it faded: then the completion of animateOut removes  *)
(* the dialog that has just been opened.                                   *)
LockedOnlyByDialog == ~formEnabled => overlay \/ reopened

(* The wheels and the choices they edit never part, whatever order they    *)
(* are opened in and whatever the dialog adds to the list of teachers      *)
(* (Teacher, Period, endAddTeacher).                                       *)
WheelsAsChosen == StaffRowStable /\ WheelAgrees

(* The dialog that is shown again and again leaves nothing of its last use *)
(* behind: neither a title nor a locked form, but for the one opened in    *)
(* its own fade (animateIn, animateOut, the two ways out).                 *)
DialogTruthful == TitleAsShown /\ LockedOnlyByDialog

(* The schedule that is handed back has no period twice. *)
ReturnsClashFree == scheduleToReturn # Nil => ClashFree(scheduleToReturn)
=============================================================================
