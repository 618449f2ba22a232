--------------------------- MODULE SignUp_proofs ---------------------------
(***************************************************************************)
(* Theorems about the sign-up flow from the school to the schedule, for    *)
(* every set of schools, courses and teachers, any number of selections    *)
(* and any order of the callbacks.  The steps of ChooseClasses and of the  *)
(* form are taken from the proofs about these screens.                     *)
(***************************************************************************)
EXTENDS SignUp, Classes_proofs

(* The inductive invariant, first part: the types, the invariants of the   *)
(* two screens, and how far the student has come.  The segues back from    *)
(* the form read newUserData["school"], so a school must be saved by then. *)
ListInv ==
    /\ listOfSchools = <<>> => currentSelection = Nil
    /\ listAsked => listOfSchools = <<>>
    /\ top # "SchoolSelector" => currentSelection # Nil
    /\ currentSelection # Nil => newUserData.school # Nil

FlowInv ==
    /\ Inv /\ FormInv
    /\ SelectorTypeOK /\ outran \in BOOLEAN
    /\ ListInv

-----------------------------------------------------------------------------
(* What getSchoolList, getCourseList and getFaculty answer are lists. *)
LEMMA SchoolListType ==
    ASSUME NEW S \in SUBSET School
    PROVE  Listings(S) \subseteq Seq(School)
<1>1. Cardinality(S) \in Nat
  BY SchoolAssumption, FS_Subset, FS_CardinalityType
<1>2. [1 .. Cardinality(S) -> S] \subseteq Seq(School)
  BY <1>1, SeqDef
<1> QED BY <1>2 DEF Listings

LEMMA CourseListsType ==
    ASSUME NEW s \in School
    PROVE  CourseLists(s) \subseteq Seq(Course)
  BY ListingsType DEF CourseLists, CoursesOf

LEMMA CourseListsAnswer == CourseLists(handOff.school) \subseteq CourseListAnswers
  BY DEF CourseLists, CourseListAnswers

LEMMA StaffListsType ==
    ASSUME FormTypeOK, NEW s \in School
    PROVE  StaffLists(s) \subseteq Seq(Faculty)
  BY StaffType DEF FormTypeOK, StaffLists

(* A step that leaves the screen alone keeps its invariant. *)
LEMMA ScreenKept ==
    ASSUME Inv, AppTypeOK', UNCHANGED screenVars
    PROVE  Inv'
<1>1. ScreenTypeOK'
  BY DEF Inv, TypeOK, ScreenTypeOK, screenVars
<1> QED BY <1>1, SoundKept DEF TypeOK, screenVars

(* A new instance of ChooseClasses has it. *)
LEMMA NewScreenInv ==
    ASSUME AppTypeOK', NewScreen, handOff' \in HandOffs, handOff'.schedule # Nil =>
                                                           ClashFree(handOff'.schedule)
    PROVE  Inv'
<1>1. (FreshScreen /\ handOff \in HandOffs => ScreenTypeOK)'
  BY FreshScreenType, PTL
<1>2. FreshScreen'
  BY DEF NewScreen, FreshScreen
<1>3. ScreenTypeOK'
  BY <1>1, <1>2
<1> QED BY <1>3 DEF Inv, TypeOK, NewScreen, NoPeriodClash, HandOffSound, ScheduleSound

(* FreshFormInv, of the state after a step *)
LEMMA FreshFormInvNext ==
    (\A s \in School, staff \in Seq(Faculty), sched \in {Nil} \cup Schedules :
        /\ FreshForm(s, staff, sched)
        /\ sched # Nil => ClashFree(sched)
        /\ courseDocs \subseteq Course
        /\ facultyDocs \in [School -> SUBSET Faculty]
        => FormInv)'
  BY FreshFormInv, PTL

(* A new instance of the form has its invariant. *)
LEMMA NewFormInv ==
    ASSUME FormInv, UNCHANGED docVars,
           NEW STATE s, s \in School, NEW STATE staff, staff \in Seq(Faculty),
           NEW STATE sched, sched \in {Nil} \cup Schedules,
           sched # Nil => ClashFree(sched), NewForm(s, staff, sched)
    PROVE  FormInv'
<1>2. /\ courseDocs' \subseteq Course
      /\ facultyDocs' \in [School -> SUBSET Faculty]
  BY DEF FormInv, FormTypeOK, docVars
<1>3. classData' = [displayName |-> Nil, teacher |-> Nil, period |-> Nil, schoolId |-> Nil]
  BY DEF NewForm, FormInv, FormTypeOK, ChoiceTypeOK, ClassData
<1>4. \A x \in School, y \in Seq(Faculty), z \in {Nil} \cup Schedules :
         NewForm(x, y, z) => FreshForm(x, y, z)'
  BY <1>3 DEF NewForm, FreshForm
<1> QED BY <1>2, <1>4, FreshFormInvNext

-----------------------------------------------------------------------------
(* SchoolSelector *)

(* updateNewUser saves the school and counts its query. *)
LEMMA updateNewUserType ==
    ASSUME AppTypeOK, SelectorTypeOK, NEW STATE s, s \in School, updateNewUser(s)
    PROVE  /\ newUserData' \in [school : {Nil} \cup SchoolValues, schedule : {Nil} \cup Schedules]
           /\ newUserData'.school = SchoolWith(s, Nil)
           /\ requests' \in Nat
           /\ fetches' \subseteq [n : Nat, school : School]
<1>1. SchoolWith(s, Nil) \in SchoolValues
  BY DEF SchoolWith, SchoolValues
<1>2. /\ newUserData' = [newUserData EXCEPT !.school = SchoolWith(s, Nil)]
      /\ requests' = requests + 1
      /\ fetches' = fetches \cup {[n |-> requests + 1, school |-> s]}
  BY DEF updateNewUser
<1>3. newUserData \in [school : {Nil} \cup SchoolValues, schedule : {Nil} \cup Schedules]
  BY DEF AppTypeOK
<1>4. requests \in Nat /\ fetches \subseteq [n : Nat, school : School]
  BY DEF SelectorTypeOK
<1> HIDE DEF SchoolWith
<1>5. /\ newUserData' \in [school : {Nil} \cup SchoolValues, schedule : {Nil} \cup Schedules]
      /\ newUserData'.school = SchoolWith(s, Nil)
  BY <1>1, <1>2, <1>3
<1>6. [n |-> requests + 1, school |-> s] \in [n : Nat, school : School] /\ requests' \in Nat
  BY <1>2, <1>4
<1> QED BY <1>2, <1>4, <1>5, <1>6

(* A selection: the school of list[0], or of the row picked. *)
LEMMA SelectFlow ==
    ASSUME FlowInv, NEW STATE s, s \in School, updateNewUser(s), currentSelection' = s,
           listOfSchools' \in Seq(School), listOfSchools' # <<>>, listAsked' = FALSE,
           UNCHANGED <<top, crashed, errorShown, lastRun, strayed>>,
           UNCHANGED <<screenVars, formVars, docVars, outran>>
    PROVE  FlowInv'
<1>0. AppTypeOK /\ SelectorTypeOK
  BY DEF FlowInv, Inv, TypeOK
<1>1. /\ newUserData' \in [school : {Nil} \cup SchoolValues, schedule : {Nil} \cup Schedules]
      /\ newUserData'.school = SchoolWith(s, Nil)
      /\ requests' \in Nat
      /\ fetches' \subseteq [n : Nat, school : School]
  BY <1>0, updateNewUserType
<1>2. AppTypeOK' /\ SelectorTypeOK'
  BY <1>0, <1>1 DEF AppTypeOK, SelectorTypeOK
<1>3. Inv'
  BY <1>2, ScreenKept DEF FlowInv
<1>4. FormInv'
  BY FormKept DEF FlowInv
<1>5. SchoolWith(s, Nil) # Nil /\ s # Nil
  BY NilValueAssumption, NilAssumption DEF SchoolWith, SchoolValues
<1>6. ListInv'
  BY <1>1, <1>5 DEF ListInv
<1> QED BY <1>2, <1>3, <1>4, <1>6 DEF FlowInv

LEMMA OnSchoolSelectorFlow == FlowInv /\ OnSchoolSelector => FlowInv'
<1> SUFFICES ASSUME FlowInv, OnSchoolSelector PROVE FlowInv'
  OBVIOUS
<1>0. AppTypeOK /\ SelectorTypeOK /\ UNCHANGED <<screenVars, formVars, docVars, outran>>
  BY DEF FlowInv, Inv, TypeOK, OnSchoolSelector
<1>1. ASSUME NEW list \in UNION {Listings(S) : S \in SUBSET School}, SchoolListAnswer(list)
      PROVE  FlowInv'
  <2>1. list \in Seq(School)
    BY SchoolListType
  <2>2. /\ listAsked' = FALSE /\ listAsked /\ listOfSchools' = list
        /\ UNCHANGED <<top, errorShown, lastRun, strayed>>
    BY <1>1 DEF SchoolListAnswer
  <2>3. CASE list = <<>>
    <3>1. crashed' = TRUE /\ UNCHANGED <<newUserData, currentSelection, fetches, requests>>
      BY <1>1, <2>3 DEF SchoolListAnswer
    <3>2. AppTypeOK' /\ SelectorTypeOK'
      BY <1>0, <2>1, <2>2, <3>1 DEF AppTypeOK, SelectorTypeOK
    <3>3. ListInv'
      BY <2>2, <2>3, <3>1 DEF FlowInv, ListInv
    <3> QED BY <1>0, <3>2, <3>3, ScreenKept, FormKept DEF FlowInv
  <2>4. CASE list # <<>>
    <3>1. /\ currentSelection' = Head(list) /\ updateNewUser(Head(list))
          /\ UNCHANGED crashed
      BY <1>1, <2>4 DEF SchoolListAnswer
    <3>2. Head(list) \in School
      BY <2>1, <2>4, HeadTailProperties
    <3> QED BY <1>0, <2>1, <2>2, <2>4, <3>1, <3>2, SelectFlow
  <2> QED BY <2>3, <2>4
<1>2. ASSUME NEW row \in DOMAIN listOfSchools, pickSchool(row)
      PROVE  FlowInv'
  <2>1. listOfSchools \in Seq(School) /\ listOfSchools # <<>> /\ listOfSchools[row] \in School
    BY <1>0, LenProperties, ElementOfSeq DEF SelectorTypeOK
  <2>2. /\ currentSelection' = listOfSchools[row] /\ updateNewUser(listOfSchools[row])
        /\ UNCHANGED <<top, crashed, listOfSchools, listAsked, errorShown, lastRun, strayed>>
    BY <1>2 DEF pickSchool
  <2>3. listAsked' = FALSE
    BY <1>0, <2>1, <2>2 DEF FlowInv, ListInv, SelectorTypeOK
  <2> QED BY <1>0, <2>1, <2>2, <2>3, SelectFlow
<1>3. CASE SchoolListFailure \/ continueRefused
  <2>1. /\ UNCHANGED <<appVars, listOfSchools, currentSelection, fetches, requests>>
        /\ UNCHANGED <<lastRun, strayed>>
        /\ listAsked' \in BOOLEAN /\ errorShown' \in BOOLEAN /\ (listAsked' => listAsked)
    <3>1. CASE SchoolListFailure
      BY <1>0, <3>1 DEF SchoolListFailure, SelectorTypeOK
    <3>2. CASE continueRefused
      BY <1>0, <3>2 DEF continueRefused, SelectorTypeOK
    <3> QED BY <1>3, <3>1, <3>2
  <2>2. AppTypeOK' /\ SelectorTypeOK'
    BY <1>0, <2>1 DEF AppTypeOK, SelectorTypeOK, appVars
  <2>3. ListInv'
    BY <2>1 DEF FlowInv, ListInv, appVars
  <2> QED BY <1>0, <2>2, <2>3, ScreenKept, FormKept DEF FlowInv
<1> QED BY <1>1, <1>2, <1>3 DEF OnSchoolSelector

LEMMA SavedWithListFlow == FlowInv /\ SavedWithList => FlowInv'
<1> SUFFICES ASSUME FlowInv, SavedWithList PROVE FlowInv'
  OBVIOUS
<1>0. AppTypeOK /\ SelectorTypeOK /\ UNCHANGED <<screenVars, formVars, docVars, outran>>
  BY DEF FlowInv, Inv, TypeOK, SavedWithList
<1>1. PICK f \in fetches : \E list \in CourseLists(f.school) : CourseListAnswer(f, list)
  BY DEF SavedWithList
<1>2. PICK list \in CourseLists(f.school) : CourseListAnswer(f, list)
  BY <1>1
<1>3. f.school \in School /\ f.n \in Nat /\ list \in Seq(Course)
  <2>1. f \in [n : Nat, school : School]
    BY <1>0 DEF SelectorTypeOK
  <2> QED BY <2>1, CourseListsType
<1>4. SchoolWith(f.school, list) \in SchoolValues /\ SchoolWith(f.school, list) # Nil
  BY <1>3, NilValueAssumption DEF SchoolWith, SchoolValues
<1>5. /\ newUserData' = [newUserData EXCEPT !.school = SchoolWith(f.school, list)]
      /\ fetches' = fetches \ {f} /\ lastRun' = f.n
      /\ strayed' = (strayed \/ f.school # currentSelection)
      /\ UNCHANGED <<top, crashed, listOfSchools, currentSelection>>
      /\ UNCHANGED <<listAsked, errorShown, requests>>
  BY <1>2 DEF CourseListAnswer
<1> HIDE DEF SchoolWith
<1>6. /\ newUserData' \in [school : {Nil} \cup SchoolValues, schedule : {Nil} \cup Schedules]
      /\ newUserData'.school = SchoolWith(f.school, list)
  BY <1>0, <1>4, <1>5 DEF AppTypeOK
<1>7. strayed' \in BOOLEAN
  BY <1>5, Zenon
<1>8. AppTypeOK' /\ SelectorTypeOK'
  BY <1>0, <1>3, <1>5, <1>6, <1>7 DEF AppTypeOK, SelectorTypeOK
<1>9. ListInv'
  BY <1>4, <1>5, <1>6 DEF FlowInv, ListInv
<1> QED BY <1>0, <1>8, <1>9, ScreenKept, FormKept DEF FlowInv

-----------------------------------------------------------------------------
(* ChooseClasses, the form, and the segues between them *)

(* The steps of ChooseClasses leave what SchoolSelector has saved alone;   *)
(* one of them leaves the screen, for FinalSetup.                          *)
LEMMA ScreenSteps ==
    ASSUME OnChooseClasses
    PROVE  /\ newUserData' = newUserData /\ Live /\ UNCHANGED <<selectorVars, outran>>
           /\ UNCHANGED <<formVars, docVars>> /\ top' \in {"ChooseClasses", "FinalSetup"}
<1>0. UNCHANGED <<selectorVars, outran>> /\ UNCHANGED <<formVars, docVars>>
  BY DEF OnChooseClasses
<1>1. CASE \E i \in DOMAIN rows : didSelectRow(i) \/ Scroll(i)
  BY <1>0, <1>1 DEF didSelectRow, Scroll, Touchable, Live
<1>2. CASE \/ searchBarTextDidBeginEditing \/ searchBarTextDidEndEditing \/ textDidChange
           \/ addClass \/ viewDidAppear
  BY <1>0, <1>2 DEF searchBarTextDidBeginEditing, searchBarTextDidEndEditing, textDidChange,
                    addClass, viewDidAppear, Touchable, Live, appVars
<1>3. CASE Continue
  BY <1>0, <1>3 DEF Continue, prepare, Touchable, Live
<1>4. CASE \E list \in CourseLists(handOff.school) :
              SelectorHandOff(list) \/ AddClassHandOff(list)
  BY <1>0, <1>4 DEF SelectorHandOff, AddClassHandOff, Live, appVars
<1> QED BY <1>1, <1>2, <1>3, <1>4 DEF OnChooseClasses

LEMMA OnChooseClassesFlow == FlowInv /\ OnChooseClasses => FlowInv'
<1> SUFFICES ASSUME FlowInv, OnChooseClasses PROVE FlowInv'
  OBVIOUS
<1>1. Inv
  BY DEF FlowInv
<1>2. Inv'
  BY <1>1, didSelectRowInv, ScrollInv, searchBarInv, leaveInv, viewDidAppearInv,
     SelectorHandOffInv, AddClassHandOffInv, CourseListsAnswer DEF OnChooseClasses
<1>3. FormInv'
  BY ScreenSteps, FormKept DEF FlowInv
<1>4. ListInv' /\ SelectorTypeOK' /\ outran' \in BOOLEAN
  BY ScreenSteps DEF FlowInv, ListInv, SelectorTypeOK, selectorVars, Live
<1> QED BY <1>2, <1>3, <1>4 DEF FlowInv

(* The steps of the form, short of leaving it. *)
LEMMA FormSteps ==
    ASSUME OnAddClass
    PROVE  UNCHANGED <<appVars, selectorVars, screenVars, outran>> /\ top = "AddClass"
<1>1. UNCHANGED <<selectorVars, screenVars, outran>>
  BY DEF OnAddClass
<1>2. CASE \/ FieldEvent \/ TypeTitle \/ Teacher \/ Period
           \/ \E row \in 1 .. pickerRows : pickRow(row)
  BY <1>1, <1>2 DEF FieldEvent, TypeTitle, Teacher, Period, pickRow, OnForm
<1>3. CASE \/ addTeacher \/ TypeTeacherLast \/ cancelAddTeacher \/ OkRefused \/ FadeDone
           \/ \E row \in 1 .. FacTitles : pickTitle(row)
  BY <1>1, <1>3 DEF addTeacher, TypeTeacherLast, cancelAddTeacher, OkRefused, FadeDone,
                    pickTitle, OnDialog, OnForm
<1>4. CASE \/ \E t \in Faculty : endAddTeacher(t)
           \/ \E c \in Course : AddClass(c)
  BY <1>1, <1>4 DEF endAddTeacher, AddClass, OnDialog, OnForm
<1> QED BY <1>2, <1>3, <1>4 DEF OnAddClass, FormTouch

LEMMA OnAddClassFlow == FlowInv /\ OnAddClass => FlowInv'
<1> SUFFICES ASSUME FlowInv, OnAddClass PROVE FlowInv'
  OBVIOUS
<1>1. FormInv'
  BY FormNextInv DEF FlowInv, OnAddClass, FormNext
<1>2. AppTypeOK'
  BY FormSteps DEF FlowInv, Inv, TypeOK, AppTypeOK, appVars
<1>3. Inv'
  BY <1>2, FormSteps, ScreenKept DEF FlowInv
<1>4. ListInv' /\ SelectorTypeOK' /\ outran' \in BOOLEAN
  BY FormSteps DEF FlowInv, ListInv, SelectorTypeOK, selectorVars, appVars
<1> QED BY <1>1, <1>3, <1>4 DEF FlowInv

(* A course of another student does not reach a form that is open. *)
LEMMA OthersAddFlow ==
    ASSUME FlowInv, NEW c \in Course, OthersAdd(c)
    PROVE  FlowInv'
<1>1. /\ UNCHANGED <<appVars, selectorVars, screenVars>>
      /\ UNCHANGED <<formVars, facultyDocs, outran>>
      /\ courseDocs' = courseDocs \cup {c}
  BY DEF OthersAdd
<1>2. /\ UNCHANGED <<school, scheduleToReturn, choiceVars>>
      /\ UNCHANGED <<dialogVars, alert, newCrs>>
  BY <1>1 DEF formVars
<1>3. ChoiceTypeOK' /\ DialogTypeOK'
  BY <1>2 DEF FlowInv, FormInv, FormTypeOK, ChoiceTypeOK, DialogTypeOK, choiceVars, dialogVars
<1>4. FormTypeOK'
  BY <1>1, <1>2, <1>3 DEF FlowInv, FormInv, FormTypeOK
<1>5. FormInv'
  BY <1>2, <1>4, ChoiceKept, DialogKept DEF FlowInv, FormInv, ReturnsClashFree
<1>6. Inv'
  <2>1. AppTypeOK'
    BY <1>1 DEF FlowInv, Inv, TypeOK, AppTypeOK, appVars
  <2> QED BY <1>1, <2>1, ScreenKept DEF FlowInv
<1>7. ListInv' /\ SelectorTypeOK' /\ outran' \in BOOLEAN
  BY <1>1 DEF FlowInv, ListInv, SelectorTypeOK, selectorVars, appVars
<1> QED BY <1>5, <1>6, <1>7 DEF FlowInv

LEMMA SelectorToChooseClassesFlow == FlowInv /\ SelectorToChooseClasses => FlowInv'
<1> SUFFICES ASSUME FlowInv, SelectorToChooseClasses PROVE FlowInv'
  OBVIOUS
<1>1. /\ UNCHANGED <<newUserData, crashed, selectorVars>> /\ top' = "ChooseClasses"
      /\ currentSelection # Nil /\ NewScreen
      /\ handOff' = [from |-> "selector", school |-> currentSelection, schedule |-> Nil,
                     ran |-> FALSE]
      /\ UNCHANGED <<formVars, docVars, outran>>
  BY DEF SelectorToChooseClasses, continueAction, Present
<1>2. AppTypeOK'
  BY <1>1 DEF FlowInv, Inv, TypeOK, AppTypeOK, Screens
<1>3. currentSelection \in School
  BY <1>1 DEF FlowInv, SelectorTypeOK
<1>4. handOff' \in HandOffs /\ handOff'.schedule = Nil
  BY <1>1, <1>3 DEF HandOffs
<1>5. Inv'
  BY <1>1, <1>2, <1>4, NewScreenInv
<1>6. FormInv'
  BY <1>1, FormKept DEF FlowInv
<1>7. ListInv' /\ SelectorTypeOK' /\ outran' \in BOOLEAN
  BY <1>1 DEF FlowInv, ListInv, SelectorTypeOK, selectorVars
<1> QED BY <1>5, <1>6, <1>7 DEF FlowInv

LEMMA ChooseClassesToAddClassFlow == FlowInv /\ ChooseClassesToAddClass => FlowInv'
<1> SUFFICES ASSUME FlowInv, ChooseClassesToAddClass PROVE FlowInv'
  OBVIOUS
<1>1. PICK saved \in asked :
        /\ FacultyAnswer(saved)
        /\ \E staff \in StaffLists(saved.id) : NewForm(saved.id, staff, currentUserSchedule)
  BY DEF ChooseClassesToAddClass
<1>2. PICK staff \in StaffLists(saved.id) : NewForm(saved.id, staff, currentUserSchedule)
  BY <1>1
<1>3. UNCHANGED <<selectorVars, docVars>> /\ outran' = (outran \/ currentUserSchedule = Nil)
  BY DEF ChooseClassesToAddClass
<1>4. Inv'
  BY <1>1, leaveInv DEF FlowInv
<1>5. /\ saved.id \in School /\ currentUserSchedule \in {Nil} \cup Schedules
      /\ currentUserSchedule # Nil => ClashFree(currentUserSchedule)
  <2>1. saved \in SchoolValues
    BY DEF FlowInv, Inv, TypeOK, ScreenTypeOK
  <2> QED BY <2>1 DEF FlowInv, Inv, TypeOK, ScreenTypeOK, NoPeriodClash, SchoolValues
<1>6. staff \in Seq(Faculty)
  BY <1>5, StaffListsType DEF FlowInv, FormInv
<1>7. FormInv'
  BY <1>2, <1>3, <1>5, <1>6, NewFormInv DEF FlowInv
<1>8. outran' \in BOOLEAN
  BY <1>3, Zenon
<1>9. newUserData' = newUserData /\ top = "ChooseClasses"
  BY <1>1 DEF FacultyAnswer, Touchable, Live
<1>10. ListInv' /\ SelectorTypeOK'
  BY <1>3, <1>9 DEF FlowInv, ListInv, SelectorTypeOK, selectorVars
<1> QED BY <1>4, <1>7, <1>8, <1>10 DEF FlowInv

LEMMA AddClassToChooseClassesFlow == FlowInv /\ AddClassToChooseClasses => FlowInv'
<1> SUFFICES ASSUME FlowInv, AddClassToChooseClasses PROVE FlowInv'
  OBVIOUS
<1>1. /\ OkAdded \/ cancelAddClass
      /\ NewScreen /\ UNCHANGED <<selectorVars, outran>>
  BY DEF AddClassToChooseClasses
<1>2. FormInv'
  BY <1>1, FormLeaveInv DEF FlowInv, FormLeave
<1>3. top = "AddClass" /\ top' = "ChooseClasses" /\ UNCHANGED <<newUserData, crashed>>
  BY <1>1 DEF OkAdded, cancelAddClass, OnForm
<1>4. AppTypeOK'
  BY <1>3 DEF FlowInv, Inv, TypeOK, AppTypeOK, Screens
<1>5. newUserData.school.id \in School
  <2>1. newUserData.school \in SchoolValues
    BY <1>3 DEF FlowInv, ListInv, Inv, TypeOK, AppTypeOK
  <2> QED BY <2>1 DEF SchoolValues
<1>6. \E from \in {"return", "cancel"} :
         handOff' = [from |-> from, school |-> newUserData.school.id,
                     schedule |-> scheduleToReturn', ran |-> FALSE]
  BY DEF AddClassToChooseClasses, Present, cancelAddClass, formVars
<1>7. /\ scheduleToReturn' \in {Nil} \cup Schedules
      /\ scheduleToReturn' # Nil => ClashFree(scheduleToReturn')
  BY <1>2 DEF FormInv, FormTypeOK, ReturnsClashFree
<1>8. handOff' \in HandOffs /\ handOff'.schedule = scheduleToReturn'
  BY <1>5, <1>6, <1>7 DEF HandOffs
<1>9. Inv'
  BY <1>1, <1>4, <1>7, <1>8, NewScreenInv
<1>10. ListInv' /\ SelectorTypeOK' /\ outran' \in BOOLEAN
  BY <1>1, <1>3 DEF FlowInv, ListInv, SelectorTypeOK, selectorVars
<1> QED BY <1>2, <1>9, <1>10 DEF FlowInv

-----------------------------------------------------------------------------
(* The whole flow *)

LEMMA FlowInit == SignUpInit => FlowInv
<1> SUFFICES ASSUME SignUpInit PROVE FlowInv
  OBVIOUS
<1> DEFINE any == CHOOSE s \in School : TRUE
<1>1. any \in School
  BY SignUpAssumption
<1> HIDE DEF any
<1>2. /\ newUserData = [school |-> Nil, schedule |-> Nil]
      /\ top = "SchoolSelector" /\ crashed = FALSE
      /\ FreshSelector /\ FreshScreen /\ outran = FALSE
  BY DEF SignUpInit
<1>3. /\ handOff = [from |-> "selector", school |-> any, schedule |-> Nil, ran |-> TRUE]
      /\ FreshForm(any, <<>>, Nil)
      /\ courseDocs \subseteq Course /\ facultyDocs \in [School -> SUBSET Faculty]
  BY DEF SignUpInit, any
<1>4. AppTypeOK
  BY <1>2 DEF AppTypeOK, Screens
<1>5. handOff \in HandOffs
  BY <1>1, <1>3 DEF HandOffs
<1>6. Inv
  BY <1>2, <1>3, <1>4, <1>5, FreshScreenType
     DEF Inv, TypeOK, NoPeriodClash, HandOffSound, ScheduleSound, FreshScreen
<1>7. FormInv
  BY <1>1, <1>3, FreshFormInv, EmptySeq
<1>8. SelectorTypeOK
  BY <1>2, EmptySeq DEF FreshSelector, SelectorTypeOK
<1>9. ListInv
  BY <1>2 DEF FreshSelector, ListInv
<1> QED BY <1>2, <1>6, <1>7, <1>8, <1>9 DEF FlowInv

LEMMA FlowKept == FlowInv /\ UNCHANGED signUpVars => FlowInv'
<1> SUFFICES ASSUME FlowInv, UNCHANGED signUpVars PROVE FlowInv'
  OBVIOUS
<1>1. UNCHANGED <<appVars, selectorVars, screenVars>> /\ UNCHANGED <<formVars, docVars, outran>>
  BY DEF signUpVars
<1>2. AppTypeOK'
  BY <1>1 DEF FlowInv, Inv, TypeOK, AppTypeOK, appVars
<1>3. ListInv' /\ SelectorTypeOK' /\ outran' \in BOOLEAN
  BY <1>1 DEF FlowInv, ListInv, SelectorTypeOK, selectorVars, appVars
<1> QED BY <1>1, <1>2, <1>3, ScreenKept, FormKept DEF FlowInv

LEMMA FlowNext == FlowInv /\ [SignUpNext]_signUpVars => FlowInv'
  BY OnSchoolSelectorFlow, SavedWithListFlow, OnChooseClassesFlow, OnAddClassFlow,
     SelectorToChooseClassesFlow, ChooseClassesToAddClassFlow, AddClassToChooseClassesFlow,
     OthersAddFlow, FlowKept DEF SignUpNext

LEMMA FlowInvariant == SignUpSpec => []FlowInv
  BY FlowInit, FlowNext, PTL DEF SignUpSpec

(* Every variable of the composed flow keeps its type, through segues and  *)
(* hand-offs and the late callbacks of updateNewUser.                      *)
THEOREM SignUpTypeCorrect == SignUpSpec => []SignUpTypeOK
<1>1. FlowInv => SignUpTypeOK
  BY DEF FlowInv, SignUpTypeOK, Inv, TypeOK, FormInv
<1> QED BY <1>1, FlowInvariant, PTL

(* The schedule has no period twice wherever it is held: in the hand-off,  *)
(* on ChooseClasses or in the form (verifyNewCourseToSchedule, called by   *)
(* didSelectRowAt and by the alert of AddClass).                           *)
THEOREM HeldClashFreeHolds == SignUpSpec => []HeldClashFree
<1>1. FlowInv => HeldClashFree
  BY DEF FlowInv, Inv, FormInv, HeldClashFree, Held, NoPeriodClash, HandOffSound,
         ReturnsClashFree
<1> QED BY <1>1, FlowInvariant, PTL

(* No screen is reached without a list of schools (continueAction refuses  *)
(* without a selection, and only the list and its rows make one).          *)
THEOREM NoListNoWayHolds == SignUpSpec => []NoListNoWay
<1>1. FlowInv => NoListNoWay
  BY DEF FlowInv, ListInv, NoListNoWay
<1> QED BY <1>1, FlowInvariant, PTL

-----------------------------------------------------------------------------
(* The second part: the queries of updateNewUser are numbered, and the one *)
(* with the last number is that of the current selection.  Its callback    *)
(* need not run last; SavedIsSelected holds when it does.                  *)
QueriesInv ==
    /\ lastRun <= requests
    /\ \A f \in fetches : /\ f.n <= requests
                          /\ f.n = requests => f.school = currentSelection

(* Only the selector and the callbacks of updateNewUser change what these  *)
(* properties are about.                                                   *)
LEMMA SelectorAlone ==
    ASSUME [SignUpNext]_signUpVars
    PROVE  \/ OnSchoolSelector \/ SavedWithList
           \/ UNCHANGED <<selectorVars, newUserData>>
<1>1. CASE OnChooseClasses
  BY <1>1, ScreenSteps
<1>2. CASE OnAddClass
  BY <1>2, FormSteps DEF appVars
<1>3. CASE SelectorToChooseClasses
  BY <1>3 DEF SelectorToChooseClasses, continueAction
<1>4. CASE ChooseClassesToAddClass
  BY <1>4 DEF ChooseClassesToAddClass, FacultyAnswer
<1>5. CASE AddClassToChooseClasses
  BY <1>5 DEF AddClassToChooseClasses, OkAdded, cancelAddClass
<1>6. CASE \E c \in Course : OthersAdd(c)
  BY <1>6 DEF OthersAdd, appVars
<1>7. CASE UNCHANGED signUpVars
  BY <1>7 DEF signUpVars, appVars
<1> QED BY <1>1, <1>2, <1>3, <1>4, <1>5, <1>6, <1>7 DEF SignUpNext

(* A step of the selector makes a selection, or changes neither what is    *)
(* selected nor what is saved.                                             *)
LEMMA SelectorSteps ==
    ASSUME FlowInv, OnSchoolSelector
    PROVE  /\ UNCHANGED <<lastRun, strayed>> /\ top = "SchoolSelector" /\ top' = top
           /\ UNCHANGED <<screenVars, formVars, docVars, outran>>
           /\ \/ UNCHANGED <<newUserData, currentSelection, fetches, requests>>
              \/ \E s \in School : updateNewUser(s) /\ currentSelection' = s
<1>0. SelectorTypeOK /\ UNCHANGED <<screenVars, formVars, docVars, outran>>
  BY DEF FlowInv, OnSchoolSelector
<1>1. ASSUME NEW list \in UNION {Listings(S) : S \in SUBSET School}, SchoolListAnswer(list)
      PROVE  /\ UNCHANGED <<lastRun, strayed>> /\ top = "SchoolSelector" /\ top' = top
             /\ \/ UNCHANGED <<newUserData, currentSelection, fetches, requests>>
                \/ \E s \in School : updateNewUser(s) /\ currentSelection' = s
  <2>1. list \in Seq(School)
    BY SchoolListType
  <2>2. list # <<>> => Head(list) \in School
    BY <2>1, HeadTailProperties
  <2> QED BY <1>1, <2>2 DEF SchoolListAnswer, OnSelector
<1>2. ASSUME NEW row \in DOMAIN listOfSchools, pickSchool(row)
      PROVE  /\ UNCHANGED <<lastRun, strayed>> /\ top = "SchoolSelector" /\ top' = top
             /\ \E s \in School : updateNewUser(s) /\ currentSelection' = s
  <2>1. listOfSchools[row] \in School
    BY <1>0, LenProperties, ElementOfSeq DEF SelectorTypeOK
  <2> QED BY <1>2, <2>1 DEF pickSchool, OnSelector
<1>3. CASE SchoolListFailure
  BY <1>0, <1>3 DEF SchoolListFailure, OnSelector, appVars
<1>4. CASE continueRefused
  BY <1>0, <1>4 DEF continueRefused, OnSelector, appVars
<1> QED BY <1>0, <1>1, <1>2, <1>3, <1>4 DEF OnSchoolSelector

(* The callback of one of the queries *)
LEMMA SavedSteps ==
    ASSUME FlowInv, SavedWithList
    PROVE  \E f \in fetches :
              /\ f.n \in Nat /\ f.school \in School
              /\ newUserData'.school # Nil /\ newUserData'.school.id = f.school
              /\ fetches' = fetches \ {f} /\ lastRun' = f.n
              /\ strayed' = (strayed \/ f.school # currentSelection)
              /\ UNCHANGED <<top, currentSelection, requests>>
              /\ UNCHANGED <<screenVars, formVars, docVars, outran>>
<1>1. PICK f \in fetches : \E list \in CourseLists(f.school) : CourseListAnswer(f, list)
  BY DEF SavedWithList
<1>2. PICK list \in CourseLists(f.school) : CourseListAnswer(f, list)
  BY <1>1
<1>3. f.school \in School /\ f.n \in Nat /\ list \in Seq(Course)
  <2>1. f \in [n : Nat, school : School]
    BY DEF FlowInv, SelectorTypeOK
  <2> QED BY <2>1, CourseListsType
<1>4. SchoolWith(f.school, list) # Nil /\ SchoolWith(f.school, list).id = f.school
  BY <1>3, NilValueAssumption DEF SchoolWith, SchoolValues
<1>5. newUserData' = [newUserData EXCEPT !.school = SchoolWith(f.school, list)]
  BY <1>2 DEF CourseListAnswer
<1> HIDE DEF SchoolWith
<1>6. newUserData'.school = SchoolWith(f.school, list)
  BY <1>5 DEF FlowInv, Inv, TypeOK, AppTypeOK
<1> QED BY <1>2, <1>3, <1>4, <1>6 DEF CourseListAnswer, SavedWithList

LEMMA QueriesInit == SignUpInit => QueriesInv /\ SavedIsSelected
  BY DEF SignUpInit, FreshSelector, QueriesInv, SavedIsSelected

LEMMA QueriesNext ==
    FlowInv /\ QueriesInv /\ SavedIsSelected /\ [SignUpNext]_signUpVars
        => QueriesInv' /\ SavedIsSelected'
<1> SUFFICES ASSUME FlowInv, QueriesInv, SavedIsSelected, [SignUpNext]_signUpVars
             PROVE  QueriesInv' /\ SavedIsSelected'
  OBVIOUS
<1>0. /\ requests \in Nat /\ lastRun \in Nat /\ fetches \subseteq [n : Nat, school : School]
      /\ AppTypeOK /\ SelectorTypeOK
  BY DEF FlowInv, SelectorTypeOK, Inv, TypeOK
<1>1. CASE OnSchoolSelector
  <2>1. CASE UNCHANGED <<newUserData, currentSelection, fetches, requests>>
    BY <1>1, <2>1, SelectorSteps DEF QueriesInv, SavedIsSelected
  <2>2. ASSUME NEW STATE s, s \in School, updateNewUser(s), currentSelection' = s
        PROVE  QueriesInv' /\ SavedIsSelected'
    <3>1. /\ requests' = requests + 1 /\ lastRun' = lastRun
          /\ fetches' = fetches \cup {[n |-> requests + 1, school |-> s]}
      BY <1>1, <2>2, SelectorSteps DEF updateNewUser
    <3>2. QueriesInv'
      BY <1>0, <2>2, <3>1 DEF QueriesInv
    <3>3. lastRun' # requests'
      BY <1>0, <3>1 DEF QueriesInv
    <3> QED BY <3>2, <3>3 DEF SavedIsSelected
  <2> QED BY <1>1, <2>1, <2>2, SelectorSteps
<1>2. CASE SavedWithList
  <2>1. PICK f \in fetches :
              /\ f.n \in Nat /\ newUserData'.school.id = f.school
              /\ fetches' = fetches \ {f} /\ lastRun' = f.n
              /\ UNCHANGED <<currentSelection, requests>>
    BY <1>2, SavedSteps
  <2> QED BY <1>0, <2>1 DEF QueriesInv, SavedIsSelected
<1>3. CASE UNCHANGED <<selectorVars, newUserData>>
  BY <1>3 DEF QueriesInv, SavedIsSelected, selectorVars
<1> QED BY <1>1, <1>2, <1>3, SelectorAlone

(* The saved school is the selected one whenever the callback of the last  *)
(* selection was the last to run, whatever order the others ran in         *)
(* (updateNewUser captures the school of its call).                        *)
THEOREM SavedIsSelectedHolds == SignUpSpec => []SavedIsSelected
  BY FlowInvariant, QueriesInit, QueriesNext, PTL DEF SignUpSpec

-----------------------------------------------------------------------------
(* The third part: what belongs to which school.  Everything the screens   *)
(* carry along after the selection belongs to the selected school, unless  *)
(* a late callback has saved another one.                                  *)
OfSchool(list, s) == \A i \in DOMAIN list : schoolId[list[i]] = s

ScheduleOfSchool(sched, s) == sched # Nil => OfSchool(sched.courseLoad, s)

SavedOfSelected ==
    ~strayed /\ currentSelection # Nil => newUserData.school.id = currentSelection

ScreenOfSelected ==
    ~strayed /\ top # "SchoolSelector" =>
        /\ handOff.school = currentSelection
        /\ \A saved \in asked : saved.id = currentSelection
        /\ ScheduleOfSchool(handOff.schedule, currentSelection)
        /\ ScheduleOfSchool(currentUserSchedule, currentSelection)

ListsOfSelected ==
    ~strayed /\ top = "ChooseClasses" =>
        /\ courses # Nil => OfSchool(courses, currentSelection)
        /\ OfSchool(searchResults, currentSelection)

FormOfSelected ==
    ~strayed /\ top = "AddClass" =>
        /\ school.id = currentSelection
        /\ ScheduleOfSchool(scheduleToReturn, currentSelection)
        /\ newCrs # Nil => schoolId[newCrs] = currentSelection

SchoolInv == SavedOfSelected /\ ScreenOfSelected /\ ListsOfSelected /\ FormOfSelected

(* What keeps the courses of a list in one school *)
LEMMA OfSchoolEmpty == \A s : OfSchool(<<>>, s)
  BY DEF OfSchool

LEMMA OfSchoolAppend ==
    ASSUME NEW load \in Seq(Course), NEW s, OfSchool(load, s),
           NEW c \in Course, schoolId[c] = s
    PROVE  OfSchool(Append(load, c), s)
<1>1. /\ Append(load, c) \in Seq(Course) /\ Len(Append(load, c)) = Len(load) + 1
      /\ \A i \in 1 .. Len(load) : Append(load, c)[i] = load[i]
      /\ Append(load, c)[Len(load) + 1] = c
  BY AppendProperties
<1>2. /\ DOMAIN load = 1 .. Len(load) /\ Len(load) \in Nat
      /\ DOMAIN Append(load, c) = 1 .. Len(load) + 1
  BY <1>1, LenProperties
<1> QED BY <1>1, <1>2 DEF OfSchool

LEMMA OfSchoolRemove ==
    ASSUME NEW load \in Seq(Course), NEW s, OfSchool(load, s), NEW k \in 1 .. Len(load)
    PROVE  OfSchool(RemoveAt(load, k), s)
<1> DEFINE new == RemoveAt(load, k)
<1>1. /\ new \in Seq(Course) /\ Len(new) = Len(load) - 1
      /\ \A i \in 1 .. Len(load) - 1 : new[i] = IF i < k THEN load[i] ELSE load[i + 1]
  BY RemoveAtProperties
<1> HIDE DEF new
<1>2. DOMAIN load = 1 .. Len(load) /\ Len(load) \in Nat /\ DOMAIN new = 1 .. Len(load) - 1
  BY <1>1, LenProperties
<1>3. \A i \in DOMAIN new : \E j \in DOMAIN load : new[i] = load[j]
  <2> TAKE i \in DOMAIN new
  <2>1. i \in DOMAIN load /\ i + 1 \in DOMAIN load /\ i \in 1 .. Len(load) - 1
    BY <1>2
  <2> QED BY <1>1, <2>1
<1>4. OfSchool(new, s)
  BY <1>3 DEF OfSchool
<1> QED BY <1>4 DEF new

LEMMA OfSchoolSublist ==
    ASSUME NEW list \in Seq(Course), NEW s, OfSchool(list, s), NEW q \in Sublists(list)
    PROVE  OfSchool(q, s)
<1>1. PICK n \in 0 .. Len(list) : \E f \in Increasing(n, Len(list)) :
                                     q = [k \in 1 .. n |-> list[f[k]]]
  BY DEF Sublists
<1>2. PICK f \in Increasing(n, Len(list)) : q = [k \in 1 .. n |-> list[f[k]]]
  BY <1>1
<1>3. \A k \in 1 .. n : f[k] \in DOMAIN list
  BY LenProperties DEF Increasing
<1> QED BY <1>2, <1>3 DEF OfSchool

LEMMA OfSchoolListing ==
    ASSUME NEW s \in School, NEW list \in CourseLists(s)
    PROVE  OfSchool(list, s)
<1>1. list \in [1 .. Cardinality(courseDocs \cap CoursesOf(s)) -> courseDocs \cap CoursesOf(s)]
  BY DEF CourseLists, Listings
<1> QED BY <1>1 DEF OfSchool, CoursesOf

(* A tap on a row of a course of the school *)
LEMMA TappedOfSchool ==
    ASSUME NEW sched \in Schedules, NEW s, OfSchool(sched.courseLoad, s),
           NEW c \in Course, schoolId[c] = s
    PROVE  OfSchool(Tapped(sched, c).courseLoad, s)
<1>0. sched.courseLoad \in Seq(Course)
  BY DEF Schedules
<1>1. CASE Contains(sched.courseLoad, c)
  <2>1. FirstIndex(sched.courseLoad, c) \in 1 .. Len(sched.courseLoad)
    BY <1>0, <1>1, FirstIndexProperties
  <2>2. Tapped(sched, c).courseLoad =
           RemoveAt(sched.courseLoad, FirstIndex(sched.courseLoad, c))
    BY <1>1 DEF Tapped, Schedules
  <2> QED BY <1>0, <2>1, <2>2, OfSchoolRemove
<1>2. CASE ~Contains(sched.courseLoad, c) /\ verifyNewCourseToSchedule(c, sched)
  <2>1. Tapped(sched, c).courseLoad = Append(sched.courseLoad, c)
    BY <1>2 DEF Tapped, Schedules
  <2> QED BY <1>0, <2>1, OfSchoolAppend
<1>3. CASE ~Contains(sched.courseLoad, c) /\ ~verifyNewCourseToSchedule(c, sched)
  BY <1>3 DEF Tapped
<1> QED BY <1>1, <1>2, <1>3

(* The new course joining the schedule of the form *)
LEMMA WithNewCourseOfSchool ==
    ASSUME NEW sched \in {Nil} \cup Schedules, NEW s, ScheduleOfSchool(sched, s),
           NEW c \in Course, schoolId[c] = s
    PROVE  ScheduleOfSchool(WithNewCourse(sched, c), s)
<1>1. CASE sched # Nil /\ verifyNewCourseToSchedule(c, sched)
  <2>1. sched.courseLoad \in Seq(Course)
    BY <1>1 DEF Schedules
  <2>2. WithNewCourse(sched, c).courseLoad = Append(sched.courseLoad, c)
    BY <1>1 DEF WithNewCourse, Schedules
  <2> QED BY <1>1, <2>1, <2>2, OfSchoolAppend DEF ScheduleOfSchool
<1>2. CASE ~(sched # Nil /\ verifyNewCourseToSchedule(c, sched))
  BY <1>2 DEF WithNewCourse
<1> QED BY <1>1, <1>2

-----------------------------------------------------------------------------
(* The steps, one by one *)

LEMMA SchoolInit == SignUpInit => SchoolInv
  BY DEF SignUpInit, FreshSelector, SchoolInv, SavedOfSelected, ScreenOfSelected,
         ListsOfSelected, FormOfSelected

LEMMA OnSchoolSelectorSchool ==
    ASSUME FlowInv, SchoolInv, OnSchoolSelector
    PROVE  SchoolInv'
<1>1. top' = "SchoolSelector"
  BY SelectorSteps
<1>2. SavedOfSelected'
  <2>1. CASE UNCHANGED <<newUserData, currentSelection, fetches, requests>>
    BY <2>1, SelectorSteps DEF SchoolInv, SavedOfSelected
  <2>2. ASSUME NEW STATE s, s \in School, updateNewUser(s), currentSelection' = s
        PROVE  SavedOfSelected'
    <3>1. newUserData'.school = SchoolWith(s, Nil)
      BY <2>2, updateNewUserType DEF FlowInv, Inv, TypeOK
    <3> QED BY <2>2, <3>1 DEF SavedOfSelected, SchoolWith
  <2> QED BY <2>1, <2>2, SelectorSteps
<1> QED BY <1>1, <1>2 DEF SchoolInv, ScreenOfSelected, ListsOfSelected, FormOfSelected

LEMMA SavedWithListSchool ==
    ASSUME FlowInv, SchoolInv, SavedWithList
    PROVE  SchoolInv'
<1>1. PICK f \in fetches :
              /\ newUserData'.school.id = f.school
              /\ strayed' = (strayed \/ f.school # currentSelection)
              /\ UNCHANGED <<top, currentSelection>>
              /\ UNCHANGED <<screenVars, formVars>>
  BY SavedSteps
<1>2. SavedOfSelected'
  BY <1>1 DEF SavedOfSelected
<1>3. ~strayed' => ~strayed
  BY <1>1, Zenon
<1>4. ScreenOfSelected' /\ ListsOfSelected'
  BY <1>1, <1>3 DEF SchoolInv, ScreenOfSelected, ListsOfSelected, screenVars, courses
<1>5. FormOfSelected'
  BY <1>1, <1>3 DEF SchoolInv, FormOfSelected, formVars
<1> QED BY <1>2, <1>4, <1>5 DEF SchoolInv

(* The steps of the screen are steps of its own specification. *)
LEMMA ScreenNext == OnChooseClasses => Next
  BY CourseListsAnswer DEF OnChooseClasses, Next, Touch, Answer

(* What they do to the lists and the queries of the screen *)
LEMMA ScreenLists ==
    ASSUME OnChooseClasses
    PROVE  /\ asked' \subseteq asked \cup ({newUserData.school} \ {Nil})
           /\ searchResults' \in {searchResults, <<>>} \cup
                                  (IF courses = Nil THEN {} ELSE Sublists(courses))
           /\ \/ userSchool' = userSchool
              \/ \E list \in CourseLists(handOff.school) :
                    userSchool' = SchoolWith(handOff.school, list)
<1>1. CASE \E i \in DOMAIN rows : didSelectRow(i) \/ Scroll(i)
  BY <1>1 DEF didSelectRow, Scroll
<1>2. CASE searchBarTextDidBeginEditing \/ searchBarTextDidEndEditing
  BY <1>2 DEF searchBarTextDidBeginEditing, searchBarTextDidEndEditing
<1>3. CASE textDidChange
  BY <1>3 DEF textDidChange
<1>4. CASE addClass \/ viewDidAppear \/ Continue
  BY <1>4 DEF addClass, viewDidAppear, Continue, screenVars
<1>5. CASE \E list \in CourseLists(handOff.school) :
              SelectorHandOff(list) \/ AddClassHandOff(list)
  BY <1>5 DEF SelectorHandOff, AddClassHandOff
<1> QED BY <1>1, <1>2, <1>3, <1>4, <1>5 DEF OnChooseClasses

LEMMA OnChooseClassesSchool ==
    ASSUME FlowInv, SchoolInv, OnChooseClasses
    PROVE  SchoolInv'
<1>0. /\ UNCHANGED <<newUserData, selectorVars>> /\ top = "ChooseClasses"
      /\ top' \in {"ChooseClasses", "FinalSetup"}
  BY ScreenSteps DEF Live
<1>1. UNCHANGED <<currentSelection, strayed>>
  BY <1>0 DEF selectorVars
<1>2. SavedOfSelected' /\ FormOfSelected'
  BY <1>0, <1>1 DEF SchoolInv, SavedOfSelected, FormOfSelected
<1>3. SUFFICES ASSUME ~strayed PROVE ScreenOfSelected' /\ ListsOfSelected'
  BY <1>1, <1>2 DEF SchoolInv, ScreenOfSelected, ListsOfSelected
<1> DEFINE s == currentSelection
<1>4. /\ s \in School /\ newUserData.school # Nil /\ newUserData.school.id = s
      /\ handOff.school = s
      /\ \A saved \in asked : saved.id = s
      /\ ScheduleOfSchool(handOff.schedule, s) /\ ScheduleOfSchool(currentUserSchedule, s)
      /\ courses # Nil => OfSchool(courses, s)
      /\ OfSchool(searchResults, s)
  BY <1>0, <1>3 DEF FlowInv, ListInv, SelectorTypeOK, SchoolInv, SavedOfSelected,
                    ScreenOfSelected, ListsOfSelected
<1>5. \A saved \in asked' : saved.id = s
  BY <1>4, ScreenLists
<1>6. courses' # Nil => OfSchool(courses', s)
  <2>1. CASE userSchool' = userSchool
    BY <1>4, <2>1 DEF courses
  <2>2. ASSUME NEW list \in CourseLists(handOff.school),
               userSchool' = SchoolWith(handOff.school, list)
        PROVE  OfSchool(courses', s)
    <3>1. SchoolWith(handOff.school, list) # Nil
      BY <1>4, CourseListsType, NilValueAssumption DEF SchoolWith, SchoolValues
    <3>2. courses' = list
      BY <2>2, <3>1 DEF courses, SchoolWith
    <3> QED BY <1>4, <3>2, OfSchoolListing
  <2> QED BY <2>1, <2>2, ScreenLists
<1>7. OfSchool(searchResults', s)
  <2>1. courses # Nil => courses \in Seq(Course)
    BY DEF courses, FlowInv, Inv, TypeOK, ScreenTypeOK, SchoolValues
  <2> QED BY <1>4, <2>1, OfSchoolEmpty, OfSchoolSublist, ScreenLists
<1>8. /\ handOff'.school = s /\ ScheduleOfSchool(handOff'.schedule, s)
      /\ ScheduleOfSchool(currentUserSchedule', s)
  <2>0. Inv /\ [Next]_vars /\ handOff \in HandOffs
    BY ScreenNext DEF FlowInv, Inv, TypeOK, ScreenTypeOK
  <2>1. CASE UNCHANGED <<currentUserSchedule, handOff>>
    BY <1>4, <2>1
  <2>2. CASE /\ handOff' = [handOff EXCEPT !.ran = TRUE]
             /\ \/ currentUserSchedule' = Schedule(MaxStudentCourseLoad[handOff.school], <<>>)
                \/ currentUserSchedule' = handOff.schedule
    <3>1. handOff'.school = handOff.school /\ handOff'.schedule = handOff.schedule
      BY <2>0, <2>2 DEF HandOffs
    <3>2. ScheduleOfSchool(Schedule(MaxStudentCourseLoad[handOff.school], <<>>), s)
      BY OfSchoolEmpty DEF ScheduleOfSchool, Schedule
    <3> QED BY <1>4, <2>2, <3>1, <3>2
  <2>3. ASSUME NEW i \in DOMAIN rows, Toggle(i), courses # Nil, currentUserSchedule # Nil,
               ~Beyond(i), handOff' = handOff
        PROVE  ScheduleOfSchool(currentUserSchedule', s)
    <3>1. Source \in Seq(Course) /\ i \in 1 .. Len(Source) /\ Source[i] \in Course
      BY <2>0, <2>3, TappedCourse
    <3>2. OfSchool(Source, s)
      BY <1>4, <2>3 DEF Source
    <3>3. schoolId[Source[i]] = s
      BY <3>1, <3>2, LenProperties DEF OfSchool
    <3>4. currentUserSchedule \in Schedules /\ OfSchool(currentUserSchedule.courseLoad, s)
      BY <1>4, <2>0, <2>3 DEF Inv, TypeOK, ScreenTypeOK, ScheduleOfSchool
    <3>5. currentUserSchedule' = Tapped(currentUserSchedule, Source[i])
      BY <2>3 DEF Toggle
    <3>6. OfSchool(Tapped(currentUserSchedule, Source[i]).courseLoad, s)
      BY <3>1, <3>3, <3>4, TappedOfSchool
    <3> QED BY <3>5, <3>6 DEF ScheduleOfSchool
  <2> QED BY <1>4, <2>0, <2>1, <2>2, <2>3, ScheduleStep
<1> QED BY <1>1, <1>5, <1>6, <1>7, <1>8 DEF ScreenOfSelected, ListsOfSelected

(* The form keeps its school and its schedule, and the course it creates   *)
(* is one of its school.                                                   *)
LEMMA FormCreates ==
    ASSUME FlowInv, OnAddClass
    PROVE  /\ school'.id = school.id /\ scheduleToReturn' = scheduleToReturn
           /\ newCrs' = newCrs \/ schoolId[newCrs'] = school.id
<1>0. school \in [id : School, Staff : Seq(Faculty)]
  BY DEF FlowInv, FormInv, FormTypeOK
<1>1. CASE \/ FieldEvent \/ TypeTitle \/ Teacher \/ Period
           \/ \E row \in 1 .. pickerRows : pickRow(row)
  BY <1>1 DEF FieldEvent, TypeTitle, Teacher, Period, pickRow
<1>2. CASE \/ addTeacher \/ TypeTeacherLast \/ cancelAddTeacher \/ OkRefused \/ FadeDone
           \/ \E row \in 1 .. FacTitles : pickTitle(row)
  BY <1>2 DEF addTeacher, TypeTeacherLast, cancelAddTeacher, OkRefused, FadeDone, pickTitle
<1>3. ASSUME NEW t \in Faculty, endAddTeacher(t)
      PROVE  school'.id = school.id /\ UNCHANGED <<scheduleToReturn, newCrs>>
  BY <1>0, <1>3 DEF endAddTeacher
<1>4. ASSUME NEW c \in Course, AddClass(c)
      PROVE  /\ school' = school /\ scheduleToReturn' = scheduleToReturn
             /\ newCrs' = newCrs \/ schoolId[newCrs'] = school.id
  <2>1. updateUserInfo.schoolId = school.id
    BY DEF updateUserInfo
  <2> QED BY <1>4, <2>1 DEF AddClass, NewCourse
<1> QED BY <1>1, <1>2, <1>3, <1>4 DEF OnAddClass, FormTouch

LEMMA OnAddClassSchool ==
    ASSUME FlowInv, SchoolInv, OnAddClass
    PROVE  SchoolInv'
<1>1. UNCHANGED <<newUserData, top, currentSelection, strayed, screenVars>> /\ top = "AddClass"
  BY FormSteps DEF appVars, selectorVars
<1>2. SavedOfSelected' /\ ScreenOfSelected' /\ ListsOfSelected'
  BY <1>1 DEF SchoolInv, SavedOfSelected, ScreenOfSelected, ListsOfSelected, screenVars
<1>3. FormOfSelected'
  BY <1>1, FormCreates DEF SchoolInv, FormOfSelected
<1> QED BY <1>2, <1>3 DEF SchoolInv

LEMMA SelectorToChooseClassesSchool ==
    ASSUME FlowInv, SchoolInv, SelectorToChooseClasses
    PROVE  SchoolInv'
<1>1. /\ UNCHANGED <<newUserData, selectorVars>> /\ top' = "ChooseClasses" /\ NewScreen
      /\ handOff' = [from |-> "selector", school |-> currentSelection, schedule |-> Nil,
                     ran |-> FALSE]
  BY DEF SelectorToChooseClasses, continueAction, Present
<1>2. UNCHANGED <<currentSelection, strayed>>
  BY <1>1 DEF selectorVars
<1>3. SavedOfSelected' /\ FormOfSelected'
  BY <1>1, <1>2 DEF SchoolInv, SavedOfSelected, FormOfSelected
<1>4. ScreenOfSelected' /\ ListsOfSelected'
  BY <1>1, <1>2, OfSchoolEmpty
     DEF ScreenOfSelected, ListsOfSelected, NewScreen, ScheduleOfSchool, courses
<1> QED BY <1>3, <1>4 DEF SchoolInv

LEMMA ChooseClassesToAddClassSchool ==
    ASSUME FlowInv, SchoolInv, ChooseClassesToAddClass
    PROVE  SchoolInv'
<1>1. PICK saved \in asked :
        /\ FacultyAnswer(saved)
        /\ \E staff \in StaffLists(saved.id) : NewForm(saved.id, staff, currentUserSchedule)
  BY DEF ChooseClassesToAddClass
<1>2. /\ school'.id = saved.id /\ scheduleToReturn' = currentUserSchedule /\ newCrs' = Nil
  BY <1>1 DEF NewForm
<1>3. /\ UNCHANGED <<newUserData, currentUserSchedule, handOff>>
      /\ asked' \subseteq asked /\ top = "ChooseClasses" /\ top' = "AddClass"
  BY <1>1 DEF FacultyAnswer, Touchable, Live
<1>4. UNCHANGED <<currentSelection, strayed>>
  BY DEF ChooseClassesToAddClass, selectorVars
<1> QED BY <1>2, <1>3, <1>4 DEF SchoolInv, SavedOfSelected, ScreenOfSelected,
                                ListsOfSelected, FormOfSelected

LEMMA AddClassToChooseClassesSchool ==
    ASSUME FlowInv, SchoolInv, AddClassToChooseClasses
    PROVE  SchoolInv'
<1>1. /\ OkAdded \/ cancelAddClass
      /\ NewScreen /\ UNCHANGED <<selectorVars, outran>>
  BY DEF AddClassToChooseClasses
<1>2. top = "AddClass" /\ top' = "ChooseClasses" /\ newUserData' = newUserData
  BY <1>1 DEF OkAdded, cancelAddClass, OnForm
<1>3. UNCHANGED <<currentSelection, strayed>>
  BY <1>1 DEF selectorVars
<1>4. SavedOfSelected' /\ FormOfSelected'
  BY <1>2, <1>3 DEF SchoolInv, SavedOfSelected, FormOfSelected
<1>5. /\ handOff'.school = newUserData.school.id
      /\ handOff'.schedule = scheduleToReturn'
  BY DEF AddClassToChooseClasses, Present, cancelAddClass, formVars
<1>6. SUFFICES ASSUME ~strayed PROVE ScreenOfSelected' /\ ListsOfSelected'
  BY <1>3, <1>4 DEF SchoolInv, ScreenOfSelected, ListsOfSelected
<1>7. /\ newUserData.school.id = currentSelection
      /\ ScheduleOfSchool(scheduleToReturn, currentSelection)
      /\ newCrs # Nil => schoolId[newCrs] = currentSelection
  BY <1>2, <1>6 DEF FlowInv, ListInv, SchoolInv, SavedOfSelected, FormOfSelected
<1>8. ScheduleOfSchool(scheduleToReturn', currentSelection)
  <2>1. CASE OkAdded
    <3>1. /\ scheduleToReturn' = WithNewCourse(scheduleToReturn, newCrs)
          /\ newCrs \in Course /\ schoolId[newCrs] = currentSelection
          /\ scheduleToReturn \in {Nil} \cup Schedules
      BY <1>7, <2>1 DEF OkAdded, FlowInv, FormInv, FormTypeOK
    <3> QED BY <1>7, <3>1, WithNewCourseOfSchool
  <2>2. CASE cancelAddClass
    BY <1>7, <2>2 DEF cancelAddClass, formVars
  <2> QED BY <1>1, <2>1, <2>2
<1> QED BY <1>1, <1>3, <1>5, <1>7, <1>8, OfSchoolEmpty
        DEF ScreenOfSelected, ListsOfSelected, NewScreen, ScheduleOfSchool, courses

LEMMA SchoolKept ==
    ASSUME SchoolInv, UNCHANGED <<appVars, selectorVars, screenVars, formVars>>
    PROVE  SchoolInv'
<1>1. UNCHANGED <<newUserData, top, currentSelection, strayed>>
  BY DEF appVars, selectorVars
<1>2. SavedOfSelected' /\ ScreenOfSelected' /\ ListsOfSelected'
  BY <1>1 DEF SchoolInv, SavedOfSelected, ScreenOfSelected, ListsOfSelected, screenVars, courses
<1>3. FormOfSelected'
  BY <1>1 DEF SchoolInv, FormOfSelected, formVars
<1> QED BY <1>2, <1>3 DEF SchoolInv

LEMMA SchoolNext == FlowInv /\ SchoolInv /\ [SignUpNext]_signUpVars => SchoolInv'
<1> SUFFICES ASSUME FlowInv, SchoolInv, [SignUpNext]_signUpVars PROVE SchoolInv'
  OBVIOUS
<1>1. CASE (\E c \in Course : OthersAdd(c)) \/ UNCHANGED signUpVars
  <2>1. UNCHANGED <<appVars, selectorVars, screenVars, formVars>>
    BY <1>1 DEF OthersAdd, signUpVars
  <2> QED BY <2>1, SchoolKept
<1> QED BY <1>1, OnSchoolSelectorSchool, SavedWithListSchool, OnChooseClassesSchool,
           OnAddClassSchool, SelectorToChooseClassesSchool, ChooseClassesToAddClassSchool,
           AddClassToChooseClassesSchool DEF SignUpNext

LEMMA SchoolInvariant == SignUpSpec => [](FlowInv /\ SchoolInv)
  BY FlowInvariant, SchoolInit, SchoolNext, PTL DEF SignUpSpec

(* As long as no late callback has saved another school, the schedule the  *)
(* app holds has courses of the selected school only, and no more than     *)
(* this school allows, although no code compares either.                   *)
THEOREM OneSchoolHolds == SignUpSpec => []OneSchool
<1>1. FlowInv /\ SchoolInv => OneSchool
  <2> SUFFICES ASSUME FlowInv, SchoolInv, ~strayed, Held # Nil
               PROVE  /\ \A c \in HeldCourses : schoolId[c] = currentSelection
                      /\ Len(Held.courseLoad) <= MaxStudentCourseLoad[currentSelection]
    BY DEF OneSchool
  <2>1. top \in {"ChooseClasses", "AddClass"}
    BY DEF Held
  <2>2. currentSelection \in School
    BY <2>1 DEF FlowInv, ListInv, SelectorTypeOK
  <2>3. Held \in {scheduleToReturn, handOff.schedule, currentUserSchedule}
    BY <2>1 DEF Held
  <2>4. Held \in Schedules
    <3>1. /\ handOff \in HandOffs /\ currentUserSchedule \in {Nil} \cup Schedules
          /\ scheduleToReturn \in {Nil} \cup Schedules
      BY DEF FlowInv, Inv, TypeOK, ScreenTypeOK, FormInv, FormTypeOK
    <3>2. handOff.schedule \in {Nil} \cup Schedules
      BY <3>1 DEF HandOffs
    <3> QED BY <2>3, <3>1, <3>2
  <2>5. ClashFree(Held)
    BY <2>3 DEF FlowInv, Inv, FormInv, NoPeriodClash, HandOffSound, ReturnsClashFree
  <2>6. ScheduleOfSchool(Held, currentSelection)
    BY <2>1 DEF Held, SchoolInv, ScreenOfSelected, FormOfSelected
  <2>7. \A i \in DOMAIN Held.courseLoad : schoolId[Held.courseLoad[i]] = currentSelection
    BY <2>6 DEF ScheduleOfSchool, OfSchool
  <2>8. \A c \in HeldCourses : schoolId[c] = currentSelection
    BY <2>7 DEF HeldCourses, ToSet
  <2> QED BY <2>2, <2>4, <2>5, <2>7, <2>8, ClashFreeBounded
<1> QED BY <1>1, SchoolInvariant, PTL

(* ... and the course the form creates is one of the selected school       *)
(* (AddClass takes the school that addClass read from newUserData).        *)
THEOREM CreatedForSelectedHolds == SignUpSpec => []CreatedForSelected
<1>1. SchoolInv => CreatedForSelected
  BY DEF SchoolInv, FormOfSelected, CreatedForSelected
<1> QED BY <1>1, SchoolInvariant, PTL

-----------------------------------------------------------------------------
(* The fourth part: SchoolSelector hands over no schedule, so that its     *)
(* hand-off, which starts a new one, loses nothing.                        *)
FromSelector == handOff.from = "selector" => handOff.schedule = Nil

(* What the steps of ChooseClasses do to the hand-off *)
LEMMA HandOffSteps ==
    ASSUME FlowInv, OnChooseClasses
    PROVE  \/ handOff' = handOff
           \/ /\ ~handOff.ran /\ handOff' = [handOff EXCEPT !.ran = TRUE] /\ top' = top
              /\ \/ /\ handOff.from = "selector"
                    /\ currentUserSchedule' = Schedule(MaxStudentCourseLoad[handOff.school], <<>>)
                 \/ currentUserSchedule' = handOff.schedule
<1>1. CASE \E i \in DOMAIN rows : didSelectRow(i) \/ Scroll(i)
  BY <1>1 DEF didSelectRow, Scroll
<1>2. CASE searchBarTextDidBeginEditing \/ searchBarTextDidEndEditing \/ textDidChange
  BY <1>2 DEF searchBarTextDidBeginEditing, searchBarTextDidEndEditing, textDidChange
<1>3. CASE addClass \/ viewDidAppear \/ Continue
  BY <1>3 DEF addClass, viewDidAppear, Continue, screenVars
<1>4. CASE \E list \in CourseLists(handOff.school) : SelectorHandOff(list)
  BY <1>4 DEF SelectorHandOff, appVars
<1>5. CASE \E list \in CourseLists(handOff.school) : AddClassHandOff(list)
  BY <1>5 DEF AddClassHandOff, appVars
<1> QED BY <1>1, <1>2, <1>3, <1>4, <1>5 DEF OnChooseClasses

(* The steps that change neither the screen on top nor the hand-off *)
LEMMA OtherSteps ==
    ASSUME FlowInv, [SignUpNext]_signUpVars
    PROVE  \/ UNCHANGED <<top, handOff>>
           \/ OnChooseClasses \/ SelectorToChooseClasses
           \/ ChooseClassesToAddClass \/ AddClassToChooseClasses
<1>1. CASE OnSchoolSelector
  BY <1>1, SelectorSteps DEF screenVars
<1>2. CASE SavedWithList
  BY <1>2, SavedSteps DEF screenVars
<1>3. CASE OnAddClass
  BY <1>3, FormSteps DEF screenVars, appVars
<1>4. CASE (\E c \in Course : OthersAdd(c)) \/ UNCHANGED signUpVars
  BY <1>4 DEF OthersAdd, signUpVars, screenVars, appVars
<1> QED BY <1>1, <1>2, <1>3, <1>4 DEF SignUpNext

LEMMA FromSelectorInit == SignUpInit => FromSelector
  BY DEF SignUpInit, FromSelector

LEMMA FromSelectorNext ==
    FlowInv /\ FromSelector /\ [SignUpNext]_signUpVars => FromSelector'
<1> SUFFICES ASSUME FlowInv, FromSelector, [SignUpNext]_signUpVars PROVE FromSelector'
  OBVIOUS
<1>0. handOff \in HandOffs
  BY DEF FlowInv, Inv, TypeOK, ScreenTypeOK
<1>1. CASE OnChooseClasses
  BY <1>0, <1>1, HandOffSteps DEF FromSelector, HandOffs
<1>2. CASE SelectorToChooseClasses
  BY <1>2 DEF SelectorToChooseClasses, Present, FromSelector
<1>3. CASE ChooseClassesToAddClass
  BY <1>3 DEF ChooseClassesToAddClass, FacultyAnswer, FromSelector
<1>4. CASE AddClassToChooseClasses
  BY <1>4 DEF AddClassToChooseClasses, Present, FromSelector
<1>5. CASE UNCHANGED <<top, handOff>>
  BY <1>5 DEF FromSelector
<1> QED BY <1>1, <1>2, <1>3, <1>4, <1>5, OtherSteps

(* The courses of a schedule, and what the form adds to them *)
CoursesIn(sched) == IF sched = Nil THEN {} ELSE ToSet(sched.courseLoad)

LEMMA WithNewCourseAdds ==
    ASSUME NEW sched \in {Nil} \cup Schedules, NEW c \in Course
    PROVE  CoursesIn(WithNewCourse(sched, c)) \in {CoursesIn(sched), CoursesIn(sched) \cup {c}}
<1>1. CASE sched # Nil /\ verifyNewCourseToSchedule(c, sched)
  <2> DEFINE load == sched.courseLoad
             new  == WithNewCourse(sched, c)
  <2>1. load \in Seq(Course) /\ sched \in Schedules
    BY <1>1 DEF Schedules
  <2>2. new.courseLoad = Append(load, c) /\ new \in [maxCourseCount : Nat, courseLoad : Seq(Course)]
    BY <1>1, <2>1 DEF WithNewCourse, Schedules
  <2>3. new # Nil
    BY <2>2, NilValueAssumption DEF Schedules
  <2>4. /\ Len(Append(load, c)) = Len(load) + 1
        /\ \A i \in 1 .. Len(load) : Append(load, c)[i] = load[i]
        /\ Append(load, c)[Len(load) + 1] = c
        /\ DOMAIN load = 1 .. Len(load) /\ Len(load) \in Nat
        /\ DOMAIN Append(load, c) = 1 .. Len(load) + 1
    BY <2>1, AppendProperties, LenProperties
  <2>5. ToSet(Append(load, c)) = ToSet(load) \cup {c}
    <3>1. ASSUME NEW d \in ToSet(Append(load, c)) PROVE d \in ToSet(load) \cup {c}
      <4>1. PICK i \in 1 .. Len(load) + 1 : d = Append(load, c)[i]
        BY <2>4 DEF ToSet
      <4> QED BY <2>4, <4>1 DEF ToSet
    <3>2. ASSUME NEW d \in ToSet(load) \cup {c} PROVE d \in ToSet(Append(load, c))
      <4>1. CASE d = c
        <5>1. Len(load) + 1 \in 1 .. Len(load) + 1
          BY <2>4
        <5> QED BY <2>4, <4>1, <5>1 DEF ToSet
      <4>2. CASE d \in ToSet(load)
        <5>1. PICK i \in 1 .. Len(load) : d = load[i]
          BY <2>4, <4>2 DEF ToSet
        <5>2. i \in 1 .. Len(load) + 1
          BY <2>4
        <5> QED BY <2>4, <5>1, <5>2 DEF ToSet
      <4> QED BY <3>2, <4>1, <4>2
    <3> QED BY <3>1, <3>2
  <2> HIDE DEF new, load
  <2>6. CoursesIn(new) = CoursesIn(sched) \cup {c}
    BY <1>1, <2>2, <2>3, <2>5 DEF CoursesIn, load
  <2> QED BY <2>6 DEF new
<1>2. CASE ~(sched # Nil /\ verifyNewCourseToSchedule(c, sched))
  BY <1>2 DEF WithNewCourse
<1> QED BY <1>1, <1>2

LEMMA HeldCoursesIs ==
    /\ HeldCourses = CoursesIn(Held)
    /\ top = "AddClass" => Held = scheduleToReturn
    /\ top = "ChooseClasses" /\ ~handOff.ran => Held = handOff.schedule
    /\ top = "ChooseClasses" /\ handOff.ran => Held = currentUserSchedule
  BY DEF HeldCourses, CoursesIn, Held

LEMMA HeldCoursesIsNext ==
    (/\ HeldCourses = CoursesIn(Held)
     /\ top = "AddClass" => Held = scheduleToReturn
     /\ top = "ChooseClasses" /\ ~handOff.ran => Held = handOff.schedule
     /\ top = "ChooseClasses" /\ handOff.ran => Held = currentUserSchedule)'
  BY HeldCoursesIs, PTL

(* No way between ChooseClasses and the form, and no late hand-off, loses  *)
(* a course of the schedule, and the form adds its own course at most,     *)
(* unless the form was opened before the hand-off had come (prepare of     *)
(* ChooseClasses and AddClass, and the callbacks they pass on).            *)
THEOREM NothingLostHolds == SignUpSpec => NothingLost
<1> DEFINE Step == {top, top'} \subseteq {"ChooseClasses", "AddClass"}
                       /\ <<top, handOff>>' # <<top, handOff>>
                   => \/ HeldCourses' = HeldCourses
                      \/ top = "AddClass" /\ HeldCourses' = HeldCourses \cup {newCrs}
                      \/ outran'
<1>1. ASSUME FlowInv, FromSelector, [SignUpNext]_signUpVars PROVE Step
  <2> SUFFICES ASSUME {top, top'} \subseteq {"ChooseClasses", "AddClass"},
                      <<top, handOff>>' # <<top, handOff>>
               PROVE  \/ HeldCourses' = HeldCourses
                      \/ top = "AddClass" /\ HeldCourses' = HeldCourses \cup {newCrs}
                      \/ outran'
    OBVIOUS
  <2>0. handOff \in HandOffs /\ scheduleToReturn \in {Nil} \cup Schedules
        /\ newCrs \in {Nil} \cup Course
    BY <1>1 DEF FlowInv, Inv, TypeOK, ScreenTypeOK, FormInv, FormTypeOK
  <2>1. CASE OnChooseClasses
    <3>1. top = "ChooseClasses" /\ top' = "ChooseClasses"
      BY <2>1, ScreenSteps DEF Live
    <3>2. /\ ~handOff.ran /\ handOff' = [handOff EXCEPT !.ran = TRUE]
          /\ \/ /\ handOff.from = "selector"
                /\ currentUserSchedule' = Schedule(MaxStudentCourseLoad[handOff.school], <<>>)
             \/ currentUserSchedule' = handOff.schedule
      BY <1>1, <2>1, <3>1, HandOffSteps
    <3>3. handOff'.ran
      BY <2>0, <3>2 DEF HandOffs
    <3>4. Held = handOff.schedule /\ HeldCourses = CoursesIn(Held)
      BY <3>1, <3>2, HeldCoursesIs
    <3>5. Held' = currentUserSchedule' /\ HeldCourses' = CoursesIn(Held')
      BY <3>1, <3>3, HeldCoursesIsNext
    <3>6. CoursesIn(Schedule(MaxStudentCourseLoad[handOff.school], <<>>)) = {}
      BY DEF CoursesIn, Schedule, ToSet
    <3>7. CoursesIn(Nil) = {}
      BY DEF CoursesIn
    <3> QED BY <1>1, <3>2, <3>4, <3>5, <3>6, <3>7 DEF FromSelector
  <2>2. CASE ChooseClassesToAddClass
    <3>1. PICK saved \in asked :
            /\ FacultyAnswer(saved)
            /\ \E staff \in StaffLists(saved.id) : NewForm(saved.id, staff, currentUserSchedule)
      BY <2>2 DEF ChooseClassesToAddClass
    <3>2. top = "ChooseClasses" /\ top' = "AddClass" /\ scheduleToReturn' = currentUserSchedule
      BY <3>1 DEF FacultyAnswer, Touchable, Live, NewForm
    <3>3. Held' = currentUserSchedule /\ HeldCourses' = CoursesIn(Held')
      BY <3>2, HeldCoursesIsNext
    <3>4. CASE handOff.ran
      BY <3>2, <3>3, <3>4, HeldCoursesIs
    <3>5. CASE ~handOff.ran
      <4>1. currentUserSchedule = Nil
        BY <1>1, <3>5 DEF FlowInv, Inv, ScheduleSound
      <4> QED BY <2>2, <4>1 DEF ChooseClassesToAddClass
    <3> QED BY <3>4, <3>5
  <2>3. CASE AddClassToChooseClasses
    <3>1. /\ top = "AddClass" /\ top' = "ChooseClasses"
          /\ handOff'.schedule = scheduleToReturn' /\ ~handOff'.ran
      <4>1. top = "AddClass" /\ top' = "ChooseClasses"
        BY <2>3 DEF AddClassToChooseClasses, OkAdded, cancelAddClass, OnForm
      <4>2. \E from \in {"return", "cancel"} :
               handOff' = [from |-> from, school |-> newUserData.school.id,
                           schedule |-> scheduleToReturn', ran |-> FALSE]
        BY <2>3 DEF AddClassToChooseClasses, Present, cancelAddClass, formVars
      <4> QED BY <4>1, <4>2
    <3>2. Held = scheduleToReturn /\ HeldCourses = CoursesIn(Held)
      BY <3>1, HeldCoursesIs
    <3>3. Held' = scheduleToReturn' /\ HeldCourses' = CoursesIn(Held')
      BY <3>1, HeldCoursesIsNext
    <3>4. CASE OkAdded
      <4>1. newCrs \in Course /\ scheduleToReturn' = WithNewCourse(scheduleToReturn, newCrs)
        BY <2>0, <3>4 DEF OkAdded
      <4> QED BY <2>0, <3>1, <3>2, <3>3, <4>1, WithNewCourseAdds
    <3>5. CASE cancelAddClass
      BY <3>2, <3>3, <3>5 DEF cancelAddClass, formVars
    <3> QED BY <2>3, <3>4, <3>5 DEF AddClassToChooseClasses
  <2>4. CASE SelectorToChooseClasses
    BY <2>4 DEF SelectorToChooseClasses, continueAction, OnSelector
  <2> QED BY <1>1, <2>1, <2>2, <2>3, <2>4, OtherSteps
<1>2. SignUpSpec => [](FlowInv /\ FromSelector)
  BY FlowInvariant, FromSelectorInit, FromSelectorNext, PTL DEF SignUpSpec
<1>3. FlowInv /\ FromSelector /\ [SignUpNext]_signUpVars => [Step]_signUpVars
  BY <1>1
<1> QED BY <1>2, <1>3, PTL DEF SignUpSpec, NothingLost
=============================================================================
