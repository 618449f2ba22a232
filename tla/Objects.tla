------------------------------ MODULE Objects ------------------------------
(***************************************************************************)
(* The value types of the app (Structures & Enums/Objects.swift) as far as *)
(* the sign-up flow tells their values apart, and the one pure function    *)
(* that decides about them (Structures & Enums/Functions.swift).           *)
(*                                                                         *)
(* A course is identified by its Firestore document id.  The app writes a  *)
(* course document once, when the course is created, and never again, so   *)
(* a course is a member of the constant set Course and its immutable       *)
(* fields are the constant functions period and schoolId.  Titles, names   *)
(* and rooms are left out: nothing the app decides depends on them, except *)
(* the search, whose outcome is any sublist (Sublists).                    *)
(***************************************************************************)
EXTENDS Integers, Sequences, FiniteSets, SequencesExt

CONSTANTS School,               \* ids of the school documents
          Course,               \* ids of the course documents, existing or not yet created
          period,               \* Course.period
          schoolId,             \* Course.schoolId
          MaxStudentCourseLoad, \* School.MaxStudentCourseLoad
          Nil                   \* Swift's nil

ASSUME CourseAssumption == /\ period \in [Course -> Nat]
                           /\ schoolId \in [Course -> School]
                           /\ IsFiniteSet(Course)

ASSUME SchoolAssumption == MaxStudentCourseLoad \in [School -> Nat] /\ IsFiniteSet(School)

(* The app is the only writer of course documents, and it picks the period *)
(* with a wheel of periodCount rows (AddClassViewController, 108-113, 154).*)
ASSUME PeriodAssumption ==
    \A c \in Course : period[c] \in 1 .. MaxStudentCourseLoad[schoolId[c]]

ASSUME NilAssumption == Nil \notin School \cup Course

-----------------------------------------------------------------------------
(* struct Schedule *)
Schedule(max, load) == [maxCourseCount |-> max, courseLoad |-> load]

Schedules == [maxCourseCount : Nat, courseLoad : Seq(Course)]

(* struct School, with the part of it that changes after decoding.         *)
SchoolWith(s, list) == [id |-> s, CourseList |-> list]

SchoolValues == [id : School, CourseList : {Nil} \cup Seq(Course)]

ASSUME NilValueAssumption == Nil \notin Schedules /\ Nil \notin SchoolValues

CoursesOf(s) == {c \in Course : schoolId[c] = s}

(* What getDocuments returns for a collection: every document once.  The   *)
(* order (that of the document ids) is immaterial to the app: any order.   *)
Listings(S) == {q \in [1 .. Cardinality(S) -> S] : IsInjective(q)}

(* Mutants: only the first course is compared; nothing is compared.        *)
verifyNewCourseToSchedule_first(courseToAdd, schedule) ==
    \/ schedule = Nil \/ schedule.courseLoad = <<>>
    \/ period[Head(schedule.courseLoad)] # period[courseToAdd]

verifyNewCourseToSchedule_never(courseToAdd, schedule) == TRUE

(* func verifyNewCourseToSchedule(courseToAdd:schedule:) *)
verifyNewCourseToSchedule(courseToAdd, schedule) ==
    \/ schedule = Nil
    \/ \A i \in DOMAIN schedule.courseLoad :
          period[schedule.courseLoad[i]] # period[courseToAdd]

(* courseLoad.index(where: { $0.id == c.id }): the first position *)
FirstIndex(load, c) ==
    CHOOSE i \in DOMAIN load : load[i] = c /\ \A j \in 1 .. i - 1 : load[j] # c

(* The outcomes of a filter over a list: its sublists, in the list's order.*)
Increasing(n, m) ==
    {f \in [1 .. n -> 1 .. m] : \A i, j \in 1 .. n : i < j => f[i] < f[j]}

Sublists(list) ==
    UNION {{[k \in 1 .. n |-> list[f[k]]] : f \in Increasing(n, Len(list))} :
              n \in 0 .. Len(list)}

(* periodLabelTextGenerator: the text lists the period of each course of   *)
(* the schedule in increasing order, so it says how often each period      *)
(* occurs and nothing else.  No period at all is the text "No Courses      *)
(* Selected", which is also the label's text in the storyboard.            *)
periodLabelTextGenerator(schedule) ==
    LET load == schedule.courseLoad
    IN  [p \in {period[load[i]] : i \in DOMAIN load} |->
           Cardinality({i \in DOMAIN load : period[load[i]] = p})]

NoCoursesSelected == [p \in {} |-> 0]

-----------------------------------------------------------------------------
(* No two entries of the schedule are for the same period. *)
ClashFree(schedule) ==
    \A i, j \in DOMAIN schedule.courseLoad :
        i # j => period[schedule.courseLoad[i]] # period[schedule.courseLoad[j]]

(* The schedules ChooseClasses can hold for a school: made with its limit, *)
(* no course twice and no two courses in one period.                       *)
SchedulesReturned(s) ==
    {sched \in {Schedule(MaxStudentCourseLoad[s], load) :
                   load \in UNION {Listings(S) : S \in SUBSET Course}} : ClashFree(sched)}
=============================================================================
