--------------------------- MODULE Classes_proofs ---------------------------
(***************************************************************************)
(* Theorems about the two screens on which the schedule is made: facts     *)
(* about the operators of Objects that both use, one instance of           *)
(* ChooseClasses, for every set of schools and courses, and one instance   *)
(* of the form AddClass, for every school, staff, set of courses and       *)
(* number of titles.                                                       *)
(***************************************************************************)
EXTENDS ChooseClasses, AddClass, TLAPS, SequenceTheorems, FiniteSetTheorems, WellFoundedInduction

(* index(where:) finds the first occurrence of a course that occurs. *)
LEMMA FirstIndexProperties ==
    ASSUME NEW load \in Seq(Course), NEW c, Contains(load, c)
    PROVE  /\ FirstIndex(load, c) \in 1 .. Len(load)
           /\ load[FirstIndex(load, c)] = c
<1> DEFINE At == {i \in 1 .. Len(load) : load[i] = c}
<1>1. At \subseteq Nat /\ At # {}
  BY LenProperties DEF Contains
<1> DEFINE Less == {ss \in Nat \X Nat : ss[1] < ss[2]}
<1>a. IsWellFoundedOn(Less, Nat)
  BY NatLessThanWellFounded DEF OpToRel
<1>2. PICK m \in At : \A y \in At : ~ (<<y, m>> \in Less)
  <2> HIDE DEF At, Less
  <2> QED BY <1>1, <1>a, WFMin
<1>3. ASSUME NEW j \in 1 .. m - 1, load[j] = c PROVE FALSE
  <2>1. m \in Nat /\ m <= Len(load) /\ Len(load) \in Nat
    BY <1>1, <1>2, LenProperties
  <2>2. j \in At
    BY <1>3, <2>1
  <2>3. <<j, m>> \in Less
    BY <2>1, <2>2
  <2> QED BY <1>2, <2>2, <2>3
<1>4. m \in DOMAIN load /\ load[m] = c /\ \A j \in 1 .. m - 1 : load[j] # c
  BY <1>2, <1>3, LenProperties
<1> QED BY <1>4, LenProperties DEF FirstIndex

(* remove(at:) drops one entry and keeps the others in order. *)
LEMMA RemoveAtProperties ==
    ASSUME NEW load \in Seq(Course), NEW k \in 1 .. Len(load)
    PROVE  /\ RemoveAt(load, k) \in Seq(Course)
           /\ Len(RemoveAt(load, k)) = Len(load) - 1
           /\ \A i \in 1 .. Len(load) - 1 :
                 RemoveAt(load, k)[i] = IF i < k THEN load[i] ELSE load[i + 1]
<1> DEFINE front == SubSeq(load, 1, k - 1)
           back  == SubSeq(load, k + 1, Len(load))
<1>0. Len(load) \in Nat /\ \A i \in 1 .. Len(load) : load[i] \in Course
  BY LenProperties, ElementOfSeq
<1>1. /\ front \in Seq(Course) /\ Len(front) = k - 1
      /\ \A i \in 1 .. k - 1 : front[i] = load[i]
  BY <1>0, SubSeqProperties
<1>2. /\ back \in Seq(Course) /\ Len(back) = Len(load) - k
      /\ \A i \in 1 .. Len(load) - k : back[i] = load[k + i]
  BY <1>0, SubSeqProperties
<1>3. /\ front \o back \in Seq(Course)
      /\ Len(front \o back) = Len(front) + Len(back)
      /\ \A i \in 1 .. Len(front) + Len(back) :
            (front \o back)[i] = IF i <= Len(front) THEN front[i] ELSE back[i - Len(front)]
  <2> HIDE DEF front, back
  <2> QED BY <1>1, <1>2, ConcatProperties
<1>4. RemoveAt(load, k) = front \o back
  BY DEF RemoveAt
<1> HIDE DEF front, back
<1>5. ASSUME NEW i \in 1 .. Len(load) - 1
      PROVE  (front \o back)[i] = IF i < k THEN load[i] ELSE load[i + 1]
  <2>1. CASE i < k
    BY <1>0, <1>1, <1>2, <1>3, <2>1
  <2>2. CASE ~(i < k)
    <3>1. i - Len(front) \in 1 .. Len(load) - k
      BY <1>0, <1>1, <2>2
    <3>2. (front \o back)[i] = back[i - Len(front)]
      BY <1>0, <1>1, <1>2, <1>3, <2>2
    <3> QED BY <1>0, <1>1, <1>2, <2>2, <3>1, <3>2
  <2> QED BY <2>1, <2>2
<1>6. Len(front) + Len(back) = Len(load) - 1
  BY <1>0, <1>1, <1>2
<1> QED BY <1>3, <1>4, <1>5, <1>6

-----------------------------------------------------------------------------
(* Adding a course that verifyNewCourseToSchedule accepts keeps the        *)
(* periods of a schedule distinct.                                         *)
LEMMA AppendKeepsClashFree ==
    ASSUME NEW sched \in Schedules, sched # Nil, ClashFree(sched),
           NEW c \in Course, verifyNewCourseToSchedule(c, sched)
    PROVE  /\ [sched EXCEPT !.courseLoad = Append(sched.courseLoad, c)] \in Schedules
           /\ ClashFree([sched EXCEPT !.courseLoad = Append(sched.courseLoad, c)])
<1> DEFINE load == sched.courseLoad
           new  == Append(load, c)
<1>1. load \in Seq(Course) /\ Len(load) \in Nat /\ DOMAIN load = 1 .. Len(load)
  BY LenProperties DEF Schedules
<1>2. /\ new \in Seq(Course) /\ DOMAIN new = 1 .. Len(load) + 1
      /\ \A i \in 1 .. Len(load) : new[i] = load[i]
      /\ new[Len(load) + 1] = c
  BY <1>1, AppendProperties, LenProperties
<1>3. [sched EXCEPT !.courseLoad = new] \in Schedules
      /\ [sched EXCEPT !.courseLoad = new].courseLoad = new
  <2> HIDE DEF new
  <2> QED BY <1>2 DEF Schedules
<1> HIDE DEF new
<1>4. \A i \in 1 .. Len(load) : period[new[i]] # period[c]
  BY <1>1, <1>2 DEF verifyNewCourseToSchedule
<1>5. \A i, j \in 1 .. Len(load) : i # j => period[new[i]] # period[new[j]]
  BY <1>1, <1>2 DEF ClashFree
<1>6. \A i, j \in DOMAIN new : i # j => period[new[i]] # period[new[j]]
  BY <1>1, <1>2, <1>4, <1>5
<1> QED BY <1>3, <1>6 DEF ClashFree, new

(* Removing any entry keeps the periods distinct. *)
LEMMA RemoveKeepsClashFree ==
    ASSUME NEW sched \in Schedules, ClashFree(sched),
           NEW k \in 1 .. Len(sched.courseLoad)
    PROVE  /\ [sched EXCEPT !.courseLoad = RemoveAt(sched.courseLoad, k)] \in Schedules
           /\ ClashFree([sched EXCEPT !.courseLoad = RemoveAt(sched.courseLoad, k)])
<1> DEFINE load == sched.courseLoad
           new  == RemoveAt(load, k)
<1>1. load \in Seq(Course) /\ Len(load) \in Nat /\ DOMAIN load = 1 .. Len(load)
  BY LenProperties DEF Schedules
<1>2. /\ new \in Seq(Course) /\ DOMAIN new = 1 .. Len(load) - 1
      /\ \A i \in 1 .. Len(load) - 1 : new[i] = IF i < k THEN load[i] ELSE load[i + 1]
  BY <1>1, RemoveAtProperties, LenProperties
<1>3. [sched EXCEPT !.courseLoad = new] \in Schedules
      /\ [sched EXCEPT !.courseLoad = new].courseLoad = new
  <2> HIDE DEF new
  <2> QED BY <1>2 DEF Schedules
<1> HIDE DEF new
<1>4. ASSUME NEW i \in DOMAIN new, NEW j \in DOMAIN new, i # j
      PROVE  period[new[i]] # period[new[j]]
  <2> DEFINE at(n) == IF n < k THEN n ELSE n + 1
  <2>1. i \in 1 .. Len(load) - 1 /\ j \in 1 .. Len(load) - 1 /\ k \in 1 .. Len(load)
    BY <1>2
  <2>2. at(i) \in 1 .. Len(load) /\ at(j) \in 1 .. Len(load) /\ at(i) # at(j)
    BY <1>1, <1>4, <2>1
  <2>3. new[i] = load[at(i)] /\ new[j] = load[at(j)]
    BY <1>2, <2>1
  <2> HIDE DEF at
  <2> QED BY <1>1, <2>2, <2>3 DEF ClashFree
<1> QED BY <1>3, <1>4 DEF ClashFree, new

(* 1..n has n members. *)
LEMMA IntervalSize ==
    ASSUME NEW n \in Nat
    PROVE  IsFiniteSet(1 .. n) /\ Cardinality(1 .. n) = n
<1>1. IsFiniteSet(1 .. n) /\ Cardinality(1 .. n) = IF 1 > n THEN 0 ELSE n - 1 + 1
  BY FS_Interval
<1> QED BY <1>1

(* Distinct periods, all within 1..MaxStudentCourseLoad[s], bound the      *)
(* number of courses of school s in a schedule: pigeonhole.                *)
LEMMA ClashFreeBounded ==
    ASSUME NEW sched \in Schedules, ClashFree(sched), NEW s \in School,
           \A i \in DOMAIN sched.courseLoad : schoolId[sched.courseLoad[i]] = s
    PROVE  Len(sched.courseLoad) <= MaxStudentCourseLoad[s]
<1> DEFINE load == sched.courseLoad
           P    == 1 .. MaxStudentCourseLoad[s]
           f    == [i \in 1 .. Len(load) |-> period[load[i]]]
<1>1. load \in Seq(Course) /\ Len(load) \in Nat /\ DOMAIN load = 1 .. Len(load)
  BY LenProperties DEF Schedules
<1>2. MaxStudentCourseLoad[s] \in Nat
  BY SchoolAssumption
<1>3. f \in [1 .. Len(load) -> P]
  BY <1>1, PeriodAssumption, ElementOfSeq
<1>4. \A i, j \in 1 .. Len(load) : i # j => f[i] # f[j]
  BY <1>1 DEF ClashFree
<1>5. /\ IsFiniteSet(P) /\ Cardinality(P) = MaxStudentCourseLoad[s]
      /\ IsFiniteSet(1 .. Len(load)) /\ Cardinality(1 .. Len(load)) = Len(load)
  BY <1>1, <1>2, IntervalSize
<1> HIDE DEF f, P
<1>6. ~(Cardinality(P) < Cardinality(1 .. Len(load)))
  BY <1>3, <1>4, <1>5, FS_PigeonHole
<1> QED BY <1>1, <1>2, <1>5, <1>6

-----------------------------------------------------------------------------
(* What getDocuments returns for a set of courses is a list of them. *)
LEMMA ListingsType ==
    ASSUME NEW S \in SUBSET Course
    PROVE  Listings(S) \subseteq Seq(Course)
<1>1. Cardinality(S) \in Nat
  BY CourseAssumption, FS_Subset, FS_CardinalityType
<1>2. [1 .. Cardinality(S) -> S] \subseteq Seq(Course)
  BY <1>1, SeqDef
<1> QED BY <1>2 DEF Listings

(* What a search finds is a list of courses. *)
LEMMA SublistsType ==
    ASSUME NEW list \in Seq(Course)
    PROVE  Sublists(list) \subseteq Seq(Course)
<1> SUFFICES ASSUME NEW n \in 0 .. Len(list), NEW f \in Increasing(n, Len(list))
             PROVE  [k \in 1 .. n |-> list[f[k]]] \in Seq(Course)
  BY DEF Sublists
<1>1. n \in Nat /\ f \in [1 .. n -> 1 .. Len(list)]
  BY LenProperties DEF Increasing
<1>2. \A k \in 1 .. n : list[f[k]] \in Course
  BY <1>1, ElementOfSeq
<1>3. [k \in 1 .. n |-> list[f[k]]] \in [1 .. n -> Course]
  BY <1>2
<1> QED BY <1>1, <1>3, SeqDef

(* The label text is about periods and numbers of courses. *)
LEMMA LabelType ==
    ASSUME NEW sched \in Schedules
    PROVE  LET text == periodLabelTextGenerator(sched)
           IN  /\ DOMAIN text \subseteq Nat
               /\ \A p \in DOMAIN text : text[p] \in Nat
<1> DEFINE load  == sched.courseLoad
           At(p) == {i \in DOMAIN load : period[load[i]] = p}
<1>1. load \in Seq(Course) /\ Len(load) \in Nat /\ DOMAIN load = 1 .. Len(load)
  BY LenProperties DEF Schedules
<1>2. \A i \in DOMAIN load : period[load[i]] \in Nat
  BY <1>1, ElementOfSeq, CourseAssumption
<1>3. IsFiniteSet(DOMAIN load)
  BY <1>1, FS_Interval
<1>4. ASSUME NEW p PROVE Cardinality(At(p)) \in Nat
  BY <1>3, FS_Subset, FS_CardinalityType
<1> HIDE DEF At
<1>5. periodLabelTextGenerator(sched) =
         [p \in {period[load[i]] : i \in DOMAIN load} |-> Cardinality(At(p))]
  BY DEF periodLabelTextGenerator, At
<1> QED BY <1>2, <1>4, <1>5
-----------------------------------------------------------------------------
(* In a schedule without clashes a course stands at one place only. *)
LEMMA ClashFreeDistinct ==
    ASSUME NEW sched \in Schedules, ClashFree(sched)
    PROVE  LET load == sched.courseLoad
           IN  \A i, j \in 1 .. Len(load) : load[i] = load[j] => i = j
<1>1. sched.courseLoad \in Seq(Course)
  BY DEF Schedules
<1>2. DOMAIN sched.courseLoad = 1 .. Len(sched.courseLoad)
  BY <1>1, LenProperties
<1> QED BY <1>2 DEF ClashFree

(* What is in a list after remove(at:), when nothing stands in it twice. *)
LEMMA RemoveAtContains ==
    ASSUME NEW load \in Seq(Course), NEW k \in 1 .. Len(load),
           \A i, j \in 1 .. Len(load) : load[i] = load[j] => i = j,
           NEW d
    PROVE  Contains(RemoveAt(load, k), d) <=> Contains(load, d) /\ d # load[k]
<1> DEFINE new == RemoveAt(load, k)
<1>0. Len(load) \in Nat /\ k \in Nat /\ k <= Len(load) /\ 1 <= k
  BY LenProperties
<1>1. /\ Len(new) = Len(load) - 1
      /\ \A i \in 1 .. Len(load) - 1 : new[i] = IF i < k THEN load[i] ELSE load[i + 1]
  BY RemoveAtProperties
<1> HIDE DEF new
<1>2. ASSUME NEW i \in 1 .. Len(new) PROVE Contains(load, new[i]) /\ new[i] # load[k]
  <2>1. CASE i < k
    BY <1>0, <1>1, <2>1 DEF Contains
  <2>2. CASE ~(i < k)
    <3>1. i + 1 \in 1 .. Len(load) /\ i + 1 # k /\ new[i] = load[i + 1]
      BY <1>0, <1>1, <2>2
    <3> QED BY <3>1 DEF Contains
  <2> QED BY <2>1, <2>2
<1>3. ASSUME NEW i \in 1 .. Len(load), load[i] # load[k]
      PROVE  \E j \in 1 .. Len(new) : new[j] = load[i]
  <2>1. CASE i < k
    BY <1>0, <1>1, <2>1
  <2>2. CASE ~(i < k)
    <3>1. i - 1 \in 1 .. Len(new) /\ ~(i - 1 < k) /\ (i - 1) + 1 = i
      BY <1>0, <1>1, <1>3, <2>2
    <3> QED BY <1>1, <3>1
  <2> QED BY <2>1, <2>2
<1> QED BY <1>2, <1>3 DEF Contains, new

(* What is in a list after append(_:). *)
LEMMA AppendContains ==
    ASSUME NEW load \in Seq(Course), NEW c \in Course, NEW d
    PROVE  Contains(Append(load, c), d) <=> Contains(load, d) \/ d = c
<1> DEFINE new == Append(load, c)
<1>1. /\ Len(load) \in Nat /\ Len(new) = Len(load) + 1
      /\ \A i \in 1 .. Len(load) : new[i] = load[i]
      /\ new[Len(load) + 1] = c
  BY AppendProperties, LenProperties
<1> HIDE DEF new
<1>2. Contains(new, d) => Contains(load, d) \/ d = c
  BY <1>1 DEF Contains
<1>3. Contains(load, d) \/ d = c => Contains(new, d)
  BY <1>1 DEF Contains
<1> QED BY <1>2, <1>3 DEF new

(* A search finds a course once when the list has it once. *)
LEMMA SublistsDistinct ==
    ASSUME NEW list \in Seq(Course), IsInjective(list), NEW q \in Sublists(list)
    PROVE  IsInjective(q)
<1>1. PICK n \in 0 .. Len(list) : \E f \in Increasing(n, Len(list)) :
                                     q = [k \in 1 .. n |-> list[f[k]]]
  BY DEF Sublists
<1>2. PICK f \in Increasing(n, Len(list)) : q = [k \in 1 .. n |-> list[f[k]]]
  BY <1>1
<1>3. /\ n \in Nat /\ f \in [1 .. n -> 1 .. Len(list)]
      /\ \A i, j \in 1 .. n : i < j => f[i] < f[j]
  BY <1>2, LenProperties DEF Increasing
<1>4. DOMAIN list = 1 .. Len(list) /\ Len(list) \in Nat
  BY LenProperties
<1> SUFFICES ASSUME NEW i \in 1 .. n, NEW j \in 1 .. n, q[i] = q[j] PROVE i = j
  BY <1>2 DEF IsInjective
<1>5. f[i] \in 1 .. Len(list) /\ f[j] \in 1 .. Len(list) /\ f[i] = f[j]
  BY <1>2, <1>3, <1>4 DEF IsInjective
<1> QED BY <1>3, <1>4, <1>5

-----------------------------------------------------------------------------
(* The inductive invariant.  The schedule a hand-off brings must be free   *)
(* of clashes before it arrives, and nothing but the hand-off brings one.  *)
HandOffSound == handOff.schedule # Nil => ClashFree(handOff.schedule)

ScheduleSound == currentUserSchedule # Nil => handOff.ran

Inv == TypeOK /\ NoPeriodClash /\ HandOffSound /\ ScheduleSound

(* The limit of the schedule is the one of the school it was made for.     *)
(* This is a part of its own: it is not kept when AddClass returns to      *)
(* another school than it was opened for (SignUp).                         *)
LimitOfSchool ==
    \A sched \in {handOff.schedule, currentUserSchedule} \ {Nil} :
        sched.maxCourseCount = MaxStudentCourseLoad[handOff.school]

-----------------------------------------------------------------------------
(* The list a tap is answered from is a list of courses. *)
LEMMA SourceType ==
    (/\ userSchool \in {Nil} \cup SchoolValues
     /\ searchResults \in Seq(Course)
     /\ showAllCourses \in BOOLEAN
     /\ ~NoSource) => Source \in Seq(Course)
  BY DEF Source, NoSource, courses, SchoolValues

(* What the data source gives for a row is a cell. *)
LEMMA CellType ==
    ASSUME userSchool \in {Nil} \cup SchoolValues,
           searchResults \in Seq(Course),
           showAllCourses \in BOOLEAN,
           NEW i \in 1 .. numberOfRows
    PROVE  cellForRow(i) \in Cells
<1>1. CASE NoSource
  BY <1>1 DEF cellForRow, Cells
<1>2. CASE ~NoSource
  <2>1. Source[i] \in Course
    BY <1>2, SourceType, ElementOfSeq DEF numberOfRows
  <2>2. Contains(currentUserSchedule.courseLoad, Source[i]) \in BOOLEAN
    BY DEF Contains
  <2> HIDE DEF Contains
  <2> QED BY <1>2, <2>1, <2>2 DEF cellForRow, Cells
<1> QED BY <1>1, <1>2

(* What the table shows after a reload is a list of cells. *)
LEMMA TableType ==
    (/\ userSchool \in {Nil} \cup SchoolValues
     /\ currentUserSchedule \in {Nil} \cup Schedules
     /\ searchResults \in Seq(Course)
     /\ showAllCourses \in BOOLEAN) => Table \in Seq(Cells)
<1> SUFFICES ASSUME userSchool \in {Nil} \cup SchoolValues,
                    currentUserSchedule \in {Nil} \cup Schedules,
                    searchResults \in Seq(Course),
                    showAllCourses \in BOOLEAN
             PROVE  Table \in Seq(Cells)
  OBVIOUS
<1>1. numberOfRows \in Nat
  BY SourceType, LenProperties DEF numberOfRows
<1>2. ASSUME NEW i \in 1 .. numberOfRows PROVE cellForRow(i) \in Cells
  BY CellType
<1>3. Table \in [1 .. numberOfRows -> Cells]
  BY <1>2 DEF Table
<1> QED BY <1>1, <1>3, SeqDef

(* The same of the state after a step. *)
LEMMA TableTypeNext ==
    (/\ userSchool' \in {Nil} \cup SchoolValues
     /\ currentUserSchedule' \in {Nil} \cup Schedules
     /\ searchResults' \in Seq(Course)
     /\ showAllCourses' \in BOOLEAN) => Table' \in Seq(Cells)
<1>1. ((/\ userSchool \in {Nil} \cup SchoolValues
        /\ currentUserSchedule \in {Nil} \cup Schedules
        /\ searchResults \in Seq(Course)
        /\ showAllCourses \in BOOLEAN) => Table \in Seq(Cells))'
  BY TableType, PTL
<1> QED BY <1>1

(* A tap keeps a schedule a schedule without clashes, of the same maximum. *)
LEMMA TappedSound ==
    ASSUME NEW sched \in Schedules, sched # Nil, ClashFree(sched), NEW c \in Course
    PROVE  /\ Tapped(sched, c) \in Schedules
           /\ ClashFree(Tapped(sched, c))
           /\ Tapped(sched, c).maxCourseCount = sched.maxCourseCount
<1>0. sched.courseLoad \in Seq(Course)
  BY DEF Schedules
<1>1. CASE Contains(sched.courseLoad, c)
  <2>1. FirstIndex(sched.courseLoad, c) \in 1 .. Len(sched.courseLoad)
    BY <1>0, <1>1, FirstIndexProperties
  <2>2. Tapped(sched, c) = [sched EXCEPT !.courseLoad =
                 RemoveAt(sched.courseLoad, FirstIndex(sched.courseLoad, c))]
    BY <1>1 DEF Tapped
  <2>3. Tapped(sched, c).maxCourseCount = sched.maxCourseCount
    BY <2>2 DEF Schedules
  <2> QED BY <2>1, <2>2, <2>3, RemoveKeepsClashFree
<1>2. CASE ~Contains(sched.courseLoad, c) /\ verifyNewCourseToSchedule(c, sched)
  <2>2. Tapped(sched, c) = [sched EXCEPT !.courseLoad = Append(sched.courseLoad, c)]
    BY <1>2 DEF Tapped
  <2>3. Tapped(sched, c).maxCourseCount = sched.maxCourseCount
    BY <2>2 DEF Schedules
  <2> QED BY <1>2, <2>2, <2>3, AppendKeepsClashFree
<1>3. CASE ~Contains(sched.courseLoad, c) /\ ~verifyNewCourseToSchedule(c, sched)
  BY <1>3 DEF Tapped
<1> QED BY <1>1, <1>2, <1>3

(* A course list answer is a list of courses. *)
LEMMA AnswerType == CourseListAnswers \subseteq Seq(Course)
  BY ListingsType DEF CourseListAnswers, CoursesOf

-----------------------------------------------------------------------------
(* An instance as presented has the types of the screen. *)
LEMMA FreshScreenType == FreshScreen /\ handOff \in HandOffs => ScreenTypeOK
<1> SUFFICES ASSUME FreshScreen, handOff \in HandOffs PROVE ScreenTypeOK
  OBVIOUS
<1>1. rows \in Seq(Cells)
  BY TableType, EmptySeq DEF FreshScreen
<1>2. DOMAIN periods \subseteq Nat /\ \A p \in DOMAIN periods : periods[p] \in Nat
  BY DEF FreshScreen, NoCoursesSelected
<1> QED BY <1>1, <1>2, EmptySeq DEF FreshScreen, ScreenTypeOK, ErrorTexts

LEMMA InitInv == Init => Inv /\ LimitOfSchool
<1> SUFFICES ASSUME Init PROVE Inv /\ LimitOfSchool
  OBVIOUS
<1>1. PICK s \in School : /\ handOff \in Presented(s)
                          /\ newUserData = [school |-> SchoolWith(s, Nil), schedule |-> Nil]
  BY DEF Init
<1>2. \A S \in SUBSET Course : Listings(S) \subseteq Seq(Course)
  BY ListingsType
<1>3. SchedulesReturned(s) \subseteq {x \in Schedules :
         ClashFree(x) /\ x.maxCourseCount = MaxStudentCourseLoad[s]}
  BY <1>2, SchoolAssumption DEF SchedulesReturned, Schedules, Schedule
<1>4. handOff \in HandOffs /\ HandOffSound
  BY <1>1, <1>3 DEF Presented, HandOffs, HandOffSound
<1>7. LimitOfSchool
  BY <1>1, <1>3 DEF Presented, Init, FreshScreen, LimitOfSchool
<1>5. AppTypeOK
  BY <1>1 DEF Init, AppTypeOK, Screens, SchoolWith, SchoolValues
<1>6. ScreenTypeOK
  BY <1>4, FreshScreenType DEF Init
<1> QED BY <1>4, <1>5, <1>6, <1>7
        DEF Inv, TypeOK, Init, FreshScreen, NoPeriodClash, ScheduleSound

LEMMA viewDidAppearInv == Inv /\ viewDidAppear => Inv'
<1> SUFFICES ASSUME Inv, viewDidAppear PROVE Inv'
  OBVIOUS
<1>1. rows' \in Seq(Cells)
  BY TableType DEF Inv, TypeOK, ScreenTypeOK, viewDidAppear
<1> QED BY <1>1 DEF Inv, TypeOK, AppTypeOK, ScreenTypeOK, viewDidAppear, appVars,
                   NoPeriodClash, HandOffSound, ScheduleSound

LEMMA SelectorHandOffInv ==
    ASSUME Inv, NEW list \in CourseListAnswers, SelectorHandOff(list)
    PROVE  Inv'
<1>1. list \in Seq(Course)
  BY AnswerType
<1>2. handOff.school \in School /\ MaxStudentCourseLoad[handOff.school] \in Nat
  BY SchoolAssumption DEF Inv, TypeOK, ScreenTypeOK, HandOffs
<1>3. userSchool' \in SchoolValues
  BY <1>1, <1>2 DEF SelectorHandOff, SchoolWith, SchoolValues
<1>4. currentUserSchedule' \in Schedules /\ ClashFree(currentUserSchedule')
  BY <1>2, EmptySeq DEF SelectorHandOff, Schedule, Schedules, ClashFree
<1>5. /\ handOff' \in HandOffs /\ handOff'.ran
      /\ handOff'.school = handOff.school /\ handOff'.schedule = handOff.schedule
  BY DEF Inv, TypeOK, ScreenTypeOK, HandOffs, SelectorHandOff
<1>6. TypeOK'
  BY <1>3, <1>4, <1>5 DEF Inv, TypeOK, AppTypeOK, ScreenTypeOK, SelectorHandOff, appVars
<1> QED BY <1>4, <1>5, <1>6 DEF Inv, NoPeriodClash, HandOffSound, ScheduleSound

LEMMA AddClassHandOffInv ==
    ASSUME Inv, NEW list \in CourseListAnswers, AddClassHandOff(list)
    PROVE  Inv'
<1>1. list \in Seq(Course)
  BY AnswerType
<1>2. handOff.school \in School
  BY DEF Inv, TypeOK, ScreenTypeOK, HandOffs
<1>3. userSchool' \in SchoolValues
  BY <1>1, <1>2 DEF AddClassHandOff, SchoolWith, SchoolValues
<1>4. currentUserSchedule' \in {Nil} \cup Schedules
  BY DEF AddClassHandOff, Inv, TypeOK, ScreenTypeOK, HandOffs
<1>5. /\ handOff' \in HandOffs /\ handOff'.ran
      /\ handOff'.school = handOff.school /\ handOff'.schedule = handOff.schedule
  BY DEF Inv, TypeOK, ScreenTypeOK, HandOffs, AddClassHandOff
<1>6. rows' \in Seq(Cells)
  BY <1>3, <1>4, TableTypeNext DEF AddClassHandOff, Inv, TypeOK, ScreenTypeOK
<1>7. errors' \in [text : ErrorTexts, isHidden : BOOLEAN]
  BY DEF AddClassHandOff, Inv, TypeOK, ScreenTypeOK, ErrorTexts
<1>8. TypeOK'
  BY <1>3, <1>4, <1>5, <1>6, <1>7
  DEF Inv, TypeOK, AppTypeOK, ScreenTypeOK, AddClassHandOff, appVars
<1> QED BY <1>5, <1>8 DEF Inv, NoPeriodClash, HandOffSound, ScheduleSound, AddClassHandOff

LEMMA ScrollInv ==
    ASSUME Inv, NEW i \in DOMAIN rows, Scroll(i)
    PROVE  Inv'
<1>1. i \in 1 .. Len(rows) /\ Len(rows) \in Nat
  BY LenProperties DEF Inv, TypeOK, ScreenTypeOK
<1>2. ASSUME ~Beyond(i) PROVE cellForRow(i) \in Cells
  <2>1. CASE NoSource
    BY <2>1 DEF cellForRow, Cells
  <2>2. CASE ~NoSource
    <3>1. Source \in Seq(Course)
      BY <2>2, SourceType DEF Inv, TypeOK, ScreenTypeOK
    <3>2. i \in 1 .. numberOfRows
      BY <1>1, <1>2, <2>2, <3>1, LenProperties DEF Beyond, numberOfRows
    <3> QED BY <3>2, CellType DEF Inv, TypeOK, ScreenTypeOK
  <2> QED BY <2>1, <2>2
<1>3. rows' \in Seq(Cells) /\ crashed' \in BOOLEAN
  <2>1. CASE Beyond(i)
    BY <2>1 DEF Scroll, Inv, TypeOK, ScreenTypeOK
  <2>2. CASE ~Beyond(i)
    <3>1. rows \in Seq(Cells) /\ cellForRow(i) \in Cells
      BY <1>2, <2>2 DEF Inv, TypeOK, ScreenTypeOK
    <3>2. [rows EXCEPT ![i] = cellForRow(i)] \in Seq(Cells)
      BY <1>1, <3>1, ExceptSeq
    <3> QED BY <2>2, <3>2 DEF Scroll, Inv, TypeOK, AppTypeOK
  <2> QED BY <2>1, <2>2
<1>4. TypeOK'
  BY <1>3 DEF Inv, TypeOK, AppTypeOK, ScreenTypeOK, Scroll
<1> QED BY <1>4 DEF Inv, NoPeriodClash, HandOffSound, ScheduleSound, Scroll

(* A step that leaves the schedule and the hand-off alone only has to keep *)
(* the types.                                                              *)
LEMMA SoundKept ==
    ASSUME Inv, TypeOK', UNCHANGED <<currentUserSchedule, handOff>>
    PROVE  Inv'
  BY DEF Inv, NoPeriodClash, HandOffSound, ScheduleSound

LEMMA didSelectRowInv ==
    ASSUME Inv, NEW i \in DOMAIN rows, didSelectRow(i)
    PROVE  Inv'
<1>0. AppTypeOK /\ ScreenTypeOK
  BY DEF Inv, TypeOK
<1>1. i \in 1 .. Len(rows) /\ Len(rows) \in Nat /\ rows \in Seq(Cells)
  BY <1>0, LenProperties DEF ScreenTypeOK
<1>2. /\ UNCHANGED <<newUserData, top, userSchool, searchResults, showAllCourses>>
      /\ UNCHANGED <<appeared, asked, alerted, handOff>>
  BY DEF didSelectRow
<1>3. CASE \/ courses = Nil /\ Complain("no courses")
           \/ courses # Nil /\ currentUserSchedule = Nil /\ Complain("no schedule")
  <2>1. UNCHANGED <<crashed, currentUserSchedule, rows, periods>>
    BY <1>3 DEF Complain
  <2>2. errors' \in [text : ErrorTexts, isHidden : BOOLEAN]
    <3>1. \/ errors' = [text |-> "no courses", isHidden |-> FALSE]
          \/ errors' = [text |-> "no schedule", isHidden |-> FALSE]
      BY <1>3, Zenon DEF Complain
    <3>2. "no courses" \in ErrorTexts /\ "no schedule" \in ErrorTexts
      BY DEF ErrorTexts
    <3>3. \A t \in ErrorTexts :
             [text |-> t, isHidden |-> FALSE] \in [text : ErrorTexts, isHidden : BOOLEAN]
      BY Zenon
    <3> QED BY <3>1, <3>2, <3>3, Zenon
  <2>3. TypeOK'
    BY <1>0, <1>2, <2>1, <2>2 DEF TypeOK, AppTypeOK, ScreenTypeOK
  <2> QED BY <1>2, <2>1, <2>3, SoundKept
<1>4. CASE /\ courses # Nil /\ currentUserSchedule # Nil /\ Beyond(i)
           /\ crashed' = TRUE
           /\ UNCHANGED <<currentUserSchedule, rows, periods, errors>>
  <2>1. TypeOK'
    BY <1>0, <1>2, <1>4 DEF TypeOK, AppTypeOK, ScreenTypeOK
  <2> QED BY <1>2, <1>4, <2>1, SoundKept
<1>5. CASE courses # Nil /\ currentUserSchedule # Nil /\ ~Beyond(i) /\ Toggle(i)
  <2>1. Source[i] \in Course
    <3>1. ~NoSource /\ Source \in Seq(Course)
      BY <1>0, <1>5, SourceType DEF NoSource, ScreenTypeOK
    <3>2. Len(Source) \in Nat /\ ~(i > Len(Source))
      BY <1>5, <3>1, LenProperties DEF Beyond
    <3> QED BY <1>1, <3>1, <3>2, ElementOfSeq
  <2>2. /\ currentUserSchedule' \in Schedules
        /\ ClashFree(currentUserSchedule')
    <3>1. currentUserSchedule \in Schedules /\ ClashFree(currentUserSchedule)
      BY <1>0, <1>5 DEF ScreenTypeOK, Inv, NoPeriodClash
    <3> QED BY <1>5, <2>1, <3>1, TappedSound DEF Toggle
  <2>3. DOMAIN periods' \subseteq Nat /\ \A p \in DOMAIN periods' : periods'[p] \in Nat
    BY <1>5, <2>2, LabelType DEF Toggle
  <2>4. rows' \in Seq(Cells)
    <3>1. rows[i] \in Cells
      BY <1>1, ElementOfSeq
    <3>2. Checked(currentUserSchedule, Source[i]) \in BOOLEAN
      BY DEF Checked, Contains, verifyNewCourseToSchedule
    <3>3. [rows[i] EXCEPT !.check = Checked(currentUserSchedule, Source[i])] \in Cells
      BY <3>1, <3>2 DEF Cells
    <3>4. rows' = [rows EXCEPT ![i] =
                     [rows[i] EXCEPT !.check = Checked(currentUserSchedule, Source[i])]]
      BY <1>1, <1>5 DEF Toggle
    <3> QED BY <1>1, <3>3, <3>4, ExceptSeq
  <2>5. errors' \in [text : ErrorTexts, isHidden : BOOLEAN]
    BY <1>0, <1>5 DEF Toggle, ScreenTypeOK, ErrorTexts
  <2>6. crashed' = crashed
    BY <1>5 DEF Toggle
  <2>7. TypeOK'
    BY <1>0, <1>2, <2>2, <2>3, <2>4, <2>5, <2>6 DEF TypeOK, AppTypeOK, ScreenTypeOK
  <2> QED BY <1>2, <1>5, <2>2, <2>7 DEF Inv, NoPeriodClash, HandOffSound, ScheduleSound
<1> QED BY <1>3, <1>4, <1>5 DEF didSelectRow

LEMMA searchBarInv ==
    ASSUME Inv,
           searchBarTextDidBeginEditing \/ searchBarTextDidEndEditing \/ textDidChange
    PROVE  Inv'
<1>0. AppTypeOK /\ ScreenTypeOK
  BY DEF Inv, TypeOK
<1>1. /\ UNCHANGED <<newUserData, top, crashed, userSchool, currentUserSchedule>>
      /\ UNCHANGED <<periods, errors, appeared, asked, alerted, handOff>>
  BY DEF searchBarTextDidBeginEditing, searchBarTextDidEndEditing, textDidChange, appVars
<1>2. searchResults' \in Seq(Course) /\ showAllCourses' \in BOOLEAN
  <2>1. courses # Nil => courses \in Seq(Course)
    BY <1>0 DEF courses, SchoolValues, ScreenTypeOK
  <2>2. <<>> \in Seq(Course)
    BY EmptySeq
  <2> QED BY <1>0, <2>1, <2>2, SublistsType
          DEF searchBarTextDidBeginEditing, searchBarTextDidEndEditing, textDidChange,
              ScreenTypeOK
<1>3. rows' \in Seq(Cells)
  <2>1. Table' \in Seq(Cells)
    BY <1>0, <1>1, <1>2, TableTypeNext DEF ScreenTypeOK
  <2> QED BY <1>0, <2>1
          DEF searchBarTextDidBeginEditing, searchBarTextDidEndEditing, textDidChange,
              ScreenTypeOK
<1>4. TypeOK'
  BY <1>0, <1>1, <1>2, <1>3 DEF TypeOK, AppTypeOK, ScreenTypeOK
<1> QED BY <1>1, <1>4, SoundKept

LEMMA leaveInv ==
    ASSUME Inv, addClass \/ Continue \/ \E sch \in asked : FacultyAnswer(sch)
    PROVE  Inv'
<1>0. AppTypeOK /\ ScreenTypeOK
  BY DEF Inv, TypeOK
<1>1. CASE addClass
  <2>1. newUserData.school # Nil => newUserData.school \in SchoolValues
    BY <1>0 DEF AppTypeOK
  <2>2. asked' \subseteq SchoolValues /\ alerted' \in BOOLEAN
    BY <1>0, <1>1, <2>1 DEF addClass, ScreenTypeOK
  <2>3. /\ UNCHANGED <<newUserData, top, crashed, userSchool, currentUserSchedule, searchResults>>
        /\ UNCHANGED <<showAllCourses, rows, periods, errors, appeared, handOff>>
    BY <1>1 DEF addClass, appVars
  <2>4. TypeOK'
    BY <1>0, <2>2, <2>3 DEF TypeOK, AppTypeOK, ScreenTypeOK
  <2> QED BY <2>3, <2>4, SoundKept
<1>2. CASE Continue
  <2>1. newUserData' = newUserData /\ top' = "FinalSetup" /\ UNCHANGED crashed
    BY <1>2 DEF Continue, prepare
  <2>2. UNCHANGED screenVars
    BY <1>2 DEF Continue
  <2>3. AppTypeOK' /\ ScreenTypeOK'
    BY <1>0, <2>1, <2>2 DEF AppTypeOK, ScreenTypeOK, screenVars, Screens
  <2> QED BY <2>2, <2>3, SoundKept DEF TypeOK, screenVars
<1>3. ASSUME NEW sch \in asked, FacultyAnswer(sch) PROVE Inv'
  <2>1. /\ userSchool' = sch /\ top' = "AddClass" /\ asked' = asked \ {sch}
        /\ UNCHANGED <<newUserData, crashed, currentUserSchedule, searchResults>>
        /\ UNCHANGED <<showAllCourses, rows, periods, errors, appeared, alerted, handOff>>
    BY <1>3 DEF FacultyAnswer
  <2>2. AppTypeOK' /\ ScreenTypeOK'
    BY <1>0, <2>1 DEF AppTypeOK, ScreenTypeOK, Screens
  <2> QED BY <2>1, <2>2, SoundKept DEF TypeOK
<1> QED BY <1>1, <1>2, <1>3

LEMMA NextInv == Inv /\ [Next]_vars => Inv'
<1> SUFFICES ASSUME Inv, [Next]_vars PROVE Inv'
  OBVIOUS
<1>1. CASE Touch
  BY <1>1, didSelectRowInv, ScrollInv, searchBarInv, leaveInv DEF Touch
<1>2. CASE Answer
  BY <1>2, viewDidAppearInv, SelectorHandOffInv, AddClassHandOffInv, leaveInv DEF Answer
<1>3. CASE UNCHANGED vars
  <2>1. TypeOK'
    BY <1>3 DEF vars, appVars, screenVars, Inv, TypeOK, AppTypeOK, ScreenTypeOK
  <2> QED BY <1>3, <2>1, SoundKept DEF vars, screenVars
<1> QED BY <1>1, <1>2, <1>3 DEF Next

(* What a step can do to the schedule: nothing, what the hand-off does, or *)
(* what a tap on a row does to the course the row stands for.              *)
LEMMA ScheduleStep ==
    ASSUME Inv, [Next]_vars
    PROVE  \/ UNCHANGED <<currentUserSchedule, handOff>>
           \/ /\ handOff' = [handOff EXCEPT !.ran = TRUE]
              /\ currentUserSchedule = Nil
              /\ \/ currentUserSchedule' = Schedule(MaxStudentCourseLoad[handOff.school], <<>>)
                 \/ currentUserSchedule' = handOff.schedule
           \/ \E i \in DOMAIN rows :
                 /\ didSelectRow(i) /\ Toggle(i) /\ courses # Nil
                 /\ currentUserSchedule # Nil /\ ~Beyond(i) /\ handOff' = handOff
<1>1. ASSUME NEW i \in DOMAIN rows, didSelectRow(i)
      PROVE  \/ UNCHANGED <<currentUserSchedule, handOff>>
             \/ /\ Toggle(i) /\ courses # Nil
                /\ currentUserSchedule # Nil /\ ~Beyond(i) /\ handOff' = handOff
  BY <1>1 DEF didSelectRow, Complain
<1>2. CASE Touch
  <2>1. CASE \E i \in DOMAIN rows : didSelectRow(i)
    BY <1>1, <2>1
  <2>2. CASE \E i \in DOMAIN rows : Scroll(i)
    BY <2>2 DEF Scroll
  <2>3. CASE searchBarTextDidBeginEditing \/ searchBarTextDidEndEditing \/ textDidChange
    BY <2>3 DEF searchBarTextDidBeginEditing, searchBarTextDidEndEditing, textDidChange
  <2>4. CASE addClass \/ Continue
    BY <2>4 DEF addClass, Continue, screenVars
  <2> QED BY <1>2, <2>1, <2>2, <2>3, <2>4 DEF Touch
<1>3. CASE Answer
  <2>1. CASE viewDidAppear
    BY <2>1 DEF viewDidAppear
  <2>2. ASSUME NEW list \in CourseListAnswers, SelectorHandOff(list)
        PROVE  /\ handOff' = [handOff EXCEPT !.ran = TRUE]
               /\ currentUserSchedule = Nil
               /\ currentUserSchedule' = Schedule(MaxStudentCourseLoad[handOff.school], <<>>)
    BY <2>2 DEF SelectorHandOff, Inv, ScheduleSound
  <2>3. ASSUME NEW list \in CourseListAnswers, AddClassHandOff(list)
        PROVE  /\ handOff' = [handOff EXCEPT !.ran = TRUE]
               /\ currentUserSchedule = Nil
               /\ currentUserSchedule' = handOff.schedule
    BY <2>3 DEF AddClassHandOff, Inv, ScheduleSound
  <2>4. CASE \E sch \in asked : FacultyAnswer(sch)
    BY <2>4 DEF FacultyAnswer
  <2> QED BY <1>3, <2>1, <2>2, <2>3, <2>4 DEF Answer
<1>4. CASE UNCHANGED vars
  BY <1>4 DEF vars, screenVars
<1> QED BY <1>2, <1>3, <1>4 DEF Next

(* The course of the row that a tap was answered for *)
LEMMA TappedCourse ==
    ASSUME Inv, NEW i \in DOMAIN rows, courses # Nil, ~Beyond(i)
    PROVE  ~NoSource /\ Source \in Seq(Course) /\ i \in 1 .. Len(Source) /\ Source[i] \in Course
<1>0. ScreenTypeOK
  BY DEF Inv, TypeOK
<1>1. ~NoSource /\ Source \in Seq(Course)
  BY <1>0, SourceType DEF NoSource, ScreenTypeOK
<1>2. i \in 1 .. Len(rows) /\ Len(rows) \in Nat
  BY <1>0, LenProperties DEF ScreenTypeOK
<1>3. Len(Source) \in Nat /\ ~(i > Len(Source))
  BY <1>1, LenProperties DEF Beyond
<1> QED BY <1>1, <1>2, <1>3, ElementOfSeq

LEMMA LimitNext == Inv /\ LimitOfSchool /\ [Next]_vars => LimitOfSchool'
<1> SUFFICES ASSUME Inv, LimitOfSchool, [Next]_vars PROVE LimitOfSchool'
  OBVIOUS
<1>1. CASE UNCHANGED <<currentUserSchedule, handOff>>
  BY <1>1 DEF LimitOfSchool
<1>2. CASE /\ handOff' = [handOff EXCEPT !.ran = TRUE]
           /\ \/ currentUserSchedule' = Schedule(MaxStudentCourseLoad[handOff.school], <<>>)
              \/ currentUserSchedule' = handOff.schedule
  <2>1. handOff'.school = handOff.school /\ handOff'.schedule = handOff.schedule
    BY <1>2 DEF Inv, TypeOK, ScreenTypeOK, HandOffs
  <2>2. \/ currentUserSchedule' = handOff.schedule
        \/ currentUserSchedule'.maxCourseCount = MaxStudentCourseLoad[handOff.school]
    BY <1>2 DEF Schedule
  <2> QED BY <2>1, <2>2 DEF LimitOfSchool
<1>3. ASSUME NEW i \in DOMAIN rows, Toggle(i), courses # Nil,
             currentUserSchedule # Nil, ~Beyond(i), handOff' = handOff
      PROVE  LimitOfSchool'
  <2>1. currentUserSchedule \in Schedules /\ ClashFree(currentUserSchedule)
    BY <1>3 DEF Inv, TypeOK, ScreenTypeOK, NoPeriodClash
  <2>2. currentUserSchedule'.maxCourseCount = currentUserSchedule.maxCourseCount
    BY <1>3, <2>1, TappedCourse, TappedSound DEF Toggle
  <2> QED BY <1>3, <2>2 DEF LimitOfSchool
<1> QED BY <1>1, <1>2, <1>3, ScheduleStep

-----------------------------------------------------------------------------
(* What the rows show *)

(* CheckmarksTruthful is not inductive by itself: a tap sets the checkmark *)
(* of the tapped row only, so the row must stand for the course the tap is *)
(* answered for, and no other row may show this course.                    *)
CellTruthful(cell) ==
    /\ cell.kind = "course" => (cell.check <=> Selected(cell.course))
    /\ cell.kind = "noSchedule" => currentUserSchedule = Nil

RowsTruthful == \A i \in DOMAIN rows : CellTruthful(rows[i])

RowsFollowSource ==
    ~NoSource /\ Source # <<>> =>
        \A i \in DOMAIN rows :
            rows[i].kind = "course" => i <= Len(Source) /\ rows[i].course = Source[i]

ListsDistinct == IsInjective(searchResults) /\ (courses # Nil => IsInjective(courses))

BeforeHandOff ==
    ~handOff.ran => /\ userSchool = Nil /\ searchResults = <<>>
                    /\ \A i \in DOMAIN rows : rows[i].kind = "noSchool"

RowsInv == RowsTruthful /\ (Live => RowsFollowSource /\ ListsDistinct /\ BeforeHandOff)

(* What a tap does to the schedule: the course it is answered for comes or *)
(* goes as its checkmark does, every other course stays as it is.          *)
LEMMA TappedContains ==
    ASSUME NEW sched \in Schedules, sched # Nil, ClashFree(sched), NEW c \in Course, NEW d
    PROVE  Contains(Tapped(sched, c).courseLoad, d)
              <=> IF d = c THEN Checked(sched, c) ELSE Contains(sched.courseLoad, d)
<1> DEFINE load == sched.courseLoad
<1>0. load \in Seq(Course)
  BY DEF Schedules
<1>1. CASE Contains(load, c)
  <2> DEFINE k == FirstIndex(load, c)
  <2>1. k \in 1 .. Len(load) /\ load[k] = c
    BY <1>0, <1>1, FirstIndexProperties
  <2>2. Tapped(sched, c).courseLoad = RemoveAt(load, k)
    BY <1>1 DEF Tapped, Schedules
  <2>3. \A i, j \in 1 .. Len(load) : load[i] = load[j] => i = j
    BY ClashFreeDistinct
  <2> HIDE DEF k, load
  <2>4. Contains(RemoveAt(load, k), d) <=> Contains(load, d) /\ d # load[k]
    BY <1>0, <2>1, <2>3, RemoveAtContains
  <2>5. ~Checked(sched, c)
    BY <1>1 DEF Checked, load
  <2> QED BY <2>1, <2>2, <2>4, <2>5 DEF load
<1>2. CASE ~Contains(load, c) /\ verifyNewCourseToSchedule(c, sched)
  <2>1. Tapped(sched, c).courseLoad = Append(load, c)
    BY <1>2 DEF Tapped, Schedules
  <2>2. Contains(Append(load, c), d) <=> Contains(load, d) \/ d = c
    BY <1>0, AppendContains
  <2>3. Checked(sched, c)
    BY <1>2 DEF Checked
  <2> QED BY <2>1, <2>2, <2>3
<1>3. CASE ~Contains(load, c) /\ ~verifyNewCourseToSchedule(c, sched)
  <2>1. Tapped(sched, c) = sched /\ ~Checked(sched, c)
    BY <1>3 DEF Tapped, Checked
  <2> QED BY <1>3, <2>1
<1> QED BY <1>1, <1>2, <1>3

(* A cell as the data source gives it is truthful and follows the source. *)
LEMMA CellSound ==
    ASSUME NEW i
    PROVE  /\ CellTruthful(cellForRow(i))
           /\ cellForRow(i).kind = "course" => cellForRow(i).course = Source[i]
           /\ NoSource => cellForRow(i).kind = "noSchool"
<1>1. CASE NoSource
  BY <1>1 DEF cellForRow, CellTruthful
<1>2. CASE ~NoSource /\ currentUserSchedule = Nil
  BY <1>2 DEF cellForRow, CellTruthful
<1>3. CASE ~NoSource /\ currentUserSchedule # Nil
  <2>1. cellForRow(i) = [kind |-> "course", course |-> Source[i],
                         check |-> Contains(currentUserSchedule.courseLoad, Source[i])]
    BY <1>3 DEF cellForRow
  <2>2. Selected(Source[i]) <=> Contains(currentUserSchedule.courseLoad, Source[i])
    BY <1>3 DEF Selected
  <2> QED BY <1>3, <2>1, <2>2 DEF CellTruthful
<1> QED BY <1>1, <1>2, <1>3

(* So is the whole table after a reload. *)
LEMMA Reloaded ==
    (/\ userSchool \in {Nil} \cup SchoolValues
     /\ searchResults \in Seq(Course)
     /\ showAllCourses \in BOOLEAN
     /\ rows = Table)
    => /\ RowsTruthful /\ RowsFollowSource
       /\ userSchool = Nil /\ searchResults = <<>> =>
             \A i \in DOMAIN rows : rows[i].kind = "noSchool"
<1> SUFFICES ASSUME userSchool \in {Nil} \cup SchoolValues,
                    searchResults \in Seq(Course),
                    showAllCourses \in BOOLEAN,
                    rows = Table
             PROVE  /\ RowsTruthful /\ RowsFollowSource
                    /\ userSchool = Nil /\ searchResults = <<>> =>
                          \A i \in DOMAIN rows : rows[i].kind = "noSchool"
  OBVIOUS
<1>1. DOMAIN rows = 1 .. numberOfRows /\ \A i \in DOMAIN rows : rows[i] = cellForRow(i)
  BY DEF Table
<1>2. ~NoSource => numberOfRows = Len(Source) /\ Len(Source) \in Nat
  BY SourceType, LenProperties DEF numberOfRows
<1>3. RowsTruthful
  BY <1>1, CellSound DEF RowsTruthful
<1>4. RowsFollowSource
  BY <1>1, <1>2, CellSound DEF RowsFollowSource
<1>5. ASSUME userSchool = Nil, searchResults = <<>>, ~NoSource PROVE DOMAIN rows = {}
  <2>1. Source = <<>>
    BY <1>5 DEF NoSource, Source, courses
  <2> QED BY <1>1, <1>2, <1>5, <2>1
<1> QED BY <1>1, <1>3, <1>4, <1>5, CellSound

(* The same of the state after a step. *)
LEMMA ReloadedNext ==
    (/\ userSchool' \in {Nil} \cup SchoolValues
     /\ searchResults' \in Seq(Course)
     /\ showAllCourses' \in BOOLEAN
     /\ rows' = Table')
    => /\ RowsTruthful' /\ RowsFollowSource'
       /\ userSchool' = Nil /\ searchResults' = <<>> =>
             \A i \in DOMAIN rows' : rows'[i].kind = "noSchool"
<1>1. ((/\ userSchool \in {Nil} \cup SchoolValues
        /\ searchResults \in Seq(Course)
        /\ showAllCourses \in BOOLEAN
        /\ rows = Table)
       => /\ RowsTruthful /\ RowsFollowSource
          /\ userSchool = Nil /\ searchResults = <<>> =>
                \A i \in DOMAIN rows : rows[i].kind = "noSchool")'
  BY Reloaded, PTL
<1> QED BY <1>1

(* A step that changes neither the rows nor what they are made from. *)
LEMMA RowsKept ==
    ASSUME RowsInv, Live' => Live,
           UNCHANGED <<userSchool, currentUserSchedule, searchResults, showAllCourses,
                       rows, handOff>>
    PROVE  RowsInv'
  BY DEF RowsInv, RowsTruthful, CellTruthful, Selected, RowsFollowSource, NoSource, Source,
         courses, ListsDistinct, BeforeHandOff

LEMMA EmptyDistinct == IsInjective(<<>>)
<1>1. DOMAIN <<>> = {}
  OBVIOUS
<1> QED BY <1>1 DEF IsInjective

LEMMA RowsInit == Init => RowsInv
<1> SUFFICES ASSUME Init PROVE RowsInv
  OBVIOUS
<1>1. RowsTruthful /\ RowsFollowSource /\ \A i \in DOMAIN rows : rows[i].kind = "noSchool"
  BY Reloaded, EmptySeq DEF Init, FreshScreen
<1>2. ListsDistinct
  BY EmptyDistinct DEF Init, FreshScreen, ListsDistinct, courses
<1> QED BY <1>1, <1>2 DEF Init, FreshScreen, RowsInv, BeforeHandOff

LEMMA viewDidAppearRows ==
    ASSUME Inv, RowsInv, viewDidAppear
    PROVE  RowsInv'
<1>1. /\ UNCHANGED <<userSchool, currentUserSchedule, searchResults>>
      /\ UNCHANGED <<showAllCourses, handOff>> /\ rows' = Table /\ Live
  BY DEF viewDidAppear
<1>2. Table' = Table
  BY <1>1 DEF Table, numberOfRows, cellForRow, NoSource, Source, courses
<1>3. /\ RowsTruthful' /\ RowsFollowSource'
      /\ userSchool' = Nil /\ searchResults' = <<>> =>
            \A i \in DOMAIN rows' : rows'[i].kind = "noSchool"
  BY <1>1, <1>2, ReloadedNext DEF Inv, TypeOK, ScreenTypeOK
<1>4. ListsDistinct'
  BY <1>1 DEF RowsInv, ListsDistinct, courses
<1>5. BeforeHandOff'
  BY <1>1, <1>3 DEF RowsInv, BeforeHandOff
<1> QED BY <1>3, <1>4, <1>5 DEF RowsInv

(* A course list that arrives lists no course twice. *)
LEMMA AnswerDistinct == \A list \in CourseListAnswers : IsInjective(list)
  BY DEF CourseListAnswers, Listings

LEMMA HandOffRows ==
    ASSUME Inv, Inv', RowsInv, NEW list \in CourseListAnswers,
           SelectorHandOff(list) \/ AddClassHandOff(list)
    PROVE  RowsInv'
<1>1. /\ Live /\ ~handOff.ran /\ userSchool' = SchoolWith(handOff.school, list)
      /\ UNCHANGED <<searchResults, showAllCourses>>
  BY DEF SelectorHandOff, AddClassHandOff
<1>2. handOff'.ran
  BY DEF SelectorHandOff, AddClassHandOff, Inv, TypeOK, ScreenTypeOK, HandOffs
<1>3. ListsDistinct'
  <2>1. courses' # Nil => courses' = list
    BY <1>1 DEF courses, SchoolWith
  <2> QED BY <1>1, <2>1, AnswerDistinct DEF RowsInv, ListsDistinct
<1>4. RowsTruthful' /\ RowsFollowSource'
  <2>1. CASE SelectorHandOff(list)
    <3>1. rows' = rows /\ \A i \in DOMAIN rows : rows[i].kind = "noSchool"
      BY <1>1, <2>1 DEF SelectorHandOff, RowsInv, BeforeHandOff
    <3> QED BY <3>1 DEF RowsTruthful, CellTruthful, RowsFollowSource
  <2>2. CASE AddClassHandOff(list)
    BY <2>2, ReloadedNext DEF AddClassHandOff, Inv, TypeOK, ScreenTypeOK
  <2> QED BY <2>1, <2>2
<1> QED BY <1>2, <1>3, <1>4 DEF RowsInv, BeforeHandOff

LEMMA ScrollRows ==
    ASSUME Inv, RowsInv, NEW i \in DOMAIN rows, Scroll(i)
    PROVE  RowsInv'
<1>0. /\ UNCHANGED <<top, userSchool, currentUserSchedule, searchResults>>
      /\ UNCHANGED <<showAllCourses, handOff>> /\ Live
  BY DEF Scroll, Touchable
<1>1. CASE Beyond(i)
  <2>1. rows' = rows /\ crashed' = TRUE
    BY <1>1 DEF Scroll
  <2> QED BY <1>0, <2>1, RowsKept DEF Live
<1>2. CASE ~Beyond(i)
  <2>1. rows' = [rows EXCEPT ![i] = cellForRow(i)]
    BY <1>2 DEF Scroll
  <2>2. /\ DOMAIN rows' = DOMAIN rows /\ rows'[i] = cellForRow(i)
        /\ \A j \in DOMAIN rows : j # i => rows'[j] = rows[j]
    BY <2>1
  <2>3. UNCHANGED <<NoSource, Source, courses>>
    BY <1>0 DEF NoSource, Source, courses
  <2>4. \A cell : CellTruthful(cell) => CellTruthful(cell)'
    BY <1>0 DEF CellTruthful, Selected
  <2>5. RowsTruthful'
    BY <2>2, <2>4, CellSound DEF RowsInv, RowsTruthful
  <2>6. ~NoSource => i <= Len(Source)
    <3>1. i \in Nat
      BY LenProperties DEF Inv, TypeOK, ScreenTypeOK
    <3>2. ~NoSource => Len(Source) \in Nat
      BY SourceType, LenProperties DEF Inv, TypeOK, ScreenTypeOK
    <3> QED BY <1>2, <3>1, <3>2 DEF Beyond
  <2>7. RowsFollowSource'
    <3>1. RowsFollowSource
      BY <1>0 DEF RowsInv
    <3>2. cellForRow(i).kind = "course" => cellForRow(i).course = Source[i]
      BY CellSound
    <3> QED BY <2>2, <2>3, <2>6, <3>1, <3>2 DEF RowsFollowSource
  <2>8. ListsDistinct'
    BY <1>0, <2>3 DEF RowsInv, ListsDistinct
  <2>9. BeforeHandOff'
    <3>1. ASSUME ~handOff.ran, ~NoSource PROVE FALSE
      <4>1. Source = <<>>
        BY <1>0, <3>1 DEF RowsInv, BeforeHandOff, NoSource, Source, courses
      <4>2. i \in 1 .. Len(rows) /\ Len(rows) \in Nat
        BY LenProperties DEF Inv, TypeOK, ScreenTypeOK
      <4> QED BY <2>6, <3>1, <4>1, <4>2
    <3>2. ~handOff.ran => cellForRow(i).kind = "noSchool"
      BY <3>1, CellSound
    <3> QED BY <1>0, <2>2, <3>2 DEF RowsInv, BeforeHandOff
  <2> QED BY <2>5, <2>7, <2>8, <2>9 DEF RowsInv
<1> QED BY <1>1, <1>2

(* A tap: the course goes in or out of the schedule, the row it was        *)
(* answered for gets its checkmark, and no other row shows this course.    *)
LEMMA ToggleRows ==
    ASSUME Inv, RowsInv, NEW i \in DOMAIN rows, didSelectRow(i), Toggle(i), courses # Nil,
           currentUserSchedule # Nil, ~Beyond(i)
    PROVE  RowsInv'
<1> DEFINE c == Source[i]
<1>0. /\ UNCHANGED <<top, userSchool, searchResults, showAllCourses, handOff>> /\ Live
      /\ handOff.ran
  BY DEF didSelectRow, Touchable, Inv, ScheduleSound
<1>1. ~NoSource /\ Source \in Seq(Course) /\ i \in 1 .. Len(Source) /\ c \in Course
  BY TappedCourse
<1>2. UNCHANGED <<NoSource, Source, courses>>
  BY <1>0 DEF NoSource, Source, courses
<1>3. /\ DOMAIN rows' = DOMAIN rows
      /\ rows'[i] = [rows[i] EXCEPT !.check = Checked(currentUserSchedule, c)]
      /\ \A j \in DOMAIN rows : j # i => rows'[j] = rows[j]
  BY DEF Toggle
<1>4. rows[i] \in Cells
  BY ElementOfSeq, LenProperties DEF Inv, TypeOK, ScreenTypeOK
<1>5. /\ rows'[i].kind = rows[i].kind /\ rows'[i].course = rows[i].course
      /\ rows'[i].check = Checked(currentUserSchedule, c)
  BY <1>3, <1>4 DEF Cells
<1>6. currentUserSchedule \in Schedules /\ ClashFree(currentUserSchedule)
  BY DEF Inv, TypeOK, ScreenTypeOK, NoPeriodClash
<1>7. currentUserSchedule' # Nil
  BY <1>1, <1>6, TappedSound, NilValueAssumption DEF Toggle
<1>8. \A d : Selected(d)' <=> IF d = c THEN Checked(currentUserSchedule, c) ELSE Selected(d)
  <2>1. \A d : Contains(currentUserSchedule'.courseLoad, d)
                 <=> IF d = c THEN Checked(currentUserSchedule, c)
                     ELSE Contains(currentUserSchedule.courseLoad, d)
    BY <1>1, <1>6, TappedContains DEF Toggle
  <2> QED BY <1>7, <2>1 DEF Selected
<1>9. RowsFollowSource /\ ListsDistinct /\ RowsTruthful
  BY <1>0 DEF RowsInv
<1>10. ASSUME NEW j \in DOMAIN rows, rows[j].kind = "course"
       PROVE  j <= Len(Source) /\ rows[j].course = Source[j]
  BY <1>1, <1>9, <1>10 DEF RowsFollowSource
<1>11. ASSUME NEW j \in DOMAIN rows, rows[j].kind = "course", rows[j].course = c
       PROVE  j = i
  <2>1. IsInjective(Source)
    BY <1>1, <1>9 DEF ListsDistinct, Source, NoSource
  <2>2. j \in Nat \ {0} /\ Len(Source) \in Nat /\ DOMAIN Source = 1 .. Len(Source)
    BY <1>1, LenProperties DEF Inv, TypeOK, ScreenTypeOK
  <2>3. j \in DOMAIN Source /\ i \in DOMAIN Source /\ Source[j] = Source[i]
    BY <1>1, <1>10, <1>11, <2>2
  <2> QED BY <2>1, <2>3 DEF IsInjective
<1>12. RowsTruthful'
  <2> SUFFICES ASSUME NEW j \in DOMAIN rows PROVE CellTruthful(rows[j])'
    BY <1>3 DEF RowsTruthful
  <2>1. rows'[j].kind = rows[j].kind /\ rows'[j].course = rows[j].course
    BY <1>3, <1>5
  <2>2. rows[j].kind # "noSchedule"
    BY <1>9 DEF RowsTruthful, CellTruthful
  <2>3. ASSUME rows[j].kind = "course"
        PROVE  rows'[j].check <=> Selected(rows[j].course)'
    <3>1. CASE j = i
      BY <1>5, <1>8, <1>10, <2>3, <3>1
    <3>2. CASE j # i
      <4>1. rows[j].course # c /\ rows'[j] = rows[j]
        BY <1>3, <1>11, <2>3, <3>2
      <4>2. rows[j].check <=> Selected(rows[j].course)
        BY <1>9, <2>3 DEF RowsTruthful, CellTruthful
      <4> QED BY <1>8, <4>1, <4>2
    <3> QED BY <3>1, <3>2
  <2> QED BY <2>1, <2>2, <2>3 DEF CellTruthful
<1>13. RowsFollowSource'
  BY <1>2, <1>3, <1>5, <1>9 DEF RowsFollowSource
<1>14. ListsDistinct' /\ BeforeHandOff'
  BY <1>0, <1>2, <1>9 DEF ListsDistinct, BeforeHandOff
<1> QED BY <1>12, <1>13, <1>14 DEF RowsInv

LEMMA didSelectRowRows ==
    ASSUME Inv, RowsInv, NEW i \in DOMAIN rows, didSelectRow(i)
    PROVE  RowsInv'
<1>1. CASE courses # Nil /\ currentUserSchedule # Nil /\ ~Beyond(i) /\ Toggle(i)
  BY <1>1, ToggleRows
<1>2. CASE ~(courses # Nil /\ currentUserSchedule # Nil /\ ~Beyond(i) /\ Toggle(i))
  <2>1. UNCHANGED <<currentUserSchedule, rows>> /\ (crashed' = crashed \/ crashed' = TRUE)
    BY <1>2 DEF didSelectRow, Complain
  <2>2. /\ UNCHANGED <<top, userSchool, searchResults, showAllCourses, handOff>>
    BY DEF didSelectRow
  <2>3. Live' => Live
    BY <2>1, <2>2 DEF Live
  <2> QED BY <2>1, <2>2, <2>3, RowsKept
<1> QED BY <1>1, <1>2

LEMMA searchBarRows ==
    ASSUME Inv, Inv', RowsInv,
           searchBarTextDidBeginEditing \/ searchBarTextDidEndEditing \/ textDidChange
    PROVE  RowsInv'
<1>0. /\ UNCHANGED <<userSchool, currentUserSchedule, handOff>>
      /\ Live /\ courses' = courses
  BY DEF searchBarTextDidBeginEditing, searchBarTextDidEndEditing, textDidChange,
         Touchable, courses
<1>1. CASE /\ rows' = rows /\ ~showAllCourses' /\ searchResults' = <<>>
  <2>1. RowsTruthful'
    BY <1>0, <1>1 DEF RowsInv, RowsTruthful, CellTruthful, Selected
  <2>2. RowsFollowSource'
    BY <1>1 DEF RowsFollowSource, Source
  <2>3. ListsDistinct'
    BY <1>0, <1>1, EmptyDistinct DEF RowsInv, ListsDistinct
  <2>4. BeforeHandOff'
    BY <1>0, <1>1 DEF RowsInv, BeforeHandOff
  <2> QED BY <2>1, <2>2, <2>3, <2>4 DEF RowsInv
<1>2. CASE /\ rows' = Table'
           /\ \/ searchResults' = <<>>
              \/ courses # Nil /\ searchResults' \in Sublists(courses)
  <2>1. /\ RowsTruthful' /\ RowsFollowSource'
        /\ userSchool' = Nil /\ searchResults' = <<>> =>
              \A i \in DOMAIN rows' : rows'[i].kind = "noSchool"
    BY <1>2, ReloadedNext DEF Inv, TypeOK, ScreenTypeOK
  <2>2. courses # Nil => courses \in Seq(Course) /\ IsInjective(courses)
    BY <1>0 DEF RowsInv, ListsDistinct, Inv, TypeOK, ScreenTypeOK, courses, SchoolValues
  <2>3. ListsDistinct'
    BY <1>0, <1>2, <2>2, EmptyDistinct, SublistsDistinct DEF ListsDistinct
  <2>4. BeforeHandOff'
    BY <1>0, <1>2, <2>1 DEF RowsInv, BeforeHandOff, courses
  <2> QED BY <2>1, <2>3, <2>4 DEF RowsInv
<1>3. CASE searchBarTextDidBeginEditing
  BY <1>1, <1>3 DEF searchBarTextDidBeginEditing
<1>4. CASE searchBarTextDidEndEditing
  BY <1>2, <1>4 DEF searchBarTextDidEndEditing
<1>5. CASE textDidChange
  BY <1>1, <1>2, <1>5 DEF textDidChange
<1> QED BY <1>3, <1>4, <1>5

LEMMA RowsNext == Inv /\ Inv' /\ RowsInv /\ [Next]_vars => RowsInv'
<1> SUFFICES ASSUME Inv, Inv', RowsInv, [Next]_vars PROVE RowsInv'
  OBVIOUS
<1>1. CASE \E i \in DOMAIN rows : didSelectRow(i) \/ Scroll(i)
  BY <1>1, didSelectRowRows, ScrollRows
<1>2. CASE searchBarTextDidBeginEditing \/ searchBarTextDidEndEditing \/ textDidChange
  BY <1>2, searchBarRows
<1>3. CASE addClass
  BY <1>3, RowsKept DEF addClass, appVars, Live
<1>4. CASE Continue
  BY <1>4, RowsKept DEF Continue, screenVars, Live
<1>5. CASE viewDidAppear
  BY <1>5, viewDidAppearRows
<1>6. CASE \E list \in CourseListAnswers : SelectorHandOff(list) \/ AddClassHandOff(list)
  BY <1>6, HandOffRows
<1>7. CASE \E sch \in asked : FacultyAnswer(sch)
  <2>1. rows' = rows /\ currentUserSchedule' = currentUserSchedule /\ ~Live'
    BY <1>7 DEF FacultyAnswer, Live
  <2> QED BY <2>1 DEF RowsInv, RowsTruthful, CellTruthful, Selected
<1>8. CASE UNCHANGED vars
  BY <1>8, RowsKept DEF vars, screenVars, appVars, Live
<1> QED BY <1>1, <1>2, <1>3, <1>4, <1>5, <1>6, <1>7, <1>8 DEF Next, Touch, Answer

-----------------------------------------------------------------------------
(* The timetable that a list of courses stands for *)

(* CourseAt, of any list *)
SlotIn(load, p) ==
    IF \E i \in DOMAIN load : period[load[i]] = p
    THEN load[CHOOSE i \in DOMAIN load : period[load[i]] = p] ELSE Nil

TableOf(load) == [p \in {period[c] : c \in Course} |-> SlotIn(load, p)]

(* A slot has the course of the list that meets in its period. *)
LEMMA SlotMember ==
    ASSUME NEW sched \in Schedules, ClashFree(sched), NEW p
    PROVE  /\ SlotIn(sched.courseLoad, p) \in Course \cup {Nil}
           /\ \A d \in Course : SlotIn(sched.courseLoad, p) = d
                                  <=> Contains(sched.courseLoad, d) /\ period[d] = p
<1> DEFINE load == sched.courseLoad
<1>1. /\ load \in Seq(Course) /\ DOMAIN load = 1 .. Len(load)
      /\ \A i \in DOMAIN load : load[i] \in Course
  BY LenProperties, ElementOfSeq DEF Schedules
<1>2. CASE \E i \in DOMAIN load : period[load[i]] = p
  <2> DEFINE k == CHOOSE i \in DOMAIN load : period[load[i]] = p
  <2>1. k \in DOMAIN load /\ period[load[k]] = p /\ SlotIn(load, p) = load[k]
    BY <1>2 DEF SlotIn
  <2> HIDE DEF k
  <2>2. \A i \in DOMAIN load : period[load[i]] = p => i = k
    BY <2>1 DEF ClashFree
  <2> QED BY <1>1, <2>1, <2>2 DEF Contains
<1>3. CASE ~ \E i \in DOMAIN load : period[load[i]] = p
  <2>1. SlotIn(load, p) = Nil
    BY <1>3 DEF SlotIn
  <2> QED BY <1>1, <1>3, <2>1, NilAssumption DEF Contains
<1> QED BY <1>2, <1>3

(* It is one of the timetables of the abstract specification, and counts   *)
(* as many courses as the list has.                                        *)
LEMMA TableOfSound ==
    ASSUME NEW sched \in Schedules, ClashFree(sched)
    PROVE  LET t == TableOf(sched.courseLoad)
           IN  /\ t \in AsTimetable!Tables
               /\ Len(sched.courseLoad) = Cardinality(AsTimetable!Taken(t))
<1> DEFINE load == sched.courseLoad
           P    == {period[c] : c \in Course}
           t    == TableOf(load)
           T    == {p \in P : t[p] # Nil}
           f    == [i \in 1 .. Len(load) |-> period[load[i]]]
<1>1. /\ load \in Seq(Course) /\ Len(load) \in Nat /\ DOMAIN load = 1 .. Len(load)
      /\ \A i \in DOMAIN load : load[i] \in Course
  BY LenProperties, ElementOfSeq DEF Schedules
<1>2. /\ DOMAIN t = P /\ t \in [P -> Course \cup {Nil}]
      /\ \A p \in P : \A d \in Course : t[p] = d <=> Contains(load, d) /\ period[d] = p
  BY SlotMember DEF TableOf
<1>3. t \in AsTimetable!Tables
  <2>1. \A p \in P : t[p] # Nil => period[t[p]] = p
    BY <1>2
  <2> HIDE DEF t
  <2> QED BY <1>2, <2>1 DEF AsTimetable!Tables, AsTimetable!Periods
<1>4. \A i \in 1 .. Len(load) : period[load[i]] \in P /\ t[period[load[i]]] = load[i]
  BY <1>1, <1>2 DEF Contains
<1>5. f \in [1 .. Len(load) -> T]
  BY <1>1, <1>4, NilAssumption
<1>6. \A i, j \in 1 .. Len(load) : f[i] = f[j] => i = j
  BY <1>1 DEF ClashFree
<1>7. \A p \in T : \E i \in 1 .. Len(load) : f[i] = p
  BY <1>2 DEF Contains
<1>8. ExistsBijection(1 .. Len(load), T)
  <2> HIDE DEF f, T
  <2>1. f \in Bijection(1 .. Len(load), T)
    BY <1>5, <1>6, <1>7
       DEF Bijection, Injection, Surjection, IsInjective
  <2> QED BY <2>1 DEF ExistsBijection
<1>9. Cardinality(T) = Len(load)
  <2> HIDE DEF T
  <2> QED BY <1>1, <1>8, IntervalSize, FS_Bijection
<1>10. AsTimetable!Taken(t) = T
  BY DEF AsTimetable!Taken, AsTimetable!Periods
<1> QED BY <1>3, <1>9, <1>10

(* A tap fills one free slot, clears one slot, or changes nothing. *)
LEMMA TappedTable ==
    ASSUME NEW sched \in Schedules, sched # Nil, ClashFree(sched), NEW c \in Course
    PROVE  LET new   == Tapped(sched, c)
               old   == TableOf(sched.courseLoad)
               count == Len(sched.courseLoad)
           IN  \/ new = sched
               \/ /\ old[period[c]] = Nil
                  /\ TableOf(new.courseLoad) = [old EXCEPT ![period[c]] = c]
                  /\ Len(new.courseLoad) = count + 1
               \/ /\ old[period[c]] # Nil
                  /\ TableOf(new.courseLoad) = [old EXCEPT ![period[c]] = Nil]
                  /\ Len(new.courseLoad) = count - 1
<1> DEFINE load == sched.courseLoad
           new  == Tapped(sched, c)
           P    == {period[d] : d \in Course}
<1>0. load \in Seq(Course) /\ DOMAIN load = 1 .. Len(load)
  BY LenProperties DEF Schedules
<1>1. new \in Schedules /\ ClashFree(new)
  BY TappedSound
<1>2. \A d : Contains(new.courseLoad, d)
               <=> IF d = c THEN Checked(sched, c) ELSE Contains(load, d)
  BY TappedContains
<1>3. \A p : /\ SlotIn(load, p) \in Course \cup {Nil}
             /\ \A d \in Course : SlotIn(load, p) = d <=> Contains(load, d) /\ period[d] = p
  BY SlotMember
<1>4. \A p : /\ SlotIn(new.courseLoad, p) \in Course \cup {Nil}
             /\ \A d \in Course : SlotIn(new.courseLoad, p) = d
                                    <=> Contains(new.courseLoad, d) /\ period[d] = p
  <2> HIDE DEF new
  <2> QED BY <1>1, SlotMember
<1>5. /\ TableOf(load) = [p \in P |-> SlotIn(load, p)]
      /\ TableOf(new.courseLoad) = [p \in P |-> SlotIn(new.courseLoad, p)]
      /\ period[c] \in P
  BY DEF TableOf
<1>6. CASE Contains(load, c)
  <2>1. ~Checked(sched, c)
    BY <1>6 DEF Checked
  <2>2. SlotIn(load, period[c]) = c /\ c # Nil
    BY <1>3, <1>6, NilAssumption
  <2>3. ASSUME NEW p
        PROVE  SlotIn(new.courseLoad, p) = IF p = period[c] THEN Nil ELSE SlotIn(load, p)
    <3> HIDE DEF new, load
    <3>1. \A d \in Course : SlotIn(new.courseLoad, p) = d
                              <=> d # c /\ Contains(load, d) /\ period[d] = p
      BY <1>2, <1>4, <2>1
    <3>2. CASE p = period[c]
      BY <1>3, <1>4, <2>2, <3>1, <3>2
    <3>3. CASE p # period[c]
      BY <1>3, <1>4, <3>1, <3>3, NilAssumption
    <3> QED BY <3>2, <3>3
  <2>4. TableOf(new.courseLoad) = [TableOf(load) EXCEPT ![period[c]] = Nil]
    <3> HIDE DEF new, load, P
    <3> QED BY <1>5, <2>3
  <2>5. new.courseLoad = RemoveAt(load, FirstIndex(load, c))
    BY <1>6 DEF Tapped, Schedules
  <2>6. Len(new.courseLoad) = Len(load) - 1
    <3> HIDE DEF new, load
    <3> QED BY <1>0, <1>6, <2>5, FirstIndexProperties, RemoveAtProperties
  <2>7. TableOf(load)[period[c]] # Nil
    <3> HIDE DEF new, load, P
    <3> QED BY <1>5, <2>2
  <2> QED BY <2>4, <2>6, <2>7
<1>7. CASE ~Contains(load, c) /\ verifyNewCourseToSchedule(c, sched)
  <2>1. Checked(sched, c)
    BY <1>7 DEF Checked
  <2>2. \A d : Contains(load, d) => period[d] # period[c]
    BY <1>0, <1>7 DEF verifyNewCourseToSchedule, Contains
  <2>3. SlotIn(load, period[c]) = Nil
    <3> HIDE DEF load
    <3> QED BY <1>3, <2>2
  <2>4. ASSUME NEW p
        PROVE  SlotIn(new.courseLoad, p) = IF p = period[c] THEN c ELSE SlotIn(load, p)
    <3> HIDE DEF new, load
    <3>1. \A d \in Course : SlotIn(new.courseLoad, p) = d
                              <=> (d = c \/ Contains(load, d)) /\ period[d] = p
      BY <1>2, <1>4, <2>1
    <3>2. CASE p = period[c]
      BY <3>1, <3>2
    <3>3. CASE p # period[c]
      BY <1>3, <1>4, <3>1, <3>3, NilAssumption
    <3> QED BY <3>2, <3>3
  <2>5. TableOf(new.courseLoad) = [TableOf(load) EXCEPT ![period[c]] = c]
    <3> HIDE DEF new, load, P
    <3> QED BY <1>5, <2>4
  <2>6. new.courseLoad = Append(load, c)
    BY <1>7 DEF Tapped, Schedules
  <2>7. Len(new.courseLoad) = Len(load) + 1
    <3> HIDE DEF new, load
    <3> QED BY <1>0, <2>6, AppendProperties
  <2>8. TableOf(load)[period[c]] = Nil
    <3> HIDE DEF new, load, P
    <3> QED BY <1>5, <2>3
  <2> QED BY <2>5, <2>7, <2>8
<1>8. CASE ~Contains(load, c) /\ ~verifyNewCourseToSchedule(c, sched)
  BY <1>8 DEF Tapped
<1> QED BY <1>6, <1>7, <1>8

(* The mapping of the refinement, in terms of the list. *)
LEMMA TableOfLoad ==
    /\ [p \in {period[c] : c \in Course} |-> CourseAt(p)] = TableOf(Load)
    /\ currentUserSchedule # Nil => Load = currentUserSchedule.courseLoad
    /\ currentUserSchedule = Nil => Load = <<>>
  BY DEF CourseAt, TableOf, SlotIn, Load

LEMMA TableOfLoadNext ==
    /\ [p \in {period[c] : c \in Course} |-> CourseAt(p)]' = TableOf(Load')
    /\ currentUserSchedule' # Nil => Load' = currentUserSchedule'.courseLoad
    /\ currentUserSchedule' = Nil => Load' = <<>>
  BY DEF CourseAt, TableOf, SlotIn, Load

(* The number of members of a set is what the abstract specification says. *)
LEMMA SameCardinality ==
    ASSUME NEW S
    PROVE  AsTimetable!Cardinality(S) = Cardinality(S)
  BY DEF AsTimetable!Cardinality, Cardinality, AsTimetable!IsFiniteSet, IsFiniteSet

LEMMA TableInitStep == Init => AsTimetable!TableInit
<1> SUFFICES ASSUME Init PROVE AsTimetable!TableInit
  OBVIOUS
<1>1. currentUserSchedule = Nil /\ Load = <<>>
  BY DEF Init, FreshScreen, Load
<1>2. \A p : CourseAt(p) = Nil
  BY <1>1 DEF CourseAt
<1> QED BY <1>1, <1>2 DEF AsTimetable!TableInit, AsTimetable!Periods

LEMMA TableNextStep == Inv /\ Inv' /\ [Next]_vars => [AsTimetable!TableNext]_(AsTimetable!tableVars)
<1> SUFFICES ASSUME Inv, Inv', [Next]_vars
             PROVE  AsTimetable!TableNext \/ UNCHANGED AsTimetable!tableVars
  OBVIOUS
<1>1. CASE UNCHANGED currentUserSchedule
  <2>1. Load' = Load
    BY <1>1 DEF Load
  <2>2. \A p : CourseAt(p)' = CourseAt(p)
    BY <2>1 DEF CourseAt
  <2> QED BY <1>1, <2>1, <2>2 DEF AsTimetable!tableVars
<1>2. CASE currentUserSchedule = Nil /\ currentUserSchedule' # Nil
  <2>1. currentUserSchedule' \in Schedules /\ ClashFree(currentUserSchedule')
    BY <1>2 DEF Inv, TypeOK, ScreenTypeOK, NoPeriodClash
  <2>2. /\ TableOf(Load') \in AsTimetable!Tables
        /\ Len(Load') = Cardinality(AsTimetable!Taken(TableOf(Load')))
    BY <1>2, <2>1, TableOfSound, TableOfLoadNext
  <2>3. Len(Load') = AsTimetable!Cardinality(AsTimetable!Taken(TableOf(Load')))
    BY <2>2, SameCardinality
  <2>4. (currentUserSchedule # Nil)' = TRUE
    BY <1>2
  <2>5. AsTimetable!Receive
    BY <1>2, <2>2, <2>3, <2>4, TableOfLoadNext DEF AsTimetable!Receive
  <2> QED BY <2>5 DEF AsTimetable!TableNext
<1>3. ASSUME NEW c \in Course, currentUserSchedule # Nil,
             currentUserSchedule' = Tapped(currentUserSchedule, c),
             currentUserSchedule' # currentUserSchedule
      PROVE  AsTimetable!TableNext
  <2>1. currentUserSchedule \in Schedules /\ ClashFree(currentUserSchedule)
    BY <1>3 DEF Inv, TypeOK, ScreenTypeOK, NoPeriodClash
  <2>2. currentUserSchedule' # Nil
    BY <1>3, <2>1, TappedSound, NilValueAssumption
  <2>3. \/ /\ TableOf(Load)[period[c]] = Nil
           /\ TableOf(Load') = [TableOf(Load) EXCEPT ![period[c]] = c]
           /\ Len(Load') = Len(Load) + 1
        \/ /\ TableOf(Load)[period[c]] # Nil
           /\ TableOf(Load') = [TableOf(Load) EXCEPT ![period[c]] = Nil]
           /\ Len(Load') = Len(Load) - 1
    <3>1. Load = currentUserSchedule.courseLoad /\ Load' = currentUserSchedule'.courseLoad
      BY <1>3, <2>2, TableOfLoad, TableOfLoadNext
    <3> QED BY <1>3, <2>1, <3>1, TappedTable
  <2>4. AsTimetable!Fill(c) \/ AsTimetable!Clear(period[c])
    BY <1>3, <2>2, <2>3, TableOfLoad, TableOfLoadNext
       DEF AsTimetable!Fill, AsTimetable!Clear
  <2>5. period[c] \in AsTimetable!Periods
    BY DEF AsTimetable!Periods
  <2> QED BY <2>4, <2>5 DEF AsTimetable!TableNext
<1>4. CASE \E i \in DOMAIN rows : /\ Toggle(i) /\ courses # Nil
                                  /\ currentUserSchedule # Nil /\ ~Beyond(i)
  BY <1>1, <1>3, <1>4, TappedCourse DEF Toggle
<1> QED BY <1>1, <1>2, <1>4, ScheduleStep
-----------------------------------------------------------------------------
(* The screen keeps its types whatever it is handed and the user does. *)
THEOREM TypeCorrect == Spec => []TypeOK
<1>1. Inv => TypeOK
  BY DEF Inv
<1> QED BY <1>1, InitInv, NextInv, PTL DEF Spec

(* No interleaving of taps, searches and hand-offs puts two courses of the *)
(* same period into the schedule.                                          *)
THEOREM PeriodsDistinct == Spec => []NoPeriodClash
<1>1. Inv => NoPeriodClash
  BY DEF Inv
<1> QED BY <1>1, InitInv, NextInv, PTL DEF Spec

(* The schedule never holds more courses than maxCourseCount, although no  *)
(* code compares the two, as long as its courses are of one school.        *)
THEOREM LoadWithinLimit == Spec => []LoadBounded
<1>1. Inv /\ LimitOfSchool => LoadBounded
  <2> SUFFICES ASSUME Inv, LimitOfSchool, currentUserSchedule # Nil,
                      \A i \in DOMAIN currentUserSchedule.courseLoad :
                         schoolId[currentUserSchedule.courseLoad[i]] = handOff.school
               PROVE  Len(currentUserSchedule.courseLoad) <= currentUserSchedule.maxCourseCount
    BY DEF LoadBounded
  <2>1. /\ currentUserSchedule \in Schedules /\ ClashFree(currentUserSchedule)
        /\ handOff.school \in School
        /\ currentUserSchedule.maxCourseCount = MaxStudentCourseLoad[handOff.school]
    BY DEF Inv, TypeOK, ScreenTypeOK, HandOffs, NoPeriodClash, LimitOfSchool
  <2> QED BY <2>1, ClashFreeBounded
<1> QED BY <1>1, InitInv, NextInv, LimitNext, PTL DEF Spec

LEMMA RowsInvariant == Spec => [](Inv /\ RowsInv)
BY InitInv, NextInv, RowsInit, RowsNext, PTL DEF Spec

(* A checkmark is never wrong: a row made before a search, a tap or a      *)
(* refused course shows what cellForRowAt would show now, although         *)
(* didSelectRowAt sets the mark of the tapped row only.                    *)
THEOREM CheckmarksTruthfulHolds == Spec => []CheckmarksTruthful
<1>1. RowsInv => CheckmarksTruthful
  BY DEF RowsInv, RowsTruthful, CellTruthful, CheckmarksTruthful
<1> QED BY <1>1, RowsInvariant, PTL

(* A course enters or leaves the schedule only by a tap on a row that      *)
(* shows it and whose checkmark flips, unless the table still has the row  *)
(* "Please Select a School" that SelectorHandOff does not reload.          *)
THEOREM TapTogglesShown == Spec => TapTogglesShownCourse
<1>1. ASSUME Inv, RowsInv, [Next]_vars, currentUserSchedule # Nil, ~PlaceholderShown,
             NEW c \in Course, Selected(c) # Selected(c)'
      PROVE  \E i \in DOMAIN rows : rows[i].course = c /\ rows'[i].check # rows[i].check
  <2>1. currentUserSchedule' # currentUserSchedule
    BY <1>1 DEF Selected
  <2>2. PICK i \in DOMAIN rows : /\ didSelectRow(i) /\ Toggle(i) /\ courses # Nil
                                 /\ currentUserSchedule # Nil /\ ~Beyond(i)
    BY <1>1, <2>1, ScheduleStep
  <2>3. ~NoSource /\ Source \in Seq(Course) /\ i \in 1 .. Len(Source) /\ Source[i] \in Course
    BY <1>1, <2>2, TappedCourse
  <2>4. rows[i] \in Cells
    BY <1>1, ElementOfSeq, LenProperties DEF Inv, TypeOK, ScreenTypeOK
  <2>5. rows[i].kind = "course"
    BY <1>1, <2>4 DEF PlaceholderShown, RowsInv, RowsTruthful, CellTruthful, Cells
  <2>6. rows[i].course = Source[i] /\ (rows[i].check <=> Selected(Source[i]))
    <3>1. RowsFollowSource /\ RowsTruthful
      BY <1>1, <2>2 DEF RowsInv, didSelectRow, Touchable
    <3>2. Source # <<>>
      BY <2>3
    <3> QED BY <2>3, <2>5, <3>1, <3>2 DEF RowsFollowSource, RowsTruthful, CellTruthful
  <2>7. currentUserSchedule \in Schedules /\ ClashFree(currentUserSchedule)
    BY <1>1 DEF Inv, TypeOK, ScreenTypeOK, NoPeriodClash
  <2>8. currentUserSchedule' = Tapped(currentUserSchedule, Source[i])
    BY <2>2 DEF Toggle
  <2>9. currentUserSchedule' # Nil
    BY <2>2, <2>3, <2>7, <2>8, TappedSound, NilValueAssumption
  <2>10. \A d : Selected(d)' <=> IF d = Source[i] THEN Checked(currentUserSchedule, Source[i])
                                ELSE Selected(d)
    <3>1. \A d : Contains(currentUserSchedule'.courseLoad, d)
                  <=> IF d = Source[i] THEN Checked(currentUserSchedule, Source[i])
                      ELSE Contains(currentUserSchedule.courseLoad, d)
      BY <2>2, <2>3, <2>7, <2>8, TappedContains
    <3> QED BY <2>2, <2>9, <3>1 DEF Selected
  <2>11. Selected(c) \in BOOLEAN /\ Selected(c)' \in BOOLEAN
    BY DEF Selected, Contains
  <2>12. c = Source[i]
    BY <1>1, <2>10, <2>11
  <2>13. rows'[i].check = Checked(currentUserSchedule, Source[i])
    BY <2>2, <2>4 DEF Toggle, Cells
  <2>14. Selected(c)' # Selected(c) /\ (Selected(c)' <=> rows'[i].check)
    BY <1>1, <2>10, <2>12, <2>13
  <2>15. rows'[i].check # rows[i].check
    BY <2>6, <2>11, <2>12, <2>14
  <2> QED BY <2>6, <2>12, <2>15
<1>2. Inv /\ RowsInv /\ [Next]_vars =>
        [currentUserSchedule # Nil /\ ~PlaceholderShown =>
           \A c \in Course : Selected(c) # Selected(c)' =>
              \E i \in DOMAIN rows : /\ rows[i].course = c
                                     /\ rows'[i].check # rows[i].check]_vars
  BY <1>1
<1> QED BY <1>2, RowsInvariant, PTL DEF Spec, TapTogglesShownCourse

(* The screen implements the timetable: the list Schedule.courseLoad, with *)
(* verifyNewCourseToSchedule asked before each append, behaves as a table  *)
(* with one slot per period.                                               *)
THEOREM ImplementsTimetable == Spec => IsTimetable
<1>1. Spec => []Inv
  BY InitInv, NextInv, PTL DEF Spec
<1> QED BY <1>1, TableInitStep, TableNextStep, PTL
        DEF Spec, IsTimetable, AsTimetable!TableSpec

-----------------------------------------------------------------------------
(* The form AddClass.  Facts about schedules are taken from above:         *)
(* ChooseClasses hands its schedule on.                                    *)

(* The inductive invariant.  CreatedAsShown needs what updateUserInfo and  *)
(* the order in the handlers of the wheels achieve together: the choice of *)
(* the wheel that is NOT selected is always in classData.                  *)
ChoiceCopied ==
    /\ currentSelectorItem = "period" /\ currentTeacher # Nil =>
          classData.teacher = currentTeacher
    /\ currentSelectorItem = "teacher" /\ currentPeriod # Nil =>
          classData.period = currentPeriod

(* The properties of the dialog need that its picker is at the first row   *)
(* unless it can be turned, and that a lock which a fade left behind was   *)
(* set by a tap during that fade.                                          *)
DialogReset == (overlay => fading) => TeacherPickerRow = 1

LockedInFade == ~formEnabled /\ fading => reopened

ChoiceInv == ChoiceCopied /\ CreatedAsShown /\ StaffRowStable /\ WheelAgrees

DialogInv == DialogReset /\ TitleAsShown /\ LockedInFade /\ LockedOnlyByDialog

FormInv == FormTypeOK /\ ChoiceInv /\ DialogInv /\ ReturnsClashFree

-----------------------------------------------------------------------------
(* What the form keeps of the schedule type when the Ok action of the      *)
(* alert appends the new course.                                           *)
LEMMA WithNewCourseSound ==
    ASSUME NEW sched \in {Nil} \cup Schedules, sched # Nil => ClashFree(sched),
           NEW c \in Course
    PROVE  /\ WithNewCourse(sched, c) \in {Nil} \cup Schedules
           /\ WithNewCourse(sched, c) # Nil => ClashFree(WithNewCourse(sched, c))
<1>1. CASE sched # Nil /\ verifyNewCourseToSchedule(c, sched)
  <2>1. WithNewCourse(sched, c) = [sched EXCEPT !.courseLoad = Append(sched.courseLoad, c)]
    BY <1>1 DEF WithNewCourse
  <2> QED BY <1>1, <2>1, AppendKeepsClashFree
<1>2. CASE ~(sched # Nil /\ verifyNewCourseToSchedule(c, sched))
  BY <1>2 DEF WithNewCourse
<1> QED BY <1>1, <1>2

(* The dictionary after updateUserInfo has the type of a dictionary, and   *)
(* both choices that have been made are in it.                             *)
LEMMA updateUserInfoSound ==
    ASSUME FormTypeOK, ChoiceCopied
    PROVE  /\ updateUserInfo \in ClassData
           /\ updateUserInfo.displayName = ClassTitle
           /\ currentTeacher # Nil => updateUserInfo.teacher = currentTeacher
           /\ classData.teacher = currentTeacher => updateUserInfo.teacher = currentTeacher
           /\ currentPeriod # Nil => updateUserInfo.period = currentPeriod
           /\ updateUserInfo.schoolId = school.id
           /\ DOMAIN updateUserInfo = {"displayName", "teacher", "period", "schoolId"}
<1> DEFINE t == IF currentSelectorItem = "teacher" /\ currentTeacher # Nil
                THEN currentTeacher ELSE classData.teacher
           p == IF currentSelectorItem = "period" /\ currentPeriod # Nil
                THEN currentPeriod ELSE classData.period
<1>1. /\ ClassTitle \in BOOLEAN /\ school.id \in School
      /\ t \in {Nil} \cup Faculty /\ p \in {Nil} \cup Nat
  BY DEF FormTypeOK, ChoiceTypeOK, ClassData
<1>2. /\ currentTeacher # Nil => t = currentTeacher
      /\ classData.teacher = currentTeacher => t = currentTeacher
      /\ currentPeriod # Nil => p = currentPeriod
  BY DEF FormTypeOK, ChoiceTypeOK, ChoiceCopied
<1>3. updateUserInfo = [displayName |-> ClassTitle, teacher |-> t, period |-> p,
                        schoolId |-> school.id]
  BY DEF updateUserInfo
<1> HIDE DEF t, p
<1> QED BY <1>1, <1>2, <1>3 DEF ClassData

(* A dictionary that passes verification is complete: Course.init(ref:data:) *)
(* does not throw, so the alert has its button.                            *)
LEMMA VerifiedIsComplete ==
    ASSUME FormTypeOK, ChoiceCopied, verification
    PROVE  Complete(updateUserInfo)
<1>1. updateUserInfo.displayName # Nil
  BY updateUserInfoSound, ChoiceAssumption DEF FormTypeOK, ChoiceTypeOK
<1>2. updateUserInfo.teacher # Nil /\ updateUserInfo.period # Nil
  BY updateUserInfoSound DEF verification
<1>3. updateUserInfo.schoolId # Nil
  BY updateUserInfoSound, NilAssumption DEF FormTypeOK
<1> QED BY <1>1, <1>2, <1>3, updateUserInfoSound DEF Complete

(* The rows of the picker are numbered from 1. *)
LEMMA pickerRowsType == FormTypeOK => pickerRows \in Nat
  BY SchoolAssumption, LenProperties DEF FormTypeOK, pickerRows

(* A staff list is a list of teachers. *)
LEMMA StaffType ==
    ASSUME NEW F \in SUBSET Faculty
    PROVE  Listings(F) \subseteq Seq(Faculty)
<1>1. Cardinality(F) \in Nat
  BY AddClassAssumption, FS_Subset, FS_CardinalityType
<1>2. [1 .. Cardinality(F) -> F] \subseteq Seq(Faculty)
  BY <1>1, SeqDef
<1> QED BY <1>2 DEF Listings

-----------------------------------------------------------------------------
(* The form as it is presented. *)
LEMMA FreshFormInv ==
    \A s \in School, staff \in Seq(Faculty), sched \in {Nil} \cup Schedules :
        /\ FreshForm(s, staff, sched)
        /\ sched # Nil => ClashFree(sched)
        /\ courseDocs \subseteq Course
        /\ facultyDocs \in [School -> SUBSET Faculty]
        => FormInv
<1> SUFFICES ASSUME NEW s \in School, NEW staff \in Seq(Faculty),
                    NEW sched \in {Nil} \cup Schedules,
                    FreshForm(s, staff, sched),
                    sched # Nil => ClashFree(sched),
                    courseDocs \subseteq Course,
                    facultyDocs \in [School -> SUBSET Faculty]
             PROVE  FormInv
  OBVIOUS
<1>1. ChoiceTypeOK /\ DialogTypeOK
  BY DEF FreshForm, ChoiceTypeOK, DialogTypeOK, ClassData
<1>2. FormTypeOK
  BY <1>1 DEF FormTypeOK, FreshForm
<1>3. ChoiceInv /\ DialogInv
  BY DEF FreshForm, ChoiceInv, ChoiceCopied, CreatedAsShown, StaffRowStable,
         WheelAgrees, DialogInv, DialogReset, TitleAsShown, LockedInFade,
         LockedOnlyByDialog
<1>4. ReturnsClashFree
  BY DEF FreshForm, ReturnsClashFree
<1> QED BY <1>2, <1>3, <1>4 DEF FormInv

LEMMA FormInitInv == FormInit => FormInv
<1> SUFFICES ASSUME FormInit PROVE FormInv
  OBVIOUS
<1>0. PICK s \in School :
        \E staff \in UNION {Listings(F) : F \in SUBSET Faculty},
           sched \in {Nil} \cup SchedulesReturned(s) :
             /\ FreshForm(s, staff, sched)
             /\ facultyDocs = [x \in School |-> IF x = s THEN ToSet(staff) ELSE {}]
             /\ courseDocs = IF sched = Nil THEN {} ELSE ToSet(sched.courseLoad)
  BY DEF FormInit
<1>1. PICK staff \in UNION {Listings(F) : F \in SUBSET Faculty},
           sched \in {Nil} \cup SchedulesReturned(s) :
        /\ FreshForm(s, staff, sched)
        /\ facultyDocs = [x \in School |-> IF x = s THEN ToSet(staff) ELSE {}]
        /\ courseDocs = IF sched = Nil THEN {} ELSE ToSet(sched.courseLoad)
  BY <1>0
<1>2. staff \in Seq(Faculty) /\ ToSet(staff) \subseteq Faculty
  <2>1. staff \in Seq(Faculty)
    BY StaffType
  <2> QED BY <2>1, ElementOfSeq, LenProperties DEF ToSet
<1>3. SchedulesReturned(s) \subseteq {x \in Schedules : ClashFree(x)}
  <2>1. \A S \in SUBSET Course : Listings(S) \subseteq Seq(Course)
    BY ListingsType
  <2> QED BY <2>1, SchoolAssumption DEF SchedulesReturned, Schedules, Schedule
<1>4. courseDocs \subseteq Course
  <2>1. CASE sched = Nil
    BY <1>1, <2>1
  <2>2. CASE sched # Nil
    <3>1. sched.courseLoad \in Seq(Course)
      BY <1>3, <2>2 DEF Schedules
    <3>2. ToSet(sched.courseLoad) \subseteq Course
      BY <3>1, ElementOfSeq, LenProperties DEF ToSet
    <3> QED BY <1>1, <2>2, <3>2
  <2> QED BY <2>1, <2>2
<1>5. facultyDocs \in [School -> SUBSET Faculty]
  BY <1>1, <1>2
<1> QED BY <1>1, <1>2, <1>3, <1>4, <1>5, FreshFormInv

(* A step that leaves the choices, the staff and the alert alone keeps     *)
(* what is said of the choices.                                            *)
LEMMA ChoiceKept ==
    ASSUME FormInv, UNCHANGED <<school, choiceVars, alert, newCrs>>
    PROVE  ChoiceInv'
  BY DEF FormInv, ChoiceInv, ChoiceCopied, CreatedAsShown, StaffRowStable, WheelAgrees,
         choiceVars, OpenAt

(* A step that leaves the dialog alone keeps what is said of it. *)
LEMMA DialogKept ==
    ASSUME FormInv, UNCHANGED dialogVars
    PROVE  DialogInv'
  BY DEF FormInv, DialogInv, DialogReset, TitleAsShown, LockedInFade, LockedOnlyByDialog,
         dialogVars

(* A step that leaves all but the choices alone only has to keep what is   *)
(* said of the choices.                                                    *)
LEMMA OnlyChoices ==
    ASSUME FormInv, ChoiceTypeOK', ChoiceInv',
           UNCHANGED <<docVars, dialogVars, school, scheduleToReturn, alert, newCrs>>
    PROVE  FormInv'
<1>1. DialogTypeOK'
  BY DEF FormInv, FormTypeOK, DialogTypeOK, dialogVars
<1>2. FormTypeOK'
  BY <1>1 DEF FormInv, FormTypeOK, docVars
<1>3. DialogInv'
  BY DialogKept
<1> QED BY <1>2, <1>3 DEF FormInv, ReturnsClashFree

-----------------------------------------------------------------------------
(* The fields and wheels *)

LEMMA FieldEventInv == FormInv /\ FieldEvent => FormInv'
<1> SUFFICES ASSUME FormInv, FieldEvent PROVE FormInv'
  OBVIOUS
<1>0. FormTypeOK /\ ChoiceCopied
  BY DEF FormInv, ChoiceInv
<1>1. classData' = updateUserInfo
  BY DEF FieldEvent
<1>2. ChoiceTypeOK'
  BY <1>0, <1>1, updateUserInfoSound DEF FormTypeOK, ChoiceTypeOK, FieldEvent
<1>3. ChoiceCopied'
  BY <1>0, <1>1, updateUserInfoSound DEF ChoiceCopied, FieldEvent
<1>4. CreatedAsShown'
  BY <1>0, <1>1, updateUserInfoSound DEF FormInv, ChoiceInv, CreatedAsShown, FieldEvent
<1>5. StaffRowStable' /\ WheelAgrees'
  BY DEF FormInv, ChoiceInv, StaffRowStable, WheelAgrees, FieldEvent
<1> QED BY <1>2, <1>3, <1>4, <1>5, OnlyChoices DEF ChoiceInv, FieldEvent

LEMMA TypeTitleInv == FormInv /\ TypeTitle => FormInv'
<1> SUFFICES ASSUME FormInv, TypeTitle PROVE FormInv'
  OBVIOUS
<1>1. ClassTitle' \in BOOLEAN
  BY Zenon DEF TypeTitle
<1>2. ChoiceTypeOK'
  BY <1>1 DEF FormInv, FormTypeOK, ChoiceTypeOK, TypeTitle
<1>3. ChoiceInv'
  BY DEF FormInv, ChoiceInv, ChoiceCopied, CreatedAsShown, StaffRowStable, WheelAgrees,
         TypeTitle, OpenAt
<1> QED BY <1>2, <1>3, OnlyChoices DEF TypeTitle

(* Both handlers copy the choice of the wheel they leave before they       *)
(* select the other one.                                                   *)
LEMMA OpenWheelInv == FormInv /\ (Teacher \/ Period) => FormInv'
<1> SUFFICES ASSUME FormInv, Teacher \/ Period PROVE FormInv'
  OBVIOUS
<1>0. FormTypeOK /\ ChoiceTypeOK /\ ChoiceCopied
  BY DEF FormInv, ChoiceInv, FormTypeOK
<1>1. /\ classData' = updateUserInfo /\ pickerHidden' = FALSE /\ alert = "none"
      /\ UNCHANGED <<docVars, dialogVars, school, scheduleToReturn, alert, newCrs>>
      /\ UNCHANGED <<ClassTitle, currentTeacher, currentTeacherRow, currentPeriod>>
  BY DEF Teacher, Period, OnForm
<1>2. \/ currentSelectorItem' = "teacher" /\ wheel' = OpenAt(currentTeacherRow)
      \/ currentSelectorItem' = "period" /\ wheel' = OpenAt(currentPeriod)
  BY DEF Teacher, Period
<1>3. wheel' \in Nat
  <2>1. \A r \in {Nil} \cup Nat : OpenAt(r) \in Nat
    BY DEF OpenAt
  <2> QED BY <1>0, <1>2, <2>1 DEF ChoiceTypeOK
<1>4. ChoiceTypeOK'
  BY <1>0, <1>1, <1>2, <1>3, updateUserInfoSound DEF ChoiceTypeOK
<1>5. ChoiceCopied'
  BY <1>0, <1>1, updateUserInfoSound DEF ChoiceCopied
<1>6. CreatedAsShown' /\ StaffRowStable'
  BY <1>1 DEF FormInv, ChoiceInv, CreatedAsShown, StaffRowStable
<1>7. WheelAgrees'
  BY <1>1, <1>2 DEF WheelAgrees, OpenAt
<1> QED BY <1>1, <1>4, <1>5, <1>6, <1>7, OnlyChoices DEF ChoiceInv

LEMMA pickRowInv ==
    ASSUME FormInv, NEW row \in 1 .. pickerRows, pickRow(row)
    PROVE  FormInv'
<1>0. FormTypeOK /\ ChoiceTypeOK /\ ChoiceCopied
  BY DEF FormInv, ChoiceInv, FormTypeOK
<1>1. row \in Nat
  BY <1>0, pickerRowsType
<1>2. /\ wheel' = row /\ alert = "none"
      /\ UNCHANGED <<docVars, dialogVars, school, scheduleToReturn, alert, newCrs>>
      /\ UNCHANGED <<ClassTitle, currentSelectorItem, pickerHidden, classData>>
  BY DEF pickRow, OnForm
<1>3. CASE currentSelectorItem = "teacher"
  <2>1. /\ currentTeacher' = school.Staff[row] /\ currentTeacherRow' = row
        /\ UNCHANGED currentPeriod
    BY <1>3 DEF pickRow
  <2>2. row \in DOMAIN school.Staff /\ school.Staff[row] \in Faculty
    BY <1>0, <1>3, LenProperties, ElementOfSeq DEF FormTypeOK, pickerRows
  <2>3. ChoiceTypeOK'
    BY <1>0, <1>1, <1>2, <2>1, <2>2 DEF ChoiceTypeOK
  <2>4. ChoiceCopied' /\ CreatedAsShown' /\ StaffRowStable'
    BY <1>0, <1>2, <1>3, <2>1, <2>2 DEF ChoiceCopied, CreatedAsShown, StaffRowStable
  <2>5. WheelAgrees'
    BY <1>1, <1>2, <1>3, <2>1, ChoiceAssumption DEF WheelAgrees, OpenAt
  <2> QED BY <1>2, <2>3, <2>4, <2>5, OnlyChoices DEF ChoiceInv
<1>4. CASE currentSelectorItem = "period"
  <2>1. currentPeriod' = row /\ UNCHANGED <<currentTeacher, currentTeacherRow>>
    BY <1>4 DEF pickRow
  <2>2. ChoiceTypeOK'
    BY <1>0, <1>1, <1>2, <2>1 DEF ChoiceTypeOK
  <2>3. ChoiceCopied' /\ CreatedAsShown' /\ StaffRowStable'
    BY <1>0, <1>2, <1>4, <2>1
    DEF FormInv, ChoiceInv, ChoiceCopied, CreatedAsShown, StaffRowStable
  <2>4. WheelAgrees'
    BY <1>1, <1>2, <1>4, <2>1, ChoiceAssumption DEF WheelAgrees, OpenAt
  <2> QED BY <1>2, <2>2, <2>3, <2>4, OnlyChoices DEF ChoiceInv
<1> QED BY <1>0, <1>3, <1>4 DEF ChoiceTypeOK

-----------------------------------------------------------------------------
(* The dialog *)

(* A step that leaves all but the dialog alone only has to keep what is    *)
(* said of the dialog.                                                     *)
LEMMA OnlyDialog ==
    ASSUME FormInv, DialogTypeOK', DialogInv',
           UNCHANGED <<docVars, choiceVars, school, scheduleToReturn, alert, newCrs>>
    PROVE  FormInv'
<1>1. ChoiceTypeOK'
  BY DEF FormInv, FormTypeOK, ChoiceTypeOK, choiceVars
<1>2. FormTypeOK'
  BY <1>1 DEF FormInv, FormTypeOK, docVars
<1>3. ChoiceInv'
  BY ChoiceKept
<1> QED BY <1>2, <1>3 DEF FormInv, ReturnsClashFree

LEMMA addTeacherInv == FormInv /\ addTeacher => FormInv'
<1> SUFFICES ASSUME FormInv, addTeacher PROVE FormInv'
  OBVIOUS
<1>0. FormTypeOK /\ ChoiceTypeOK /\ DialogTypeOK /\ DialogInv
  BY DEF FormInv, FormTypeOK
<1>1. /\ overlay' = TRUE /\ formEnabled' = FALSE /\ currentNewTeacherTitle' = 1
      /\ (overlay => fading) /\ pickerHidden' = TRUE
      /\ UNCHANGED <<fading, teacherLast, TeacherPickerRow>>
      /\ UNCHANGED <<docVars, school, scheduleToReturn, alert, newCrs>>
      /\ UNCHANGED <<ClassTitle, currentSelectorItem, wheel, currentTeacher>>
      /\ UNCHANGED <<currentTeacherRow, currentPeriod, classData>>
  BY DEF addTeacher
<1>2. reopened' \in BOOLEAN /\ (fading => reopened')
  BY Zenon DEF addTeacher
<1>3. ChoiceTypeOK' /\ DialogTypeOK'
  BY <1>0, <1>1, <1>2 DEF ChoiceTypeOK, DialogTypeOK
<1>4. FormTypeOK'
  BY <1>0, <1>1, <1>3 DEF FormTypeOK, docVars
<1>5. TeacherPickerRow = 1
  BY <1>0, <1>1 DEF DialogInv, DialogReset
<1>6. DialogInv'
  BY <1>1, <1>2, <1>5
  DEF DialogInv, DialogReset, TitleAsShown, LockedInFade, LockedOnlyByDialog
<1>7. ChoiceInv'
  BY <1>1 DEF FormInv, ChoiceInv, ChoiceCopied, CreatedAsShown, StaffRowStable, WheelAgrees
<1> QED BY <1>1, <1>4, <1>6, <1>7 DEF FormInv, ReturnsClashFree

(* The completion of animateOut removes the dialog, also one that has been *)
(* opened again: LockedInFade says that only this leaves the form locked.  *)
LEMMA FadeDoneInv == FormInv /\ FadeDone => FormInv'
<1> SUFFICES ASSUME FormInv, FadeDone PROVE FormInv'
  OBVIOUS
<1>1. DialogTypeOK'
  BY DEF FormInv, FormTypeOK, DialogTypeOK, FadeDone
<1>2. DialogInv'
  BY DEF FormInv, DialogInv, DialogReset, TitleAsShown, LockedInFade, LockedOnlyByDialog,
         FadeDone
<1> QED BY <1>1, <1>2, OnlyDialog DEF FadeDone

LEMMA TypeTeacherLastInv == FormInv /\ TypeTeacherLast => FormInv'
<1> SUFFICES ASSUME FormInv, TypeTeacherLast PROVE FormInv'
  OBVIOUS
<1>1. teacherLast' \in BOOLEAN
  BY Zenon DEF TypeTeacherLast
<1>2. DialogTypeOK'
  BY <1>1 DEF FormInv, FormTypeOK, DialogTypeOK, TypeTeacherLast
<1>3. DialogInv'
  BY DEF FormInv, DialogInv, DialogReset, TitleAsShown, LockedInFade, LockedOnlyByDialog,
         TypeTeacherLast
<1> QED BY <1>2, <1>3, OnlyDialog DEF TypeTeacherLast

LEMMA pickTitleInv ==
    ASSUME FormInv, NEW row \in 1 .. FacTitles, pickTitle(row)
    PROVE  FormInv'
<1>1. row \in Nat
  BY AddClassAssumption
<1>2. DialogTypeOK'
  BY <1>1 DEF FormInv, FormTypeOK, DialogTypeOK, pickTitle
<1>3. DialogInv'
  BY DEF FormInv, DialogInv, DialogReset, TitleAsShown, LockedInFade, LockedOnlyByDialog,
         pickTitle, OnDialog
<1> QED BY <1>2, <1>3, OnlyDialog DEF pickTitle

(* Both ways out of the dialog reset its picker and unlock the form. *)
LEMMA CloseDialogSound ==
    ASSUME FormInv, CloseDialog
    PROVE  DialogTypeOK' /\ DialogInv'
<1>1. DialogTypeOK'
  BY DEF FormInv, FormTypeOK, DialogTypeOK, CloseDialog
<1>2. DialogInv'
  BY DEF DialogInv, DialogReset, TitleAsShown, LockedInFade, LockedOnlyByDialog, CloseDialog
<1> QED BY <1>1, <1>2

LEMMA cancelAddTeacherInv == FormInv /\ cancelAddTeacher => FormInv'
  BY CloseDialogSound, OnlyDialog DEF cancelAddTeacher

(* A new teacher comes last, so the rows of the others stay. *)
LEMMA endAddTeacherInv ==
    ASSUME FormInv, NEW t \in Faculty, endAddTeacher(t)
    PROVE  FormInv'
<1>0. FormTypeOK /\ ChoiceTypeOK /\ DialogTypeOK
  BY DEF FormInv, FormTypeOK
<1>1. /\ UNCHANGED <<courseDocs, scheduleToReturn, newCrs, choiceVars>>
      /\ alert = "none"
  BY DEF endAddTeacher, OnDialog, OnForm
<1>2. ChoiceTypeOK'
  BY <1>0, <1>1 DEF ChoiceTypeOK, choiceVars
<1>3. CASE verifyNewTeacher
  <2>1. /\ facultyDocs' = [facultyDocs EXCEPT ![school.id] = facultyDocs[school.id] \cup {t}]
        /\ school' = [school EXCEPT !.Staff = Append(school.Staff, t)]
        /\ CloseDialog /\ UNCHANGED alert
    BY <1>3 DEF endAddTeacher, NewFaculty
  <2>2. /\ school.Staff \in Seq(Faculty) /\ school.id \in School
        /\ Len(school.Staff) \in Nat /\ DOMAIN school.Staff = 1 .. Len(school.Staff)
    BY <1>0, LenProperties DEF FormTypeOK
  <2> DEFINE new == Append(school.Staff, t)
  <2>3. /\ new \in Seq(Faculty) /\ DOMAIN new = 1 .. Len(school.Staff) + 1
        /\ \A i \in 1 .. Len(school.Staff) : new[i] = school.Staff[i]
    BY <2>2, AppendProperties, LenProperties
  <2> HIDE DEF new
  <2>4. /\ school' \in [id : School, Staff : Seq(Faculty)]
        /\ school'.Staff = new /\ school'.id = school.id
    BY <1>0, <2>1, <2>3 DEF FormTypeOK, new
  <2>5. facultyDocs' \in [School -> SUBSET Faculty]
    BY <1>0, <2>1, <2>2 DEF FormTypeOK
  <2>6. DialogTypeOK' /\ DialogInv'
    BY <2>1, CloseDialogSound
  <2>7. FormTypeOK'
    BY <1>0, <1>1, <1>2, <2>1, <2>4, <2>5, <2>6 DEF FormTypeOK
  <2>8. StaffRowStable'
    BY <1>1, <2>2, <2>3, <2>4 DEF FormInv, ChoiceInv, StaffRowStable, choiceVars
  <2>9. ChoiceCopied' /\ CreatedAsShown' /\ WheelAgrees'
    BY <1>1, <2>1
    DEF FormInv, ChoiceInv, ChoiceCopied, CreatedAsShown, WheelAgrees, choiceVars, OpenAt
  <2> QED BY <1>1, <2>6, <2>7, <2>8, <2>9 DEF FormInv, ChoiceInv, ReturnsClashFree
<1>4. CASE ~verifyNewTeacher
  <2>1. alert' = "teacher refused" /\ UNCHANGED <<facultyDocs, school, dialogVars>>
    BY <1>4 DEF endAddTeacher
  <2>2. DialogTypeOK'
    BY <1>0, <2>1 DEF DialogTypeOK, dialogVars
  <2>3. FormTypeOK'
    BY <1>0, <1>1, <1>2, <2>1, <2>2 DEF FormTypeOK
  <2>4. ChoiceInv'
    BY <1>1, <2>1
    DEF FormInv, ChoiceInv, ChoiceCopied, CreatedAsShown, StaffRowStable, WheelAgrees,
        choiceVars, OpenAt
  <2>5. DialogInv'
    BY <2>1, DialogKept
  <2> QED BY <1>1, <2>3, <2>4, <2>5 DEF FormInv, ReturnsClashFree
<1> QED BY <1>3, <1>4

LEMMA OkRefusedInv == FormInv /\ OkRefused => FormInv'
<1> SUFFICES ASSUME FormInv, OkRefused PROVE FormInv'
  OBVIOUS
<1>1. ChoiceTypeOK' /\ DialogTypeOK'
  BY DEF FormInv, FormTypeOK, ChoiceTypeOK, DialogTypeOK, OkRefused, choiceVars, dialogVars
<1>2. FormTypeOK'
  BY <1>1 DEF FormInv, FormTypeOK, OkRefused, docVars
<1>3. ChoiceInv'
  BY DEF FormInv, ChoiceInv, ChoiceCopied, CreatedAsShown, StaffRowStable, WheelAgrees,
         choiceVars, OpenAt, OkRefused
<1>4. DialogInv'
  BY DialogKept DEF OkRefused
<1> QED BY <1>2, <1>3, <1>4 DEF FormInv, ReturnsClashFree, OkRefused

-----------------------------------------------------------------------------
(* Creating the course and leaving *)

LEMMA AddClassInv ==
    ASSUME FormInv, NEW c \in Course, AddClass(c)
    PROVE  FormInv'
<1>0. FormTypeOK /\ ChoiceTypeOK /\ DialogTypeOK /\ ChoiceCopied
  BY DEF FormInv, ChoiceInv, FormTypeOK
<1>1. /\ classData' = updateUserInfo /\ pickerHidden' = TRUE /\ alert = "none"
      /\ UNCHANGED <<facultyDocs, dialogVars, school, scheduleToReturn, ClassTitle>>
      /\ UNCHANGED <<currentSelectorItem, wheel, currentTeacher>>
      /\ UNCHANGED <<currentTeacherRow, currentPeriod>>
  BY DEF AddClass, OnForm
<1>2. ChoiceTypeOK' /\ DialogTypeOK'
  BY <1>0, <1>1, updateUserInfoSound DEF ChoiceTypeOK, DialogTypeOK, dialogVars
<1>3. ChoiceCopied' /\ StaffRowStable' /\ WheelAgrees'
  BY <1>0, <1>1, updateUserInfoSound
  DEF FormInv, ChoiceInv, ChoiceCopied, StaffRowStable, WheelAgrees
<1>4. DialogInv' /\ ReturnsClashFree'
  BY <1>1, DialogKept DEF FormInv, ReturnsClashFree
<1>5. CASE verification
  <2>1. Complete(updateUserInfo)
    BY <1>0, <1>5, VerifiedIsComplete
  <2>2. /\ alert' = "class added" /\ newCrs' = c /\ courseDocs' = courseDocs \cup {c}
        /\ period[c] = updateUserInfo.period /\ schoolId[c] = updateUserInfo.schoolId
    BY <1>5, <2>1 DEF AddClass, NewCourse
  <2>3. FormTypeOK'
    BY <1>0, <1>1, <1>2, <2>2 DEF FormTypeOK
  <2>4. currentTeacher # Nil /\ currentPeriod # Nil /\ c # Nil
    BY <1>5, NilAssumption DEF verification
  <2>5. CreatedAsShown'
    BY <1>0, <1>1, <2>2, <2>4, updateUserInfoSound DEF CreatedAsShown
  <2> QED BY <1>3, <1>4, <2>3, <2>5 DEF FormInv, ChoiceInv
<1>6. CASE ~verification
  <2>1. UNCHANGED <<alert, newCrs, courseDocs>>
    BY <1>6 DEF AddClass
  <2>2. FormTypeOK' /\ CreatedAsShown'
    BY <1>0, <1>1, <1>2, <2>1 DEF FormTypeOK, CreatedAsShown
  <2> QED BY <1>3, <1>4, <2>2 DEF FormInv, ChoiceInv
<1> QED BY <1>5, <1>6

LEMMA FormLeaveInv == FormInv /\ FormLeave => FormInv'
<1> SUFFICES ASSUME FormInv, FormLeave PROVE FormInv'
  OBVIOUS
<1>0. FormTypeOK /\ UNCHANGED <<docVars, school, newCrs, choiceVars, dialogVars>>
  BY DEF FormInv, FormLeave, OkAdded, cancelAddClass, formVars
<1>1. ChoiceTypeOK' /\ DialogTypeOK'
  BY <1>0 DEF FormTypeOK, ChoiceTypeOK, DialogTypeOK, choiceVars, dialogVars
<1>2. DialogInv'
  BY <1>0, DialogKept
<1>3. CASE OkAdded
  <2>1. /\ newCrs \in Course /\ alert' = "none"
        /\ scheduleToReturn' = WithNewCourse(scheduleToReturn, newCrs)
    BY <1>0, <1>3 DEF OkAdded, FormTypeOK
  <2>2. scheduleToReturn' \in {Nil} \cup Schedules /\ ReturnsClashFree'
    BY <1>0, <2>1, WithNewCourseSound DEF FormInv, FormTypeOK, ReturnsClashFree
  <2>3. FormTypeOK'
    BY <1>0, <1>1, <2>1, <2>2 DEF FormTypeOK, docVars
  <2>4. ChoiceInv'
    BY <1>0, <2>1
    DEF FormInv, ChoiceInv, ChoiceCopied, CreatedAsShown, StaffRowStable, WheelAgrees,
        choiceVars, OpenAt
  <2> QED BY <1>2, <2>2, <2>3, <2>4 DEF FormInv
<1>4. CASE cancelAddClass
  <2>1. UNCHANGED <<scheduleToReturn, alert>>
    BY <1>4 DEF cancelAddClass, formVars
  <2>2. FormTypeOK' /\ ReturnsClashFree'
    BY <1>0, <1>1, <2>1 DEF FormInv, FormTypeOK, docVars, ReturnsClashFree
  <2> QED BY <1>0, <1>2, <2>1, <2>2, ChoiceKept DEF FormInv
<1> QED BY <1>3, <1>4 DEF FormLeave

-----------------------------------------------------------------------------
(* Nothing but the form's own steps, and other students, changes it. *)
LEMMA FormKept == FormInv /\ UNCHANGED <<docVars, formVars>> => FormInv'
<1> SUFFICES ASSUME FormInv, UNCHANGED <<docVars, formVars>> PROVE FormInv'
  OBVIOUS
<1>1. /\ UNCHANGED <<docVars, choiceVars, dialogVars>>
      /\ UNCHANGED <<school, scheduleToReturn, alert, newCrs>>
  BY DEF formVars
<1>2. DialogTypeOK'
  BY <1>1 DEF FormInv, FormTypeOK, DialogTypeOK, dialogVars
<1> QED BY <1>1, <1>2, DialogKept, OnlyDialog

LEMMA FormNextInv ==
    FormInv /\ [FormNext]_<<appVars, docVars, formVars>> => FormInv'
<1> SUFFICES ASSUME FormInv, [FormNext]_<<appVars, docVars, formVars>> PROVE FormInv'
  OBVIOUS
<1>1. CASE FormTouch
  BY <1>1, FieldEventInv, TypeTitleInv, OpenWheelInv, pickRowInv, addTeacherInv,
     TypeTeacherLastInv, cancelAddTeacherInv, OkRefusedInv, pickTitleInv,
     endAddTeacherInv, AddClassInv
  DEF FormTouch
<1>2. CASE FadeDone
  BY <1>2, FadeDoneInv
<1>3. CASE FormLeave
  BY <1>3, FormLeaveInv
<1>4. CASE UNCHANGED <<appVars, docVars, formVars>>
  BY <1>4, FormKept
<1> QED BY <1>1, <1>2, <1>3, <1>4 DEF FormNext

(* The inductive invariant holds in every reachable state of the form,     *)
(* from which the theorems below follow.                                   *)
THEOREM FormInvariant == FormSpec => []FormInv
  BY FormInitInv, FormNextInv, PTL DEF FormSpec

(* Every variable of the form keeps its type, whatever the user taps. *)
THEOREM FormTypeCorrect == FormSpec => []FormTypeOK
<1>1. FormInv => FormTypeOK
  BY DEF FormInv
<1> QED BY <1>1, FormInvariant, PTL

(* A course that the form reports as added is the one the form shows: the  *)
(* dictionary is complete and no entry of it is stale (updateUserInfo and  *)
(* the order of its calls in Teacher, Period and AddClass).                *)
THEOREM CourseAsShown == FormSpec => []CreatedAsShown
<1>1. FormInv => CreatedAsShown
  BY DEF FormInv, ChoiceInv
<1> QED BY <1>1, FormInvariant, PTL

(* The wheels agree with the choices they edit: the row of the teacher is  *)
(* not shifted by new teachers (endAddTeacher), and an open wheel stands   *)
(* on the choice (Teacher, Period).                                        *)
THEOREM WheelsTruthful == FormSpec => []WheelsAsChosen
<1>1. FormInv => WheelsAsChosen
  BY DEF FormInv, ChoiceInv, WheelsAsChosen
<1> QED BY <1>1, FormInvariant, PTL

(* The dialog creates a teacher with the title it shows, and the form is   *)
(* locked without a dialog only after a tap during a fade (animateOut).    *)
THEOREM DialogSound == FormSpec => []DialogTruthful
<1>1. FormInv => DialogTruthful
  BY DEF FormInv, DialogInv, DialogTruthful
<1> QED BY <1>1, FormInvariant, PTL

(* The schedule handed back to ChooseClasses has no period twice. *)
THEOREM ReturnSound == FormSpec => []ReturnsClashFree
<1>1. FormInv => ReturnsClashFree
  BY DEF FormInv
<1> QED BY <1>1, FormInvariant, PTL
=============================================================================
