----------------------------- MODULE Documents -----------------------------
(***************************************************************************)
(* What the app writes to Firestore and what it reads back: the property   *)
(* data of School, Course and Faculty, their initialisers from a document, *)
(* and the three queries that decode whole collections (Objects.swift,     *)
(* DBQueries.swift).  There is one school whose faculty and courses are    *)
(* followed; the collection of schools is a collection of its own.         *)
(*                                                                         *)
(* A value of a dictionary is a pair of its Swift type and its content, so *)
(* that a cast (as? String) is a test of the first component.  Texts stand *)
(* for themselves; of the five texts a school needs besides its id only    *)
(* displayName is kept, the others are treated in the same way.            *)
(*                                                                         *)
(* Firestore (external): setData puts a write into the queue of the        *)
(* device, from where it is sent in order; the backend takes it or rejects *)
(* it.  A query answers with the documents of the backend and the writes   *)
(* still in the queue.  No call of the app has a completion for its        *)
(* writes: nobody is told of a rejection.                                  *)
(***************************************************************************)
EXTENDS Integers, Sequences, FiniteSets, SequencesExt

CONSTANTS Id,           \* document ids, those not used yet included
          ByHand,       \* the documents somebody may enter in the console
          Nil           \* Swift's nil

ASSUME IdAssumption == IsFiniteSet(Id) /\ Nil \notin Id

ASSUME ByHandAssumption == \A doc \in ByHand : ~doc.byApp

-----------------------------------------------------------------------------
(* Dictionaries [String : Any] *)

String(x) == <<"String", x>>
Int_(n)   == <<"Int", n>>
Dict(d)   == <<"Dict", d>>

With(d, key, value) ==
    [k \in DOMAIN d \cup {key} |-> IF k = key THEN value ELSE d[k]]

(* tempDict[key] = value if there is one *)
WithOptional(d, key, value, As(_)) == IF value = Nil THEN d ELSE With(d, key, As(value))

(* data[key] as? T, and data[key] as? T?, which takes a missing key too *)
Is(d, key, T)         == key \in DOMAIN d /\ d[key][1] = T
IsOptional(d, key, T) == key \notin DOMAIN d \/ d[key][1] = T
Get(d, key)           == IF key \in DOMAIN d THEN d[key][2] ELSE Nil

Ok(x)  == [error |-> "none", value |-> x]
Err(e) == [error |-> e, value |-> Nil]

-----------------------------------------------------------------------------
(* Types.swift *)
FacTitle == {"Mr.", "Prf"}    \* FacTitle(rawValue:), two of the eight
SchoolType == <<"Public", "Private", "Trade">>   \* rawValue is the position

(* struct Faculty.  Nothing in the app gives a teacher an account or a     *)
(* schedule; a document entered by hand may have them.                     *)
Faculties == [id : Id, lastName : {"L"}, firstName : {Nil, "F"}, title : FacTitle,
              account : {Nil}, schedule : {Nil}]

Faculty_data(f) ==
    LET d == [id |-> String(f.id), lastName |-> String(f.lastName), title |-> String(f.title)]
    IN  WithOptional(WithOptional(WithOptional(d, "account", f.account, Dict),
                                  "firstName", f.firstName, String),
                     "schedule", f.schedule, Dict)

(* Mutant: the first name is required. *)
Faculty_init_strict(d) ==
    IF ~Is(d, "id", "String") \/ ~Is(d, "lastName", "String") \/ ~Is(d, "firstName", "String")
       \/ ~Is(d, "title", "String")
    THEN Err("firebaseInterpretationError")
    ELSE IF Get(d, "title") \notin FacTitle THEN Err("stringToTypeError")
    ELSE Ok([id |-> Get(d, "id"), lastName |-> Get(d, "lastName"),
             firstName |-> Get(d, "firstName"), title |-> Get(d, "title"),
             account |-> Nil, schedule |-> Nil])

(* Faculty.init(data:).  A dictionary is no Account and no Schedule: both  *)
(* casts fail and the entry is dropped.                                    *)
Faculty_init(d) ==
    IF ~Is(d, "id", "String") \/ ~Is(d, "lastName", "String")
       \/ ~IsOptional(d, "firstName", "String") \/ ~Is(d, "title", "String")
    THEN Err("firebaseInterpretationError")
    ELSE IF Get(d, "title") \notin FacTitle THEN Err("stringToTypeError")
    ELSE Ok([id |-> Get(d, "id"), lastName |-> Get(d, "lastName"),
             firstName |-> Get(d, "firstName"), title |-> Get(d, "title"),
             account |-> Nil, schedule |-> Nil])

(* struct Course *)
Courses == [displayName : {"C"}, id : Id, teacher : Faculties, period : {1},
            classroom : {Nil, "R"}]

Course_data(c) ==
    WithOptional([displayName |-> String(c.displayName), id |-> String(c.id),
                  teacher |-> Dict(Faculty_data(c.teacher)), period |-> Int_(c.period)],
                 "classroom", c.classroom, String)

(* Mutant: the error of the teacher is passed on as it is. *)
Course_init_rethrow(d) ==
    IF ~Is(d, "displayName", "String") \/ ~Is(d, "teacher", "Dict") \/ ~Is(d, "period", "Int")
       \/ ~IsOptional(d, "classroom", "String") \/ ~Is(d, "id", "String")
    THEN Err("firebaseInterpretationError")
    ELSE LET t == Faculty_init(Get(d, "teacher"))
         IN  IF t.error # "none" THEN t
             ELSE Ok([displayName |-> Get(d, "displayName"), id |-> Get(d, "id"),
                      teacher |-> t.value, period |-> Get(d, "period"),
                      classroom |-> Get(d, "classroom")])

(* Course.init(data:) *)
Course_init(d) ==
    IF ~Is(d, "displayName", "String") \/ ~Is(d, "teacher", "Dict") \/ ~Is(d, "period", "Int")
       \/ ~IsOptional(d, "classroom", "String") \/ ~Is(d, "id", "String")
    THEN Err("firebaseInterpretationError")
    ELSE LET t == Faculty_init(Get(d, "teacher"))
         IN  IF t.error # "none" THEN Err("firebaseInterpretationError")
             ELSE Ok([displayName |-> Get(d, "displayName"), id |-> Get(d, "id"),
                      teacher |-> t.value, period |-> Get(d, "period"),
                      classroom |-> Get(d, "classroom")])

(* struct School; type is the position in SchoolType *)
School_data(s) ==
    WithOptional([displayName |-> String(s.displayName), id |-> String(s.id),
                  type |-> Int_(s.type)],
                 "maxStudentCourseLoad", s.MaxStudentCourseLoad, Int_)

(* Mutant: the type may also be the raw value. *)
School_init_rawValue(d) ==
    IF ~Is(d, "displayName", "String") \/ ~Is(d, "id", "String") \/ "type" \notin DOMAIN d
    THEN Err("firebaseInterpretationError")
    ELSE IF Is(d, "maxStudentCourseLoad", "Int")
    THEN Ok([displayName |-> Get(d, "displayName"), id |-> Get(d, "id"), type |-> 1,
             MaxStudentCourseLoad |-> Get(d, "maxStudentCourseLoad")])
    ELSE Err("firebaseInterpretationError")

(* School.init(data:) *)
School_init(d) ==
    IF ~Is(d, "displayName", "String") \/ ~Is(d, "id", "String") \/ ~Is(d, "type", "String")
    THEN Err("firebaseInterpretationError")
    ELSE IF ~Contains(SchoolType, Get(d, "type")) THEN Err("stringToTypeError")
    ELSE IF ~Is(d, "maxStudentCourseLoad", "Int") THEN Err("firebaseInterpretationError")
    ELSE Ok([displayName |-> Get(d, "displayName"), id |-> Get(d, "id"),
             type |-> CHOOSE i \in DOMAIN SchoolType : SchoolType[i] = Get(d, "type"),
             MaxStudentCourseLoad |-> Get(d, "maxStudentCourseLoad")])

-----------------------------------------------------------------------------
VARIABLES
    backend,   \* the documents of the backend
    queue,     \* the writes of this device that have not been answered
    staff,     \* the teachers the form offers: getFaculty's answer and those just created
    answer,    \* what the completion of the last query was called with, or Nil
    created,   \* the courses "Your Class Has Been Added" was said of
    rejected   \* history: the ids whose write was rejected

docVars == <<backend, queue, staff, answer, created, rejected>>

(* A document: its collection, its id and its dictionary.  byApp tells who *)
(* wrote it; nobody reads that.                                            *)
Doc(in, id, data, byApp) == [in |-> in, id |-> id, data |-> data, byApp |-> byApp]

Written == backend \cup ToSet(queue)
Visible(in) == {d \in Written : d.in = in}

(* Firestore's ids are fresh. *)
NewIds == Id \ ({d.id : d \in Written \cup ByHand} \cup rejected)

DocInit ==
    /\ backend = {} /\ queue = <<>> /\ staff = <<>> /\ answer = Nil
    /\ created = {} /\ rejected = {}

(* docRef.setData(self.data), for a new document *)
setData(in, id, data) == queue' = Append(queue, Doc(in, id, data, TRUE))

(* School.init(ref:...) *)
School_initRef(id, type, max) ==
    /\ setData("schools", id, School_data([displayName |-> "S", id |-> id, type |-> type,
                                           MaxStudentCourseLoad |-> max]))
    /\ UNCHANGED <<backend, staff, answer, created, rejected>>

(* Faculty.init(ref:data:), from endAddTeacher, which offers the teacher.  *)
Faculty_initRef(id, firstName, title) ==
    /\ LET f == [id |-> id, lastName |-> "L", firstName |-> firstName, title |-> title,
                 account |-> Nil, schedule |-> Nil]
       IN  setData("faculty", id, Faculty_data(f)) /\ staff' = Append(staff, f)
    /\ UNCHANGED <<backend, answer, created, rejected>>

(* Course.init(ref:data:), from addClass, which says that it was added.    *)
Course_initRef(id, teacher, classroom) ==
    /\ LET c == [displayName |-> "C", id |-> id, teacher |-> teacher, period |-> 1,
                 classroom |-> classroom]
       IN  setData("courseList", id, Course_data(c)) /\ created' = created \cup {c}
    /\ UNCHANGED <<backend, staff, answer, rejected>>

(* Somebody enters a document in the console. *)
EnterByHand(doc) ==
    /\ doc \notin backend
    /\ backend' = backend \cup {doc}
    /\ UNCHANGED <<queue, staff, answer, created, rejected>>

(* The backend answers the first write of the queue. *)
Taken ==
    /\ queue # <<>>
    /\ backend' = backend \cup {Head(queue)}
    /\ queue' = Tail(queue)
    /\ UNCHANGED <<staff, answer, created, rejected>>

Rejected ==
    /\ queue # <<>>
    /\ queue' = Tail(queue)
    /\ rejected' = rejected \cup {Head(queue).id}
    /\ UNCHANGED <<backend, staff, answer, created>>

-----------------------------------------------------------------------------
(* The queries.  docs is the order in which getDocuments lists them.       *)

(* The loop of a query over its documents: it stops at an error in Stop,   *)
(* and skips a document with any other.                                    *)
Blocks(docs, Init(_), Stop) == \E i \in DOMAIN docs : Init(docs[i].data).error \in Stop

Nth(S, k) == CHOOSE i \in S : Cardinality({j \in S : j <= i}) = k

Decoded(docs, Init(_)) ==
    LET good == {i \in DOMAIN docs : Init(docs[i].data).error = "none"}
    IN  [k \in 1 .. Cardinality(good) |-> Init(docs[Nth(good, k)].data).value]

AllErrors == {"firebaseInterpretationError", "stringToTypeError"}

Orders(S) == {q \in [1 .. Cardinality(S) -> S] : IsInjective(q)}

Answered(in, list, docs) == answer' = [in |-> in, list |-> list, docs |-> docs]

(* Mutant: a document that cannot be decoded is left out. *)
getSchoolList_skip(docs) ==
    /\ Answered("schools", Decoded(docs, School_init), docs)
    /\ UNCHANGED <<backend, queue, staff, created, rejected>>

(* func getSchoolList, when it calls its completion *)
getSchoolList(docs) ==
    /\ ~Blocks(docs, School_init, AllErrors)
    /\ Answered("schools", Decoded(docs, School_init), docs)
    /\ UNCHANGED <<backend, queue, staff, created, rejected>>

(* School.getFaculty; prepare gives the answer to the form as its staff.   *)
getFaculty(docs) ==
    /\ ~Blocks(docs, Faculty_init, AllErrors)
    /\ Answered("faculty", Decoded(docs, Faculty_init), docs)
    /\ staff' = Decoded(docs, Faculty_init)
    /\ UNCHANGED <<backend, queue, created, rejected>>

(* School.getCourseList: an error of another kind skips the course.        *)
getCourseList(docs) ==
    /\ ~Blocks(docs, Course_init, {"firebaseInterpretationError"})
    /\ Answered("courseList", Decoded(docs, Course_init), docs)
    /\ UNCHANGED <<backend, queue, staff, created, rejected>>

Query ==
    \/ \E docs \in Orders(Visible("schools")) : getSchoolList(docs)
    \/ \E docs \in Orders(Visible("faculty")) : getFaculty(docs)
    \/ \E docs \in Orders(Visible("courseList")) : getCourseList(docs)

DocNext ==
    \/ \E id \in NewIds, type \in DOMAIN SchoolType, max \in {Nil, 8} : School_initRef(id, type, max)
    \/ \E id \in NewIds, f \in {Nil, "F"}, t \in FacTitle : Faculty_initRef(id, f, t)
    \/ \E id \in NewIds, t \in ToSet(staff), r \in {Nil, "R"} : Course_initRef(id, t, r)
    \/ \E doc \in ByHand : EnterByHand(doc)
    \/ Taken \/ Rejected \/ Query

DocSpec == DocInit /\ [][DocNext]_docVars

-----------------------------------------------------------------------------
(* Properties *)

(* A course that was created reads back as the course that was created,    *)
(* its teacher included, whoever the teacher is and whatever was left      *)
(* empty (data against init(data:), for Course and Faculty).               *)
CreatedReadsBack ==
    \A c \in created : \A d \in Visible("courseList") :
        d.id = c.id => Course_init(d.data) = Ok(c)

(* A completion is called with the whole collection or not at all: a       *)
(* document that cannot be decoded is never left out in silence.           *)
AllOrNothing == answer # Nil => Len(answer.list) = Len(answer.docs)

(* School.data writes the type as a number and School.init(data:) wants a  *)
(* text, so a school the app has written is in no list, and keeps every    *)
(* other school from being listed: all schools of a list were entered by   *)
(* hand.                                                                   *)
SchoolsByHand ==
    answer # Nil /\ answer.in = "schools" => \A i \in DOMAIN answer.docs : ~answer.docs[i].byApp

-----------------------------------------------------------------------------
(* What the repository says and the code does not do *)

(* "Your Class Has Been Added" (AddClassViewController.swift, 317): the    *)
(* course is among the documents.                                          *)
HasBeenAdded == \A c \in created : \E d \in Written : d.in = "courseList" /\ d.id = c.id
=============================================================================
