-------------------------- MODULE Documents_proofs --------------------------
(***************************************************************************)
(* Theorems about what the app writes to Firestore and reads back, for any *)
(* number of documents and whatever is entered by hand.                    *)
(***************************************************************************)
EXTENDS Documents, FiniteSetTheorems, SequenceTheorems, TLAPS

(* The teachers a form can offer: those the app creates, and those it      *)
(* decodes from documents entered by hand.                                 *)
Teachers ==
    Faculties \cup {Faculty_init(doc.data).value :
                       doc \in {e \in ByHand : Faculty_init(e.data).error = "none"}}

(* The courses it creates, and the documents it writes *)
CoursesMade == [displayName : {"C"}, id : Id, teacher : Teachers, period : {1},
                classroom : {Nil, "R"}]

SchoolsMade == [displayName : {"S"}, id : Id, type : DOMAIN SchoolType,
                MaxStudentCourseLoad : {Nil, 8}]

AppDocs == {Doc("schools", s.id, School_data(s), TRUE) : s \in SchoolsMade}
           \cup {Doc("faculty", f.id, Faculty_data(f), TRUE) : f \in Faculties}
           \cup {Doc("courseList", c.id, Course_data(c), TRUE) : c \in CoursesMade}

DocTypeOK ==
    /\ backend \subseteq AppDocs \cup ByHand /\ IsFiniteSet(backend)
    /\ queue \in Seq(AppDocs)
    /\ staff \in Seq(Teachers)
    /\ created \subseteq CoursesMade

(* An id is used once: the id of a created course is that of its document, *)
(* of no other and of none that may be entered by hand.                    *)
IdsFresh ==
    \A c \in created :
        /\ c.id \notin {d.id : d \in ByHand}
        /\ c.id \in {d.id : d \in Written} \cup rejected
        /\ \A d \in Written : d.in = "courseList" /\ d.id = c.id => d.data = Course_data(c)

(* The inductive invariant *)
DocInv == DocTypeOK /\ IdsFresh /\ AllOrNothing /\ SchoolsByHand

-----------------------------------------------------------------------------
(* The codec *)

(* What Faculty.init keeps of a dictionary is a teacher without account    *)
(* and schedule, of a known title.                                         *)
LEMMA FacultyShape ==
    ASSUME NEW d, Faculty_init(d).error = "none"
    PROVE  LET t == Faculty_init(d).value
           IN  /\ t = [id |-> t.id, lastName |-> t.lastName, firstName |-> t.firstName,
                       title |-> t.title, account |-> Nil, schedule |-> Nil]
               /\ t.title \in FacTitle
  BY DEF Faculty_init, Ok, Err

LEMMA TeacherShape ==
    ASSUME NEW t \in Teachers
    PROVE  /\ t = [id |-> t.id, lastName |-> t.lastName, firstName |-> t.firstName,
                   title |-> t.title, account |-> Nil, schedule |-> Nil]
           /\ t.title \in FacTitle
<1>1. CASE t \in Faculties
  BY <1>1 DEF Faculties
<1>2. CASE t \notin Faculties
  <2>1. PICK doc \in ByHand : Faculty_init(doc.data).error = "none"
                              /\ t = Faculty_init(doc.data).value
    BY <1>2 DEF Teachers
  <2> QED BY <2>1, FacultyShape
<1> QED BY <1>1, <1>2

(* A teacher is decoded from the dictionary made of it. *)
LEMMA FacultyReadsBack ==
    ASSUME NEW t, t = [id |-> t.id, lastName |-> t.lastName, firstName |-> t.firstName,
                       title |-> t.title, account |-> Nil, schedule |-> Nil],
           t.title \in FacTitle
    PROVE  Faculty_init(Faculty_data(t)) = Ok(t)
<1> DEFINE base == [id |-> String(t.id), lastName |-> String(t.lastName),
                    title |-> String(t.title)]
           d    == IF t.firstName = Nil THEN base
                   ELSE With(base, "firstName", String(t.firstName))
<1>0. t.account = Nil /\ t.schedule = Nil
  OBVIOUS
<1>1. Faculty_data(t) = d
  BY <1>0 DEF Faculty_data, WithOptional
<1>2. /\ DOMAIN d = {"id", "lastName", "title"} \cup
                    (IF t.firstName = Nil THEN {} ELSE {"firstName"})
      /\ d["id"] = String(t.id) /\ d["lastName"] = String(t.lastName)
      /\ d["title"] = String(t.title)
      /\ t.firstName # Nil => d["firstName"] = String(t.firstName)
  BY DEF With
<1> HIDE DEF d
<1>3. /\ Is(d, "id", "String") /\ Is(d, "lastName", "String") /\ Is(d, "title", "String")
      /\ IsOptional(d, "firstName", "String")
  BY <1>2 DEF Is, IsOptional, String
<1>4. /\ Get(d, "id") = t.id /\ Get(d, "lastName") = t.lastName /\ Get(d, "title") = t.title
      /\ Get(d, "firstName") = t.firstName
  BY <1>2 DEF Get, String
<1>5. Faculty_init(d) = Ok([id |-> Get(d, "id"), lastName |-> Get(d, "lastName"),
             firstName |-> Get(d, "firstName"), title |-> Get(d, "title"),
             account |-> Nil, schedule |-> Nil])
  BY <1>3, <1>4 DEF Faculty_init
<1> QED BY <1>1, <1>4, <1>5

(* So is a course. *)
LEMMA CourseReadsBack ==
    ASSUME NEW c \in CoursesMade
    PROVE  Course_init(Course_data(c)) = Ok(c)
<1> DEFINE base == [displayName |-> String(c.displayName), id |-> String(c.id),
                    teacher |-> Dict(Faculty_data(c.teacher)), period |-> Int_(c.period)]
           d    == IF c.classroom = Nil THEN base
                   ELSE With(base, "classroom", String(c.classroom))
<1>0. /\ c.teacher \in Teachers
      /\ c = [displayName |-> c.displayName, id |-> c.id, teacher |-> c.teacher,
              period |-> c.period, classroom |-> c.classroom]
  BY DEF CoursesMade
<1>1. Course_data(c) = d
  BY DEF Course_data, WithOptional
<1>2. /\ DOMAIN d = {"displayName", "id", "teacher", "period"} \cup
                    (IF c.classroom = Nil THEN {} ELSE {"classroom"})
      /\ d["displayName"] = String(c.displayName) /\ d["id"] = String(c.id)
      /\ d["teacher"] = Dict(Faculty_data(c.teacher)) /\ d["period"] = Int_(c.period)
      /\ c.classroom # Nil => d["classroom"] = String(c.classroom)
  BY DEF With
<1> HIDE DEF d
<1>3. /\ Is(d, "displayName", "String") /\ Is(d, "id", "String") /\ Is(d, "teacher", "Dict")
      /\ Is(d, "period", "Int") /\ IsOptional(d, "classroom", "String")
  BY <1>2 DEF Is, IsOptional, String, Dict, Int_
<1>4. /\ Get(d, "displayName") = c.displayName /\ Get(d, "id") = c.id
      /\ Get(d, "teacher") = Faculty_data(c.teacher) /\ Get(d, "period") = c.period
      /\ Get(d, "classroom") = c.classroom
  BY <1>2 DEF Get, String, Dict, Int_
<1>5. Faculty_init(Get(d, "teacher")) = Ok(c.teacher)
  BY <1>0, <1>4, TeacherShape, FacultyReadsBack
<1>6. Faculty_init(Get(d, "teacher")).error = "none"
      /\ Faculty_init(Get(d, "teacher")).value = c.teacher
  BY <1>5 DEF Ok
<1>7. Course_init(d) = Ok([displayName |-> Get(d, "displayName"), id |-> Get(d, "id"),
                           teacher |-> c.teacher, period |-> Get(d, "period"),
                           classroom |-> Get(d, "classroom")])
  BY <1>3, <1>6 DEF Course_init
<1> QED BY <1>0, <1>1, <1>4, <1>7

(* A school is not: its type is written as a number and read as a text. *)
LEMMA SchoolUnreadable ==
    ASSUME NEW s \in SchoolsMade
    PROVE  School_init(School_data(s)).error = "firebaseInterpretationError"
<1> DEFINE d == School_data(s)
<1>1. "type" \in DOMAIN d /\ d["type"] = Int_(s.type)
  BY DEF School_data, WithOptional, With
<1> HIDE DEF d
<1>2. ~Is(d, "type", "String")
  BY <1>1 DEF Is, Int_
<1>3. School_init(d) = Err("firebaseInterpretationError")
  BY <1>2 DEF School_init
<1> QED BY <1>3 DEF Err, d

-----------------------------------------------------------------------------
(* The queries *)

(* A number of a full list is its own position. *)
LEMMA Positions ==
    ASSUME NEW n \in Nat
    PROVE  /\ Cardinality(1 .. n) = n
           /\ \A k \in 1 .. n : Nth(1 .. n, k) \in 1 .. n
<1>1. \A m \in Nat : Cardinality(1 .. m) = m
  <2> TAKE m \in Nat
  <2>1. IF 1 > m THEN Cardinality(1 .. m) = 0 ELSE Cardinality(1 .. m) = m - 1 + 1
    BY FS_Interval
  <2> QED BY <2>1
<1>2. ASSUME NEW k \in 1 .. n PROVE Cardinality({j \in 1 .. n : j <= k}) = k
  <2>1. {j \in 1 .. n : j <= k} = 1 .. k
    OBVIOUS
  <2>2. k \in Nat
    OBVIOUS
  <2>3. Cardinality(1 .. k) = k
    BY <1>1, <2>2
  <2> QED BY <2>1, <2>3
<1>3. ASSUME NEW k \in 1 .. n PROVE Nth(1 .. n, k) \in 1 .. n
  BY <1>2 DEF Nth
<1> QED BY <1>1, <1>3

(* getDocuments returns a list. *)
LEMMA OrdersAreLists ==
    ASSUME NEW S, IsFiniteSet(S), NEW docs \in Orders(S)
    PROVE  docs \in Seq(S) /\ Len(docs) \in Nat /\ DOMAIN docs = 1 .. Len(docs)
<1>1. Cardinality(S) \in Nat /\ docs \in [1 .. Cardinality(S) -> S]
  BY FS_CardinalityType DEF Orders
<1>2. docs \in Seq(S)
  BY <1>1, SeqDef
<1> QED BY <1>2, LenProperties

(* The documents a query meets are finitely many. *)
LEMMA VisibleFinite ==
    ASSUME DocTypeOK, NEW in
    PROVE  IsFiniteSet(Visible(in))
<1>1. queue \in Seq(AppDocs) /\ Len(queue) \in Nat /\ DOMAIN queue = 1 .. Len(queue)
  BY LenProperties DEF DocTypeOK
<1>2. IsFiniteSet(1 .. Len(queue))
  BY <1>1, FS_Interval
<1>3. IsFiniteSet({queue[i] : i \in 1 .. Len(queue)})
  <2> DEFINE T == {queue[i] : i \in 1 .. Len(queue)}
  <2>1. queue \in Surjection(1 .. Len(queue), T)
    BY <1>1, ElementOfSeq DEF Surjection
  <2> QED BY <1>2, <2>1, FS_Surjection
<1>4. IsFiniteSet(Written)
  BY <1>1, <1>3, FS_Union DEF Written, ToSet, DocTypeOK
<1> QED BY <1>4, FS_Subset DEF Visible

(* The kinds of errors *)
LEMMA ErrorKinds ==
    ASSUME NEW d
    PROVE  /\ School_init(d).error \in {"none"} \cup AllErrors
           /\ Faculty_init(d).error \in {"none"} \cup AllErrors
           /\ Course_init(d).error \in {"none", "firebaseInterpretationError"}
<1>1. School_init(d).error \in {"none"} \cup AllErrors
  BY DEF School_init, Ok, Err, AllErrors
<1>2. Faculty_init(d).error \in {"none"} \cup AllErrors
  BY DEF Faculty_init, Ok, Err, AllErrors
<1>3. Course_init(d).error \in {"none", "firebaseInterpretationError"}
  BY DEF Course_init, Ok, Err
<1> QED BY <1>1, <1>2, <1>3

(* A query that is not stopped decodes every document. *)
LEMMA SchoolsDecoded ==
    ASSUME NEW S, NEW docs \in Seq(S), ~Blocks(docs, School_init, AllErrors)
    PROVE  Len(Decoded(docs, School_init)) = Len(docs)
<1> DEFINE n    == Len(docs)
           good == {i \in DOMAIN docs : School_init(docs[i].data).error = "none"}
<1>1. DOMAIN docs = 1 .. n /\ n \in Nat
  BY LenProperties
<1>2. good = 1 .. n
  BY <1>1, ErrorKinds DEF Blocks
<1>3. Decoded(docs, School_init) =
         [k \in 1 .. Cardinality(good) |-> School_init(docs[Nth(good, k)].data).value]
  BY DEF Decoded
<1> HIDE DEF good, n
<1>4. Decoded(docs, School_init) =
         [k \in 1 .. n |-> School_init(docs[Nth(good, k)].data).value]
  BY <1>1, <1>2, <1>3, Positions
<1> QED BY <1>1, <1>4 DEF n

LEMMA CoursesDecoded ==
    ASSUME NEW S, NEW docs \in Seq(S),
           ~Blocks(docs, Course_init, {"firebaseInterpretationError"})
    PROVE  Len(Decoded(docs, Course_init)) = Len(docs)
<1> DEFINE n    == Len(docs)
           good == {i \in DOMAIN docs : Course_init(docs[i].data).error = "none"}
<1>1. DOMAIN docs = 1 .. n /\ n \in Nat
  BY LenProperties
<1>2. good = 1 .. n
  BY <1>1, ErrorKinds DEF Blocks
<1>3. Decoded(docs, Course_init) =
         [k \in 1 .. Cardinality(good) |-> Course_init(docs[Nth(good, k)].data).value]
  BY DEF Decoded
<1> HIDE DEF good, n
<1>4. Decoded(docs, Course_init) =
         [k \in 1 .. n |-> Course_init(docs[Nth(good, k)].data).value]
  BY <1>1, <1>2, <1>3, Positions
<1> QED BY <1>1, <1>4 DEF n

LEMMA FacultyDecoded ==
    ASSUME NEW S, NEW docs \in Seq(S), ~Blocks(docs, Faculty_init, AllErrors)
    PROVE  /\ Len(Decoded(docs, Faculty_init)) = Len(docs)
           /\ DOMAIN Decoded(docs, Faculty_init) = 1 .. Len(docs)
           /\ Decoded(docs, Faculty_init) = [k \in 1 .. Len(docs) |-> Decoded(docs, Faculty_init)[k]]
           /\ \A k \in 1 .. Len(docs) : \E i \in 1 .. Len(docs) :
                 /\ Faculty_init(docs[i].data).error = "none"
                 /\ Decoded(docs, Faculty_init)[k] = Faculty_init(docs[i].data).value
<1> DEFINE n    == Len(docs)
           good == {i \in DOMAIN docs : Faculty_init(docs[i].data).error = "none"}
           made == Decoded(docs, Faculty_init)
<1>1. DOMAIN docs = 1 .. n /\ n \in Nat
  BY LenProperties
<1>2. good = 1 .. n /\ \A i \in 1 .. n : Faculty_init(docs[i].data).error = "none"
  BY <1>1, ErrorKinds DEF Blocks
<1>3. made = [k \in 1 .. Cardinality(good) |-> Faculty_init(docs[Nth(good, k)].data).value]
  BY DEF Decoded
<1> HIDE DEF good, n, made
<1>4. made = [k \in 1 .. n |-> Faculty_init(docs[Nth(good, k)].data).value]
  BY <1>1, <1>2, <1>3, Positions
<1>5. \A k \in 1 .. n : Nth(good, k) \in 1 .. n
  BY <1>1, <1>2, Positions
<1>6. Len(made) = n /\ DOMAIN made = 1 .. n /\ made = [k \in 1 .. n |-> made[k]]
  BY <1>1, <1>4
<1>7. \A k \in 1 .. n : \E i \in 1 .. n : /\ Faculty_init(docs[i].data).error = "none"
                                          /\ made[k] = Faculty_init(docs[i].data).value
  BY <1>2, <1>4, <1>5
<1> QED BY <1>6, <1>7 DEF n, made

-----------------------------------------------------------------------------
(* The steps *)

(* The collection of a document tells what it was made of. *)
LEMMA AppDocKinds ==
    ASSUME NEW d \in AppDocs
    PROVE  /\ d.in = "schools" => \E s \in SchoolsMade : d.data = School_data(s)
           /\ d.in = "faculty" => \E f \in Faculties : d.data = Faculty_data(f)
<1>1. ASSUME NEW s \in SchoolsMade, d = Doc("schools", s.id, School_data(s), TRUE)
      PROVE  d.in = "schools" /\ d.data = School_data(s)
  BY <1>1 DEF Doc
<1>2. ASSUME NEW f \in Faculties, d = Doc("faculty", f.id, Faculty_data(f), TRUE)
      PROVE  d.in = "faculty" /\ d.data = Faculty_data(f)
  BY <1>2 DEF Doc
<1>3. ASSUME NEW c \in CoursesMade, d = Doc("courseList", c.id, Course_data(c), TRUE)
      PROVE  d.in = "courseList"
  BY <1>3 DEF Doc
<1> QED BY <1>1, <1>2, <1>3 DEF AppDocs

(* A document is the app's, or was entered by hand. *)
LEMMA WrittenByApp ==
    ASSUME DocTypeOK, NEW d \in Written
    PROVE  d \in AppDocs \cup ByHand
<1>1. \A i \in DOMAIN queue : queue[i] \in AppDocs
  BY LenProperties, ElementOfSeq DEF DocTypeOK
<1> QED BY <1>1 DEF Written, ToSet, DocTypeOK

(* setData appends the new document to those written. *)
LEMMA setDataWritten ==
    ASSUME DocTypeOK, NEW in, NEW id, NEW data, setData(in, id, data), backend' = backend,
           Doc(in, id, data, TRUE) \in AppDocs
    PROVE  /\ queue' \in Seq(AppDocs)
           /\ Written' = Written \cup {Doc(in, id, data, TRUE)}
<1> DEFINE doc == Doc(in, id, data, TRUE)
<1>0. queue \in Seq(AppDocs) /\ queue' = Append(queue, doc) /\ doc \in AppDocs
  BY DEF DocTypeOK, setData
<1> HIDE DEF doc
<1>1. /\ Append(queue, doc) \in Seq(AppDocs) /\ Len(Append(queue, doc)) = Len(queue) + 1
      /\ \A i \in 1 .. Len(queue) : Append(queue, doc)[i] = queue[i]
      /\ Append(queue, doc)[Len(queue) + 1] = doc
  BY <1>0, AppendProperties
<1>2. /\ DOMAIN queue = 1 .. Len(queue) /\ Len(queue) \in Nat
      /\ DOMAIN queue' = 1 .. Len(queue) + 1
  BY <1>0, <1>1, LenProperties
<1>3. ToSet(queue') = ToSet(queue) \cup {doc}
  <2>1. ASSUME NEW d \in ToSet(queue') PROVE d \in ToSet(queue) \cup {doc}
    <3>1. PICK i \in 1 .. Len(queue) + 1 : d = queue'[i]
      BY <1>2 DEF ToSet
    <3> QED BY <1>0, <1>1, <1>2, <3>1 DEF ToSet
  <2>2. ASSUME NEW d \in ToSet(queue) PROVE d \in ToSet(queue')
    <3>1. PICK i \in 1 .. Len(queue) : d = queue[i]
      BY <1>2 DEF ToSet
    <3>2. i \in 1 .. Len(queue) + 1
      BY <1>2
    <3> QED BY <1>0, <1>1, <1>2, <3>1, <3>2 DEF ToSet
  <2>3. doc \in ToSet(queue')
    <3>1. Len(queue) + 1 \in 1 .. Len(queue) + 1
      BY <1>2
    <3> QED BY <1>0, <1>1, <1>2, <3>1 DEF ToSet
  <2> QED BY <2>1, <2>2, <2>3
<1> QED BY <1>0, <1>1, <1>3 DEF Written, doc

(* The backend answers the first of them. *)
LEMMA HeadAnswered ==
    ASSUME DocTypeOK, queue # <<>>
    PROVE  /\ Head(queue) \in AppDocs /\ Tail(queue) \in Seq(AppDocs)
           /\ ToSet(queue) = ToSet(Tail(queue)) \cup {Head(queue)}
<1>0. queue \in Seq(AppDocs)
  BY DEF DocTypeOK
<1>1. /\ Head(queue) \in AppDocs /\ Tail(queue) \in Seq(AppDocs)
      /\ Len(Tail(queue)) = Len(queue) - 1
      /\ \A i \in 1 .. Len(Tail(queue)) : Tail(queue)[i] = queue[i + 1]
  BY <1>0, HeadTailProperties
<1>2. /\ DOMAIN queue = 1 .. Len(queue) /\ Len(queue) \in Nat /\ Len(queue) > 0
      /\ DOMAIN Tail(queue) = 1 .. Len(queue) - 1 /\ Head(queue) = queue[1]
  BY <1>0, <1>1, LenProperties, EmptySeq
<1>3. ASSUME NEW d \in ToSet(queue) PROVE d \in ToSet(Tail(queue)) \cup {Head(queue)}
  <2>1. PICK i \in 1 .. Len(queue) : d = queue[i]
    BY <1>2 DEF ToSet
  <2>2. CASE i = 1
    BY <1>2, <2>1, <2>2
  <2>3. CASE i # 1
    <3>1. i - 1 \in 1 .. Len(queue) - 1 /\ i - 1 + 1 = i
      BY <1>2, <2>3
    <3>2. Tail(queue)[i - 1] = d
      BY <1>1, <2>1, <3>1
    <3> QED BY <1>2, <3>1, <3>2 DEF ToSet
  <2> QED BY <2>2, <2>3
<1>4. ASSUME NEW d \in ToSet(Tail(queue)) PROVE d \in ToSet(queue)
  <2>1. PICK i \in 1 .. Len(queue) - 1 : d = Tail(queue)[i]
    BY <1>2 DEF ToSet
  <2>2. i + 1 \in 1 .. Len(queue) /\ Tail(queue)[i] = queue[i + 1]
    BY <1>1, <1>2
  <2> QED BY <1>2, <2>1, <2>2 DEF ToSet
<1>5. Head(queue) \in ToSet(queue)
  <2>1. 1 \in 1 .. Len(queue)
    BY <1>2
  <2> QED BY <1>2, <2>1 DEF ToSet
<1> QED BY <1>1, <1>3, <1>4, <1>5

(* A school or a teacher is written. *)
LEMMA OtherWritten ==
    ASSUME DocInv, NEW in \in {"schools", "faculty"}, NEW id, NEW data,
           setData(in, id, data), Doc(in, id, data, TRUE) \in AppDocs,
           staff' \in Seq(Teachers),
           UNCHANGED <<backend, answer, created, rejected>>
    PROVE  DocInv'
<1>1. /\ queue' \in Seq(AppDocs)
      /\ Written' = Written \cup {Doc(in, id, data, TRUE)}
  BY setDataWritten DEF DocInv
<1>2. DocTypeOK'
  BY <1>1 DEF DocInv, DocTypeOK
<1>3. Doc(in, id, data, TRUE).in # "courseList"
  BY DEF Doc
<1> HIDE DEF Doc
<1>4. IdsFresh'
  BY <1>1, <1>3 DEF DocInv, IdsFresh
<1>5. AllOrNothing' /\ SchoolsByHand'
  BY DEF DocInv, AllOrNothing, SchoolsByHand
<1> QED BY <1>2, <1>4, <1>5 DEF DocInv

LEMMA School_initRefInv ==
    ASSUME DocInv, NEW id \in NewIds, NEW type \in DOMAIN SchoolType, NEW max \in {Nil, 8},
           School_initRef(id, type, max)
    PROVE  DocInv'
<1> DEFINE s == [displayName |-> "S", id |-> id, type |-> type, MaxStudentCourseLoad |-> max]
<1>1. s \in SchoolsMade /\ s.id = id
  BY DEF SchoolsMade, NewIds
<1>2. /\ setData("schools", id, School_data(s))
      /\ UNCHANGED <<backend, staff, answer, created, rejected>>
  BY DEF School_initRef
<1> HIDE DEF s
<1>3. Doc("schools", id, School_data(s), TRUE) \in AppDocs
  BY <1>1 DEF AppDocs
<1> QED BY <1>2, <1>3, OtherWritten DEF DocInv, DocTypeOK

LEMMA Faculty_initRefInv ==
    ASSUME DocInv, NEW id \in NewIds, NEW first \in {Nil, "F"}, NEW title \in FacTitle,
           Faculty_initRef(id, first, title)
    PROVE  DocInv'
<1> DEFINE f == [id |-> id, lastName |-> "L", firstName |-> first, title |-> title,
                 account |-> Nil, schedule |-> Nil]
<1>1. f \in Faculties /\ f.id = id
  BY DEF Faculties, NewIds
<1>2. /\ setData("faculty", id, Faculty_data(f)) /\ staff' = Append(staff, f)
      /\ UNCHANGED <<backend, answer, created, rejected>>
  BY DEF Faculty_initRef
<1> HIDE DEF f
<1>3. Doc("faculty", id, Faculty_data(f), TRUE) \in AppDocs
  BY <1>1 DEF AppDocs
<1>4. f \in Teachers
  BY <1>1 DEF Teachers
<1>5. staff' \in Seq(Teachers)
  BY <1>2, <1>4, AppendProperties DEF DocInv, DocTypeOK
<1> QED BY <1>2, <1>3, <1>5, OtherWritten

LEMMA Course_initRefInv ==
    ASSUME DocInv, NEW id \in NewIds, NEW t \in ToSet(staff), NEW r \in {Nil, "R"},
           Course_initRef(id, t, r)
    PROVE  DocInv'
<1> DEFINE c   == [displayName |-> "C", id |-> id, teacher |-> t, period |-> 1,
                   classroom |-> r]
           doc == Doc("courseList", id, Course_data(c), TRUE)
<1>0. t \in Teachers
  BY LenProperties, ElementOfSeq DEF ToSet, DocInv, DocTypeOK
<1>1. c \in CoursesMade /\ c.id = id
  BY <1>0 DEF CoursesMade, NewIds
<1>2. /\ setData("courseList", id, Course_data(c)) /\ created' = created \cup {c}
      /\ UNCHANGED <<backend, staff, answer, rejected>>
  BY DEF Course_initRef
<1> HIDE DEF c
<1>3. doc \in AppDocs
  BY <1>1 DEF AppDocs
<1>4. queue' \in Seq(AppDocs) /\ Written' = Written \cup {doc}
  BY <1>2, <1>3, setDataWritten DEF DocInv
<1>5. DocTypeOK'
  BY <1>1, <1>2, <1>4 DEF DocInv, DocTypeOK
<1>6. doc.id = id /\ doc.data = Course_data(c)
  BY DEF Doc
<1> HIDE DEF doc
<1>7. /\ id \notin {d.id : d \in ByHand} /\ id \notin rejected
      /\ \A d \in Written : d.id # id
  BY DEF NewIds
<1>8. IdsFresh'
  <2>1. ASSUME NEW k \in created
        PROVE  /\ k.id \notin {d.id : d \in ByHand}
               /\ k.id \in {d.id : d \in Written'} \cup rejected'
               /\ \A d \in Written' : d.in = "courseList" /\ d.id = k.id => d.data = Course_data(k)
    <3>1. k.id # id
      BY <1>7 DEF DocInv, IdsFresh
    <3> QED BY <1>2, <1>4, <1>6, <3>1 DEF DocInv, IdsFresh
  <2>2. /\ c.id \notin {d.id : d \in ByHand}
        /\ c.id \in {d.id : d \in Written'} \cup rejected'
        /\ \A d \in Written' : d.in = "courseList" /\ d.id = c.id => d.data = Course_data(c)
    BY <1>1, <1>4, <1>6, <1>7
  <2> QED BY <1>2, <2>1, <2>2 DEF IdsFresh
<1>9. AllOrNothing' /\ SchoolsByHand'
  BY <1>2 DEF DocInv, AllOrNothing, SchoolsByHand
<1> QED BY <1>5, <1>8, <1>9 DEF DocInv

LEMMA EnterByHandInv ==
    ASSUME DocInv, NEW doc \in ByHand, EnterByHand(doc)
    PROVE  DocInv'
<1>1. /\ backend' = backend \cup {doc}
      /\ UNCHANGED <<queue, staff, answer, created, rejected>>
  BY DEF EnterByHand
<1>2. DocTypeOK'
  BY <1>1, FS_AddElement DEF DocInv, DocTypeOK
<1>3. Written' = Written \cup {doc}
  BY <1>1 DEF Written
<1>4. IdsFresh'
  BY <1>1, <1>3 DEF DocInv, IdsFresh
<1>5. AllOrNothing' /\ SchoolsByHand'
  BY <1>1 DEF DocInv, AllOrNothing, SchoolsByHand
<1> QED BY <1>2, <1>4, <1>5 DEF DocInv

LEMMA AnsweredInv ==
    ASSUME DocInv, Taken \/ Rejected
    PROVE  DocInv'
<1>0. /\ queue # <<>> /\ queue' = Tail(queue) /\ UNCHANGED <<staff, answer, created>>
      /\ \/ backend' = backend \cup {Head(queue)} /\ rejected' = rejected
         \/ backend' = backend /\ rejected' = rejected \cup {Head(queue).id}
  BY DEF Taken, Rejected
<1>1. /\ Head(queue) \in AppDocs /\ Tail(queue) \in Seq(AppDocs)
      /\ ToSet(queue) = ToSet(Tail(queue)) \cup {Head(queue)}
  BY <1>0, HeadAnswered DEF DocInv
<1>2. DocTypeOK'
  <2>1. IsFiniteSet(backend')
    BY <1>0, FS_AddElement DEF DocInv, DocTypeOK
  <2>2. backend' \subseteq AppDocs \cup ByHand
    BY <1>0, <1>1 DEF DocInv, DocTypeOK
  <2> QED BY <1>0, <1>1, <2>1, <2>2 DEF DocInv, DocTypeOK
<1>3. /\ Written' \subseteq Written
      /\ {d.id : d \in Written} \cup rejected \subseteq {d.id : d \in Written'} \cup rejected'
  BY <1>0, <1>1 DEF Written
<1>4. IdsFresh'
  BY <1>0, <1>3 DEF DocInv, IdsFresh
<1>5. AllOrNothing' /\ SchoolsByHand'
  BY <1>0 DEF DocInv, AllOrNothing, SchoolsByHand
<1> QED BY <1>2, <1>4, <1>5 DEF DocInv

(* A query changes only what it answers, and getFaculty the staff. *)
LEMMA QueryKeeps ==
    ASSUME DocInv, UNCHANGED <<backend, queue, created, rejected>>, staff' \in Seq(Teachers)
    PROVE  DocTypeOK' /\ IdsFresh'
  BY DEF DocInv, DocTypeOK, IdsFresh, Written

LEMMA getSchoolListInv ==
    ASSUME DocInv, NEW docs \in Orders(Visible("schools")), getSchoolList(docs)
    PROVE  DocInv'
<1>0. /\ ~Blocks(docs, School_init, AllErrors)
      /\ answer' = [in |-> "schools", list |-> Decoded(docs, School_init), docs |-> docs]
      /\ UNCHANGED <<backend, queue, staff, created, rejected>>
  BY DEF getSchoolList, Answered
<1>1. DocTypeOK' /\ IdsFresh'
  BY <1>0, QueryKeeps DEF DocInv, DocTypeOK
<1>2. docs \in Seq(Visible("schools")) /\ Len(docs) \in Nat /\ DOMAIN docs = 1 .. Len(docs)
  BY VisibleFinite, OrdersAreLists DEF DocInv
<1>3. AllOrNothing'
  BY <1>0, <1>2, SchoolsDecoded DEF AllOrNothing
<1>4. ASSUME NEW i \in DOMAIN docs PROVE ~docs[i].byApp
  <2>1. docs[i] \in Visible("schools")
    BY <1>2, ElementOfSeq
  <2>2. docs[i] \in AppDocs \cup ByHand /\ docs[i].in = "schools"
    BY <2>1, WrittenByApp DEF Visible, DocInv
  <2>3. SUFFICES ASSUME docs[i] \in AppDocs PROVE FALSE
    BY <2>2, ByHandAssumption
  <2>4. PICK s \in SchoolsMade : docs[i].data = School_data(s)
    BY <2>2, <2>3, AppDocKinds
  <2> QED BY <1>0, <2>4, SchoolUnreadable DEF Blocks, AllErrors
<1>5. SchoolsByHand'
  BY <1>0, <1>4 DEF SchoolsByHand
<1> QED BY <1>1, <1>3, <1>5 DEF DocInv

LEMMA getFacultyInv ==
    ASSUME DocInv, NEW docs \in Orders(Visible("faculty")), getFaculty(docs)
    PROVE  DocInv'
<1> DEFINE made == Decoded(docs, Faculty_init)
<1>0. /\ ~Blocks(docs, Faculty_init, AllErrors)
      /\ answer' = [in |-> "faculty", list |-> made, docs |-> docs] /\ staff' = made
      /\ UNCHANGED <<backend, queue, created, rejected>>
  BY DEF getFaculty, Answered
<1>1. docs \in Seq(Visible("faculty")) /\ Len(docs) \in Nat /\ DOMAIN docs = 1 .. Len(docs)
  BY VisibleFinite, OrdersAreLists DEF DocInv
<1>2. /\ Len(made) = Len(docs) /\ made = [k \in 1 .. Len(docs) |-> made[k]]
      /\ \A k \in 1 .. Len(docs) : \E i \in 1 .. Len(docs) :
            /\ Faculty_init(docs[i].data).error = "none"
            /\ made[k] = Faculty_init(docs[i].data).value
  BY <1>0, <1>1, FacultyDecoded
<1> HIDE DEF made
<1>3. ASSUME NEW i \in 1 .. Len(docs), Faculty_init(docs[i].data).error = "none"
      PROVE  Faculty_init(docs[i].data).value \in Teachers
  <2>1. docs[i] \in Visible("faculty")
    BY <1>1, ElementOfSeq
  <2>2. docs[i] \in AppDocs \cup ByHand /\ docs[i].in = "faculty"
    BY <2>1, WrittenByApp DEF Visible, DocInv
  <2>3. CASE docs[i] \in ByHand
    BY <1>3, <2>3 DEF Teachers
  <2>4. CASE docs[i] \in AppDocs
    <3>1. PICK f \in Faculties : docs[i].data = Faculty_data(f)
      BY <2>2, <2>4, AppDocKinds
    <3>2. f \in Teachers
      BY DEF Teachers
    <3>3. Faculty_init(docs[i].data) = Ok(f)
      BY <3>1, <3>2, TeacherShape, FacultyReadsBack
    <3> QED BY <3>2, <3>3 DEF Ok
  <2> QED BY <2>2, <2>3, <2>4
<1>4. \A k \in 1 .. Len(docs) : made[k] \in Teachers
  BY <1>2, <1>3
<1>5. made \in Seq(Teachers)
  BY <1>1, <1>2, <1>4, SeqDef
<1>6. DocTypeOK' /\ IdsFresh'
  BY <1>0, <1>5, QueryKeeps
<1>7. AllOrNothing' /\ SchoolsByHand'
  BY <1>0, <1>2 DEF AllOrNothing, SchoolsByHand
<1> QED BY <1>6, <1>7 DEF DocInv

LEMMA getCourseListInv ==
    ASSUME DocInv, NEW docs \in Orders(Visible("courseList")), getCourseList(docs)
    PROVE  DocInv'
<1>0. /\ ~Blocks(docs, Course_init, {"firebaseInterpretationError"})
      /\ answer' = [in |-> "courseList", list |-> Decoded(docs, Course_init), docs |-> docs]
      /\ UNCHANGED <<backend, queue, staff, created, rejected>>
  BY DEF getCourseList, Answered
<1>1. DocTypeOK' /\ IdsFresh'
  BY <1>0, QueryKeeps DEF DocInv, DocTypeOK
<1>2. docs \in Seq(Visible("courseList"))
  BY VisibleFinite, OrdersAreLists DEF DocInv
<1>3. AllOrNothing' /\ SchoolsByHand'
  BY <1>0, <1>2, CoursesDecoded DEF AllOrNothing, SchoolsByHand
<1> QED BY <1>1, <1>3 DEF DocInv

LEMMA DocInitInv == DocInit => DocInv
  BY FS_EmptySet, EmptySeq DEF DocInit, DocInv, DocTypeOK, IdsFresh, AllOrNothing, SchoolsByHand

LEMMA DocNextInv == DocInv /\ [DocNext]_docVars => DocInv'
<1> SUFFICES ASSUME DocInv, [DocNext]_docVars PROVE DocInv'
  OBVIOUS
<1>1. CASE UNCHANGED docVars
  BY <1>1 DEF docVars, DocInv, DocTypeOK, IdsFresh, Written, AllOrNothing, SchoolsByHand
<1>2. CASE Query
  BY <1>2, getSchoolListInv, getFacultyInv, getCourseListInv DEF Query
<1> QED BY <1>1, <1>2, School_initRefInv, Faculty_initRefInv, Course_initRefInv,
           EnterByHandInv, AnsweredInv DEF DocNext

LEMMA DocInvariant == DocSpec => []DocInv
  BY DocInitInv, DocNextInv, PTL DEF DocSpec

(* A course the app has created is decoded from its document as it was     *)
(* created, whoever reads it and whatever else is written (Course.data     *)
(* against Course.init(data:), with Faculty.data inside).                  *)
THEOREM CreatedReadsBackHolds == DocSpec => []CreatedReadsBack
<1>1. DocInv => CreatedReadsBack
  BY CourseReadsBack DEF DocInv, DocTypeOK, IdsFresh, CreatedReadsBack, Visible
<1> QED BY <1>1, DocInvariant, PTL

(* No query of the app calls its completion with a part of the collection  *)
(* (the return in the catch of getSchoolList, getFaculty, getCourseList).  *)
THEOREM AllOrNothingHolds == DocSpec => []AllOrNothing
  BY DocInvariant, PTL DEF DocInv

(* Every school of a list was entered by hand: one that School.data has    *)
(* written cannot be decoded by School.init(data:), and stops the list.    *)
THEOREM SchoolsByHandHolds == DocSpec => []SchoolsByHand
  BY DocInvariant, PTL DEF DocInv
=============================================================================
