----------------------------- MODULE Timetable -----------------------------
(***************************************************************************)
(* What a student's schedule promises, without screens: a timetable with   *)
(* one slot per period.  A slot holds at most one course, and only one     *)
(* that meets in its period; once the student has a timetable it is never  *)
(* replaced, and it changes one slot at a time.                            *)
(*                                                                         *)
(* The app has no such table.  It keeps a list (Schedule.courseLoad) and   *)
(* asks verifyNewCourseToSchedule before it appends; ChooseClasses is      *)
(* shown to implement this specification.                                  *)
(***************************************************************************)
EXTENDS Objects

VARIABLES held,  \* the student has a timetable
          slot,  \* the course of every period, Nil when it is free
          count  \* how many courses the student has

tableVars == <<held, slot, count>>

Periods == {period[c] : c \in Course}

(* Timetables in which every course is in the slot of its period *)
Tables == {t \in [Periods -> Course \cup {Nil}] :
              \A p \in Periods : t[p] # Nil => period[t[p]] = p}

Taken(t) == {p \in Periods : t[p] # Nil}

TableInit ==
    /\ held = FALSE
    /\ slot = [p \in Periods |-> Nil]
    /\ count = 0

(* The student gets a timetable, empty or filled in earlier. *)
Receive ==
    /\ ~held
    /\ held' = TRUE
    /\ slot' \in Tables
    /\ count' = Cardinality(Taken(slot'))

Fill(c) ==
    /\ held /\ slot[period[c]] = Nil
    /\ slot' = [slot EXCEPT ![period[c]] = c]
    /\ count' = count + 1
    /\ UNCHANGED held

Clear(p) ==
    /\ held /\ slot[p] # Nil
    /\ slot' = [slot EXCEPT ![p] = Nil]
    /\ count' = count - 1
    /\ UNCHANGED held

TableNext ==
    \/ Receive
    \/ \E c \in Course : Fill(c)
    \/ \E p \in Periods : Clear(p)

TableSpec == TableInit /\ [][TableNext]_tableVars
=============================================================================
