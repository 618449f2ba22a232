--------------------------- MODULE SchoolSelector ---------------------------
(***************************************************************************)
(* The screen on which the student picks a school                          *)
(* (SchoolSelectorViewController.swift) and the query that fills it        *)
(* (getSchoolList, DBQueries.swift).                                       *)
(*                                                                         *)
(* Each selection saves the school and asks Firestore for its course list; *)
(* the callback of that query saves the school again, with the list.  The  *)
(* queries are independent, so their answers arrive in any order, or not   *)
(* at all, and also after the screen has been covered.                     *)
(***************************************************************************)
EXTENDS App

CONSTANT MaxRequests   \* bound: how many selections are followed

ASSUME MaxRequestsAssumption == MaxRequests \in Nat

VARIABLES
    listOfSchools,     \* the rows of the picker
    currentSelection,  \* a school, or Nil
    listAsked,         \* getSchoolList has been called and has not answered
    errorShown,        \* errorText says "Please Select a School"
    fetches,           \* the queries of updateNewUser without an answer
    requests,          \* how many there were
    lastRun,           \* history: the number of the query whose callback ran last
    strayed            \* history: a callback saved a school that is not selected

selectorVars == <<listOfSchools, currentSelection, listAsked, errorShown,
                  fetches, requests, lastRun, strayed>>

SelectorTypeOK ==
    /\ listOfSchools \in Seq(School)
    /\ currentSelection \in {Nil} \cup School
    /\ listAsked \in BOOLEAN
    /\ errorShown \in BOOLEAN
    /\ fetches \subseteq [n : Nat, school : School]
    /\ requests \in Nat
    /\ lastRun \in Nat
    /\ strayed \in BOOLEAN

(* viewDidLoad has run. *)
FreshSelector ==
    /\ listOfSchools = <<>>
    /\ currentSelection = Nil
    /\ listAsked = TRUE
    /\ errorShown = FALSE
    /\ fetches = {}
    /\ requests = 0
    /\ lastRun = 0
    /\ strayed = FALSE

OnSelector == top = "SchoolSelector" /\ ~crashed

(* Mutant: the school is saved only when its course list has come. *)
updateNewUser_late(s) ==
    /\ requests' = requests + 1
    /\ fetches' = fetches \cup {[n |-> requests + 1, school |-> s]}
    /\ UNCHANGED newUserData

(* func updateNewUser(), called with currentSelection = s *)
updateNewUser(s) ==
    /\ newUserData' = [newUserData EXCEPT !.school = SchoolWith(s, Nil)]
    /\ requests' = requests + 1
    /\ fetches' = fetches \cup {[n |-> requests + 1, school |-> s]}

(* Its callback.  skewl is the school of the call, not the current one.    *)
CourseListAnswer(f, list) ==
    /\ ~crashed /\ f \in fetches
    /\ newUserData' = [newUserData EXCEPT !.school = SchoolWith(f.school, list)]
    /\ fetches' = fetches \ {f}
    /\ lastRun' = f.n
    /\ strayed' = (strayed \/ f.school # currentSelection)
    /\ UNCHANGED <<top, crashed, listOfSchools, currentSelection, listAsked,
                   errorShown, requests>>

(* getSchoolList answers with a list; list[0] of an empty one traps.       *)
SchoolListAnswer(list) ==
    /\ OnSelector /\ listAsked
    /\ listAsked' = FALSE
    /\ listOfSchools' = list
    /\ \/ /\ list = <<>>
          /\ crashed' = TRUE
          /\ UNCHANGED <<newUserData, currentSelection, fetches, requests>>
       \/ /\ list # <<>>
          /\ currentSelection' = Head(list)
          /\ updateNewUser(Head(list))
          /\ UNCHANGED crashed
    /\ UNCHANGED <<top, errorShown, lastRun, strayed>>

(* It answers with nil after an error, and not at all when a document      *)
(* cannot be decoded: no list, and nothing asks again.                     *)
SchoolListFailure ==
    /\ OnSelector /\ listAsked
    /\ listAsked' = FALSE
    /\ UNCHANGED <<appVars, listOfSchools, currentSelection, errorShown, fetches,
                   requests, lastRun, strayed>>

(* Mutant: the selection is not saved. *)
pickSchool_noUpdate(row) ==
    /\ OnSelector /\ row \in DOMAIN listOfSchools /\ requests < MaxRequests
    /\ currentSelection' = listOfSchools[row]
    /\ UNCHANGED <<newUserData, top, crashed, listOfSchools, listAsked, errorShown, fetches,
                   requests, lastRun, strayed>>

(* pickerView(_:didSelectRow:inComponent:) *)
pickSchool(row) ==
    /\ OnSelector /\ row \in DOMAIN listOfSchools /\ requests < MaxRequests
    /\ currentSelection' = listOfSchools[row]
    /\ updateNewUser(listOfSchools[row])
    /\ UNCHANGED <<top, crashed, listOfSchools, listAsked, errorShown, lastRun, strayed>>

(* The Continue button with nothing selected *)
continueRefused ==
    /\ OnSelector /\ currentSelection = Nil
    /\ errorShown' = TRUE
    /\ UNCHANGED <<appVars, listOfSchools, currentSelection, listAsked, fetches,
                   requests, lastRun, strayed>>

(* Mutant: the segue is wired to the button, which asks nobody. *)
continueAction_wired ==
    /\ OnSelector
    /\ top' = "ChooseClasses"
    /\ UNCHANGED <<newUserData, crashed, selectorVars>>

(* ... and with a school: it presents ChooseClasses, after prepare has     *)
(* asked for the school's course list once more (the hand-off of           *)
(* ChooseClasses).                                                         *)
continueAction ==
    /\ OnSelector /\ currentSelection # Nil
    /\ top' = "ChooseClasses"
    /\ UNCHANGED <<newUserData, crashed, selectorVars>>
=============================================================================
