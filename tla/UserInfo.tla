------------------------------ MODULE UserInfo ------------------------------
(***************************************************************************)
(* The first screen of the sign-up flow (UserInfoViewController.swift) and *)
(* its query for the user names in use (verifyUsername, DBQueries.swift).  *)
(*                                                                         *)
(* The Continue button asks Firestore about the name in the field and      *)
(* leaves when the answer comes.  The other fields are checked then, the   *)
(* name was checked as it was when the button was tapped, and what is      *)
(* saved is what the fields hold when the screen is left.                  *)
(*                                                                         *)
(* Of the dictionary newUserData this module keeps the entries of this     *)
(* screen; of a text field other than the name, whether it has any text.   *)
(* The keyboard can be used while a query is under way: nothing disables   *)
(* the fields.                                                             *)
(***************************************************************************)
EXTENDS Naturals

CONSTANTS TextField, \* FirstName, LastName and PhoneNumber, which are treated alike
          Name,      \* user names
          Empty,     \* the text of an empty field
          Nil,       \* Swift's nil
          MaxTaps    \* bound: how many queries are followed

ASSUME UserInfoAssumption == Empty \notin Name /\ MaxTaps \in Nat

VARIABLES
    filled,              \* the fields of TextField that have some text
    Username,            \* the text of the field
    currentAccountType,
    pickerShown,         \* AccountTypeSelector is not hidden
    errorShown,          \* the label error is not hidden
    saved,               \* the entries of newUserData
    queries,             \* the verifyUsername calls without an answer
    taps,                \* how many there were
    left,                \* signUpSegueOne has been performed
    usernames,           \* the names in the document accounts/usernames
    foundFree,           \* history: the names found to be free
    retyped              \* history: the name was changed with a query under way

infoVars == <<filled, Username, currentAccountType, pickerShown,
              errorShown, saved, queries, taps, left, usernames, foundFree, retyped>>

AccountTypes == {"Student", "Teacher", "Parent"}

Entries == [filled : SUBSET TextField, userName : {Nil, Empty} \cup Name,
            accountType : {Nil} \cup AccountTypes]

Queries == [n : Nat, username : Name, result : {"none", "free", "taken", "error"}]

(* Every variable has a value the program's types allow. *)
InfoTypeOK ==
    /\ {pickerShown, errorShown, left, retyped} \subseteq BOOLEAN
    /\ filled \subseteq TextField
    /\ Username \in {Empty} \cup Name
    /\ currentAccountType \in {Nil} \cup AccountTypes
    /\ saved \in Entries
    /\ queries \subseteq Queries
    /\ taps \in Nat
    /\ usernames \subseteq Name /\ foundFree \subseteq Name

-----------------------------------------------------------------------------
InfoInit ==
    /\ filled = {}
    /\ Username = Empty
    /\ currentAccountType = Nil
    /\ pickerShown = FALSE /\ errorShown = FALSE
    /\ saved = [filled |-> {}, userName |-> Nil, accountType |-> Nil]
    /\ queries = {} /\ taps = 0
    /\ left = FALSE
    /\ usernames \in SUBSET Name
    /\ foundFree = {} /\ retyped = FALSE

(* Mutant: a type that has not been chosen is saved as a text. *)
updateAccountInfo_raw(type) ==
    saved' = [filled |-> filled, userName |-> Username,
              accountType |-> IF type = Nil THEN "" ELSE type]

(* func updateAccountInfo() *)
updateAccountInfo(type) ==
    saved' = [filled |-> filled, userName |-> Username, accountType |-> type]

(* The user types. *)
TypeUsername(text) ==
    /\ ~left
    /\ Username' = text
    /\ retyped' = (retyped \/ (queries # {} /\ text # Username))
    /\ UNCHANGED <<filled, currentAccountType, pickerShown,
                   errorShown, saved, queries, taps, left, usernames, foundFree>>

TypeField(field) ==
    /\ ~left
    /\ filled' \in {filled \cup {field}, filled \ {field}}
    /\ UNCHANGED <<Username, currentAccountType, pickerShown, errorShown, saved, queries,
                   taps, left, usernames, foundFree, retyped>>

SelectAccountType ==
    /\ ~left
    /\ pickerShown' = TRUE
    /\ currentAccountType' = "Student"
    /\ UNCHANGED <<filled, Username, errorShown, saved, queries,
                   taps, left, usernames, foundFree, retyped>>

(* pickerView(_:didSelectRow:inComponent:), whose rows are AccountTypes *)
pickType(type) ==
    /\ ~left /\ pickerShown
    /\ currentAccountType' = type
    /\ updateAccountInfo(type)
    /\ UNCHANGED <<filled, Username, pickerShown, errorShown,
                   queries, taps, left, usernames, foundFree, retyped>>

(* ContinueAction: verify up to its query *)
ContinueAction ==
    /\ ~left /\ taps < MaxTaps
    /\ updateAccountInfo(currentAccountType)
    /\ IF Username = Empty
       THEN errorShown' = TRUE /\ UNCHANGED <<queries, taps>>
       ELSE /\ taps' = taps + 1
            /\ queries' = queries \cup {[n |-> taps + 1, username |-> Username,
                                         result |-> "none"]}
            /\ UNCHANGED errorShown
    /\ retyped' = (retyped /\ queries # {})
    /\ UNCHANGED <<filled, Username, currentAccountType,
                   pickerShown, left, usernames, foundFree>>

(* func verifyUsername: Firestore reads the document, or fails to. *)
verifyUsername(q) ==
    /\ q \in queries /\ q.result = "none"
    /\ LET verdict == IF q.username \in usernames THEN "taken" ELSE "free"
       IN  \E result \in {verdict, "error"} :
             /\ queries' = (queries \ {q}) \cup {[q EXCEPT !.result = result]}
             /\ foundFree' = IF result = "free" THEN foundFree \cup {q.username}
                             ELSE foundFree
    /\ UNCHANGED <<filled, Username, currentAccountType,
                   pickerShown, errorShown, saved, taps, left, usernames, retyped>>

(* The fields are as verify wants them, apart from the name. *)
FieldsFilled == filled = TextField /\ currentAccountType # Nil

(* Mutants: only the name is looked at when the answer comes; an answer    *)
(* that the name is taken is dropped like an error.                        *)
Answer_nameOnly(q) ==
    /\ q \in queries /\ q.result # "none"
    /\ queries' = queries \ {q}
    /\ CASE q.result = "error" -> UNCHANGED <<errorShown, left, saved>>
         [] q.result = "taken" -> errorShown' = TRUE /\ UNCHANGED <<left, saved>>
         [] q.result = "free" -> /\ left' = TRUE
                                 /\ updateAccountInfo(currentAccountType)
                                 /\ UNCHANGED errorShown
    /\ UNCHANGED <<filled, Username, currentAccountType,
                   pickerShown, taps, usernames, foundFree, retyped>>

Answer_dropTaken(q) ==
    /\ q \in queries /\ q.result # "none"
    /\ queries' = queries \ {q}
    /\ IF q.result # "free" THEN UNCHANGED <<errorShown, left, saved>>
       ELSE IF FieldsFilled
       THEN left' = TRUE /\ updateAccountInfo(currentAccountType) /\ UNCHANGED errorShown
       ELSE errorShown' = TRUE /\ UNCHANGED <<left, saved>>
    /\ UNCHANGED <<filled, Username, currentAccountType,
                   pickerShown, taps, usernames, foundFree, retyped>>

(* Its callback: the rest of verify, then the closure of ContinueAction,   *)
(* and prepare.  An error of the query ends it without a word.  On a       *)
(* screen already left the segue is refused, but prepare has saved again.  *)
Answer(q) ==
    /\ q \in queries /\ q.result # "none"
    /\ queries' = queries \ {q}
    /\ IF q.result = "error" THEN UNCHANGED <<errorShown, left, saved>>
       ELSE IF q.result = "free" /\ FieldsFilled
       THEN left' = TRUE /\ updateAccountInfo(currentAccountType) /\ UNCHANGED errorShown
       ELSE errorShown' = TRUE /\ UNCHANGED <<left, saved>>
    /\ UNCHANGED <<filled, Username, currentAccountType,
                   pickerShown, taps, usernames, foundFree, retyped>>

(* Somebody else takes a name. *)
OthersTake(name) ==
    /\ name \notin usernames
    /\ usernames' = usernames \cup {name}
    /\ UNCHANGED <<filled, Username, currentAccountType,
                   pickerShown, errorShown, saved, queries, taps, left, foundFree, retyped>>

InfoNext ==
    \/ \E text \in {Empty} \cup Name : TypeUsername(text)
    \/ \E field \in TextField : TypeField(field)
    \/ SelectAccountType \/ ContinueAction
    \/ \E type \in AccountTypes : pickType(type)
    \/ \E q \in queries : verifyUsername(q) \/ Answer(q)
    \/ \E name \in Name : OthersTake(name)

-----------------------------------------------------------------------------
(* Properties *)

(* An answer that is not an error shows: the screen is left, or a message  *)
(* is on it.                                                               *)
AnswerShows == (\E q \in queries : q.result \in {"free", "taken"}) ~> (left \/ errorShown)

-----------------------------------------------------------------------------
(* What the repository says and the code does not do *)

(* "//Error Check and update" (prepare, 51): the data saved on the way out *)
(* have been checked, so the saved name is one that was found to be free.  *)
ErrorCheckAndUpdate == left => saved.userName \in foundFree
=============================================================================
