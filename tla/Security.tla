------------------------------ MODULE Security ------------------------------
(***************************************************************************)
(* The screen on which a student chooses a password                        *)
(* (SecurityViewController.swift).  The password goes into newUserData     *)
(* whenever editing of a field ends, or Continue is tapped, and the fields *)
(* agree; between two such moments the entry and the fields can differ.    *)
(***************************************************************************)
CONSTANTS Text,   \* the texts of the two fields, the empty one included
          NoEntry \* newUserData has no entry "password"

ASSUME SecurityAssumption == NoEntry \notin Text

VARIABLES
    Password, ConfirmPassword,   \* the texts of the fields
    editing,          \* the field that has the keyboard, or "none"
    ErrorLabelShown,
    password,         \* the entry of newUserData
    passed,           \* signUpSegueTwo has been performed
    agreed            \* history: the texts both fields have held at the same time

securityVars == <<Password, ConfirmPassword, editing, ErrorLabelShown, password,
                  passed, agreed>>

Fields == {"Password", "ConfirmPassword"}

SecurityTypeOK ==
    /\ {Password, ConfirmPassword} \cup agreed \subseteq Text
    /\ editing \in Fields \cup {"none"}
    /\ {ErrorLabelShown, passed} \subseteq BOOLEAN
    /\ password \in Text \cup {NoEntry}

(* viewDidLoad has run; empty is the text of an empty field. *)
FreshSecurity(empty) ==
    /\ Password = empty /\ ConfirmPassword = empty /\ editing = "none"
    /\ ErrorLabelShown = FALSE /\ password = NoEntry /\ passed = FALSE
    /\ agreed = {empty}

(* Mutant: the password is saved before it is compared. *)
checkForConfirmation_early ==
    /\ ErrorLabelShown' = (Password # ConfirmPassword)
    /\ password' = Password

(* func checkForConfirmation, with updateAccountInfo *)
checkForConfirmation ==
    /\ ErrorLabelShown' = (Password # ConfirmPassword)
    /\ password' = IF Password = ConfirmPassword THEN Password ELSE password

(* The user types into the field that has the keyboard. *)
TypePassword(text) ==
    /\ ~passed
    /\ \/ /\ editing = "Password" /\ Password' = text
          /\ UNCHANGED ConfirmPassword
       \/ /\ editing = "ConfirmPassword" /\ ConfirmPassword' = text
          /\ UNCHANGED Password
    /\ agreed' = agreed \cup ({Password'} \cap {ConfirmPassword'})
    /\ UNCHANGED <<editing, ErrorLabelShown, password, passed>>

(* The keyboard goes to a field.  The one that had it calls its            *)
(* PasswordDoneEditing or ConfirmPasswordDoneEditing.                      *)
BeginEditing(field) ==
    /\ ~passed /\ editing # field
    /\ editing' = field
    /\ IF editing = "none" THEN UNCHANGED <<ErrorLabelShown, password>>
                           ELSE checkForConfirmation
    /\ UNCHANGED <<Password, ConfirmPassword, passed, agreed>>

(* @IBAction func Continue.  The keyboard stays where it is. *)
ContinueSecurity ==
    /\ ~passed
    /\ checkForConfirmation
    /\ passed' = (Password = ConfirmPassword)
    /\ UNCHANGED <<Password, ConfirmPassword, editing, agreed>>

(* The next screen covers this one: a field with the keyboard gives it up. *)
Covered ==
    /\ passed /\ editing # "none"
    /\ editing' = "none"
    /\ checkForConfirmation
    /\ UNCHANGED <<Password, ConfirmPassword, passed, agreed>>
=============================================================================
