----------------------------- MODULE NewAccount -----------------------------
(***************************************************************************)
(* The two screens that ask for the account: UserInfo, and Security, which *)
(* it presents when the user name has been found to be free.  A query that *)
(* was sent earlier can still be answered while Security is on top; its    *)
(* callback saves the entries of UserInfo once more.                       *)
(***************************************************************************)
EXTENDS UserInfo, Security

(* A field of Security is empty when the screen appears. *)
ASSUME AccountAssumption == Empty \in Text

accountVars == <<infoVars, securityVars>>

AccountInit == InfoInit /\ FreshSecurity(Empty)

(* Security takes touches once it has been presented. *)
OnSecurity ==
    /\ left
    /\ \/ \E text \in Text : TypePassword(text)
       \/ \E field \in Fields : BeginEditing(field)
       \/ ContinueSecurity
       \/ Covered
    /\ UNCHANGED infoVars

AccountNext ==
    \/ InfoNext /\ UNCHANGED securityVars
    \/ OnSecurity

(* The main queue runs the callbacks it holds. *)
AccountSpec ==
    /\ AccountInit /\ [][AccountNext]_accountVars
    /\ WF_accountVars(\E q \in queries : Answer(q) /\ UNCHANGED securityVars)

-----------------------------------------------------------------------------
(* Properties *)

(* Every variable has a value the program's types allow. *)
AccountTypeOK == InfoTypeOK /\ SecurityTypeOK

(* A password that both fields never held at the same time is never saved, *)
(* not even for a moment: the entry was confirmed, in whatever order the   *)
(* fields were edited, left and changed again.                             *)
OnlyConfirmedSaved == password \in agreed \cup {NoEntry}

(* When the school is asked for, both screens are complete: the entries    *)
(* are what the fields show, although answers that come late save the      *)
(* first screen's entries again, no entry is missing, and the name is one  *)
(* that verifyUsername found to be free, so it is not empty either.  Only  *)
(* a name that was changed while a query was under way escapes verify,     *)
(* which then has looked at another text (ErrorCheckAndUpdate).            *)
AccountComplete ==
    passed => /\ password = Password /\ password = ConfirmPassword
              /\ saved.filled = TextField
              /\ saved.accountType # Nil
              /\ saved.userName = Username
              /\ retyped \/ (saved.userName # Empty /\ saved.userName \in foundFree)
=============================================================================
