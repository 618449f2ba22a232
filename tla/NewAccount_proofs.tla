------------------------- MODULE NewAccount_proofs -------------------------
(***************************************************************************)
(* Theorems about the two screens that ask for the account, for every set  *)
(* of fields, user names and passwords, and for any number of queries      *)
(* under way at the same time.                                             *)
(***************************************************************************)
EXTENDS NewAccount, TLAPS

(* The inductive invariant.  AccountComplete speaks of the moment Security *)
(* is passed; what it needs is that UserInfo stays as it was left, that    *)
(* the callback of a late query saves exactly what is saved already, and   *)
(* which name the queries under way are about.                             *)
InfoSettled ==
    left => /\ FieldsFilled
            /\ saved = [filled |-> filled, userName |-> Username,
                        accountType |-> currentAccountType]

(* As long as the name has not been changed under a query, every query is  *)
(* about the name in the field, so the answer that leaves the screen has   *)
(* found this one to be free.                                              *)
NameChecked ==
    /\ \A q \in queries : q.result = "free" => q.username \in foundFree
    /\ ~retyped => \A q \in queries : q.username = Username
    /\ left /\ ~retyped => Username \in foundFree

(* The history holds what the fields show while they agree. *)
ShownAgreed == Password = ConfirmPassword => Password \in agreed

(* Security can be passed only behind UserInfo, and the password stays the *)
(* one that was confirmed: the field that still has the keyboard is saved  *)
(* again when it gives it up.                                              *)
PassedSettled ==
    passed => left /\ password = Password /\ Password = ConfirmPassword

SecurityInv == SecurityTypeOK /\ ShownAgreed /\ OnlyConfirmedSaved /\ PassedSettled

AccountInv == InfoTypeOK /\ InfoSettled /\ NameChecked /\ SecurityInv

-----------------------------------------------------------------------------
(* UserInfo *)

(* What the handlers save has the type of the entries. *)
LEMMA SavedType ==
    ASSUME InfoTypeOK, NEW type \in {Nil} \cup AccountTypes, updateAccountInfo(type)
    PROVE  saved' \in Entries
BY DEF InfoTypeOK, updateAccountInfo, Entries

(* Typing, choosing and tapping Continue: possible only before the screen  *)
(* has been left.                                                          *)
LEMMA EditInv ==
    ASSUME InfoTypeOK,
           \/ \E text \in {Empty} \cup Name : TypeUsername(text)
           \/ \E field \in TextField : TypeField(field)
           \/ SelectAccountType \/ ContinueAction
           \/ \E type \in AccountTypes : pickType(type)
    PROVE  InfoTypeOK' /\ ~left /\ ~left'
<1>1. ASSUME NEW text \in {Empty} \cup Name, TypeUsername(text)
      PROVE  InfoTypeOK' /\ ~left /\ ~left'
  BY <1>1 DEF InfoTypeOK, TypeUsername
<1>2. ASSUME NEW field \in TextField, TypeField(field)
      PROVE  InfoTypeOK' /\ ~left /\ ~left'
  BY <1>2 DEF InfoTypeOK, TypeField
<1>3. CASE SelectAccountType
  BY <1>3 DEF InfoTypeOK, SelectAccountType, AccountTypes
<1>4. CASE ContinueAction
  <2>1. saved' \in Entries
    BY <1>4, SavedType DEF InfoTypeOK, ContinueAction
  <2>2. queries' \subseteq Queries /\ taps' \in Nat
    <3>1. CASE Username = Empty
      BY <1>4, <3>1 DEF ContinueAction, InfoTypeOK
    <3>2. CASE Username # Empty
      <4>1. Username \in Name /\ taps \in Nat
        BY <3>2 DEF InfoTypeOK
      <4>2. [n |-> taps + 1, username |-> Username, result |-> "none"] \in Queries
        BY <4>1 DEF Queries
      <4> QED BY <1>4, <3>2, <4>1, <4>2 DEF ContinueAction, InfoTypeOK
    <3> QED BY <3>1, <3>2
  <2>3. errorShown' \in BOOLEAN /\ retyped' \in BOOLEAN
    BY <1>4 DEF ContinueAction, InfoTypeOK
  <2> QED BY <1>4, <2>1, <2>2, <2>3 DEF ContinueAction, InfoTypeOK
<1>5. ASSUME NEW type \in AccountTypes, pickType(type)
      PROVE  InfoTypeOK' /\ ~left /\ ~left'
  <2>1. saved' \in Entries
    BY <1>5, SavedType DEF pickType
  <2> QED BY <1>5, <2>1 DEF InfoTypeOK, pickType
<1> QED BY <1>1, <1>2, <1>3, <1>4, <1>5

(* Firestore reads the names for a query. *)
LEMMA verifyUsernameInv ==
    ASSUME InfoTypeOK, InfoSettled, NEW q \in queries, verifyUsername(q)
    PROVE  InfoTypeOK' /\ InfoSettled' /\ left' = left
<1>1. q \in Queries
  BY DEF InfoTypeOK
<1>2. PICK result \in {"taken", "free", "error"} :
        /\ queries' = (queries \ {q}) \cup {[q EXCEPT !.result = result]}
        /\ foundFree' = IF result = "free" THEN foundFree \cup {q.username} ELSE foundFree
  BY DEF verifyUsername
<1>3. [q EXCEPT !.result = result] \in Queries /\ q.username \in Name
  BY <1>1 DEF Queries
<1>4. queries' \subseteq Queries /\ foundFree' \subseteq Name
  BY <1>2, <1>3 DEF InfoTypeOK
<1>5. UNCHANGED <<filled, Username, currentAccountType, pickerShown, errorShown, saved>>
  BY DEF verifyUsername
<1>6. UNCHANGED <<taps, left, usernames, retyped>>
  BY DEF verifyUsername
<1> QED BY <1>4, <1>5, <1>6 DEF InfoTypeOK, InfoSettled, FieldsFilled

(* The callback of a query, on the screen or behind the next one. *)
LEMMA AnswerInv ==
    ASSUME InfoTypeOK, InfoSettled, NEW q \in queries, Answer(q)
    PROVE  InfoTypeOK' /\ InfoSettled' /\ (left => left')
<1>1. UNCHANGED <<filled, Username, currentAccountType, pickerShown>>
  BY DEF Answer
<1>2. UNCHANGED <<taps, usernames, foundFree, retyped>> /\ queries' = queries \ {q}
  BY DEF Answer
<1>3. CASE q.result = "free" /\ FieldsFilled
  <2>1. left' = TRUE /\ errorShown' = errorShown /\ updateAccountInfo(currentAccountType)
    BY <1>3 DEF Answer
  <2>2. saved' \in Entries
    BY <2>1, SavedType DEF InfoTypeOK
  <2>3. InfoTypeOK'
    BY <1>1, <1>2, <2>1, <2>2 DEF InfoTypeOK
  <2>4. InfoSettled'
    BY <1>1, <1>3, <2>1 DEF InfoSettled, FieldsFilled, updateAccountInfo
  <2> QED BY <2>1, <2>3, <2>4
<1>4. CASE ~(q.result = "free" /\ FieldsFilled)
  <2>1. errorShown' \in BOOLEAN /\ left' = left /\ saved' = saved
    BY <1>4 DEF Answer, InfoTypeOK
  <2> QED BY <1>1, <1>2, <2>1 DEF InfoTypeOK, InfoSettled, FieldsFilled
<1> QED BY <1>3, <1>4

(* Every step of UserInfo. *)
LEMMA InfoNextInv ==
    ASSUME InfoTypeOK, InfoSettled, InfoNext
    PROVE  InfoTypeOK' /\ InfoSettled' /\ (left => left')
<1>1. CASE \/ \E text \in {Empty} \cup Name : TypeUsername(text)
           \/ \E field \in TextField : TypeField(field)
           \/ SelectAccountType \/ ContinueAction
           \/ \E type \in AccountTypes : pickType(type)
  BY <1>1, EditInv DEF InfoSettled
<1>2. CASE \E q \in queries : verifyUsername(q) \/ Answer(q)
  BY <1>2, verifyUsernameInv, AnswerInv
<1>3. CASE \E name \in Name : OthersTake(name)
  BY <1>3 DEF OthersTake, InfoTypeOK, InfoSettled, FieldsFilled
<1> QED BY <1>1, <1>2, <1>3 DEF InfoNext

(* Typing and tapping Continue keep the queries about the name shown, or   *)
(* are noted.                                                              *)
LEMMA EditNameChecked ==
    ASSUME InfoTypeOK, NameChecked,
           (\E text \in {Empty} \cup Name : TypeUsername(text)) \/ ContinueAction
    PROVE  NameChecked'
<1>1. ASSUME NEW text \in {Empty} \cup Name, TypeUsername(text)
      PROVE  NameChecked'
  <2>1. /\ ~left' /\ UNCHANGED <<queries, foundFree>> /\ Username' = text
        /\ ~retyped' => ~retyped /\ (queries = {} \/ text = Username)
    BY <1>1 DEF TypeUsername
  <2> QED BY <2>1 DEF NameChecked
<1>2. CASE ContinueAction
  <2>1. /\ ~left' /\ UNCHANGED <<Username, foundFree>>
        /\ ~retyped' => ~retyped \/ queries = {}
    BY <1>2 DEF ContinueAction
  <2>2. \A q \in queries' : q \in queries \/ (q.result = "none" /\ q.username = Username)
    BY <1>2 DEF ContinueAction
  <2> QED BY <2>1, <2>2 DEF NameChecked
<1> QED BY <1>1, <1>2

(* An answer is about the name that the query was sent with. *)
LEMMA QueryNameChecked ==
    ASSUME InfoTypeOK, NameChecked, NEW q \in queries, verifyUsername(q) \/ Answer(q)
    PROVE  NameChecked'
<1>1. CASE verifyUsername(q)
  <2>1. PICK result \in {"taken", "free", "error"} :
          /\ queries' = (queries \ {q}) \cup {[q EXCEPT !.result = result]}
          /\ foundFree' = IF result = "free" THEN foundFree \cup {q.username} ELSE foundFree
    BY <1>1 DEF verifyUsername
  <2>2. UNCHANGED <<Username, left, retyped>>
    BY <1>1 DEF verifyUsername
  <2>3. /\ [q EXCEPT !.result = result].username = q.username
        /\ [q EXCEPT !.result = result].result = result
    BY DEF InfoTypeOK, Queries
  <2>4. \A r \in queries' : r.result = "free" => r.username \in foundFree'
    BY <2>1, <2>3 DEF NameChecked
  <2>5. ~retyped => \A r \in queries' : r.username = Username
    BY <2>1, <2>3 DEF NameChecked
  <2>6. foundFree \subseteq foundFree'
    BY <2>1
  <2> QED BY <2>2, <2>4, <2>5, <2>6 DEF NameChecked
<1>2. CASE Answer(q)
  <2>1. UNCHANGED <<Username, foundFree, retyped>> /\ queries' = queries \ {q}
    BY <1>2 DEF Answer
  <2>2. left' = left \/ q.result = "free"
    BY <1>2 DEF Answer
  <2> QED BY <2>1, <2>2 DEF NameChecked
<1> QED BY <1>1, <1>2

(* Every step of UserInfo, as to the name. *)
LEMMA InfoNextNameChecked ==
    ASSUME InfoTypeOK, NameChecked, InfoNext
    PROVE  NameChecked'
<1>1. CASE (\E text \in {Empty} \cup Name : TypeUsername(text)) \/ ContinueAction
  BY <1>1, EditNameChecked
<1>2. CASE \E q \in queries : verifyUsername(q) \/ Answer(q)
  BY <1>2, QueryNameChecked
<1>3. CASE \/ \E field \in TextField : TypeField(field)
           \/ SelectAccountType
           \/ \E type \in AccountTypes : pickType(type)
           \/ \E name \in Name : OthersTake(name)
  <2>1. UNCHANGED <<queries, foundFree, retyped, Username, left>>
    BY <1>3 DEF TypeField, SelectAccountType, pickType, OthersTake
  <2> QED BY <2>1 DEF NameChecked
<1> QED BY <1>1, <1>2, <1>3 DEF InfoNext

-----------------------------------------------------------------------------
(* Security *)

(* checkForConfirmation saves a text only when both fields show it. *)
LEMMA checkForConfirmationSound ==
    ASSUME SecurityInv, checkForConfirmation
    PROVE  /\ password' \in Text \cup {NoEntry} /\ password' \in agreed \cup {NoEntry}
           /\ ErrorLabelShown' \in BOOLEAN
           /\ Password = ConfirmPassword => password' = Password
BY DEF SecurityInv, SecurityTypeOK, ShownAgreed, OnlyConfirmedSaved, checkForConfirmation

(* Typing puts what both fields show into the history. *)
LEMMA TypePasswordInv ==
    ASSUME SecurityInv, NEW text \in Text, TypePassword(text)
    PROVE  SecurityInv'
<1>1. /\ Password' \in Text /\ ConfirmPassword' \in Text
      /\ agreed' = agreed \cup ({Password'} \cap {ConfirmPassword'})
  BY DEF SecurityInv, SecurityTypeOK, TypePassword
<1>2. UNCHANGED <<editing, ErrorLabelShown, password, passed>> /\ ~passed
  BY DEF TypePassword
<1>3. SecurityTypeOK'
  BY <1>1, <1>2 DEF SecurityInv, SecurityTypeOK
<1>4. ShownAgreed' /\ OnlyConfirmedSaved' /\ PassedSettled'
  BY <1>1, <1>2 DEF SecurityInv, ShownAgreed, OnlyConfirmedSaved, PassedSettled
<1> QED BY <1>3, <1>4 DEF SecurityInv

(* The keyboard moves to another field, and the one left is checked. *)
LEMMA BeginEditingInv ==
    ASSUME SecurityInv, NEW field \in Fields, BeginEditing(field)
    PROVE  SecurityInv'
<1>1. /\ password' \in Text \cup {NoEntry} /\ password' \in agreed \cup {NoEntry}
      /\ ErrorLabelShown' \in BOOLEAN
  BY checkForConfirmationSound
     DEF BeginEditing, SecurityInv, SecurityTypeOK, OnlyConfirmedSaved
<1>2. UNCHANGED <<Password, ConfirmPassword, passed, agreed>> /\ ~passed /\ editing' = field
  BY DEF BeginEditing
<1>3. SecurityTypeOK'
  BY <1>1, <1>2 DEF SecurityInv, SecurityTypeOK
<1> QED BY <1>1, <1>2, <1>3
        DEF SecurityInv, ShownAgreed, OnlyConfirmedSaved, PassedSettled

(* Continue, and the next screen covering this one. *)
LEMMA PassInv ==
    ASSUME SecurityInv, left, left' = left, ContinueSecurity \/ Covered
    PROVE  SecurityInv'
<1>1. checkForConfirmation /\ UNCHANGED <<Password, ConfirmPassword, agreed>>
  BY DEF ContinueSecurity, Covered
<1>2. /\ password' \in Text \cup {NoEntry} /\ password' \in agreed \cup {NoEntry}
      /\ ErrorLabelShown' \in BOOLEAN
      /\ Password = ConfirmPassword => password' = Password
  BY <1>1, checkForConfirmationSound
<1>3. /\ passed' \in BOOLEAN
      /\ passed' => Password = ConfirmPassword
      /\ editing' \in Fields \cup {"none"}
  BY DEF ContinueSecurity, Covered, SecurityInv, SecurityTypeOK, PassedSettled
<1>4. SecurityTypeOK'
  BY <1>1, <1>2, <1>3 DEF SecurityInv, SecurityTypeOK
<1> QED BY <1>1, <1>2, <1>3, <1>4
        DEF SecurityInv, ShownAgreed, OnlyConfirmedSaved, PassedSettled

-----------------------------------------------------------------------------
LEMMA AccountInitInv == AccountInit => AccountInv
<1> SUFFICES ASSUME AccountInit PROVE AccountInv
  OBVIOUS
<1>1. InfoTypeOK
  BY DEF AccountInit, InfoInit, InfoTypeOK, Entries, AccountTypes
<1>2. SecurityTypeOK
  BY AccountAssumption DEF AccountInit, FreshSecurity, SecurityTypeOK
<1> QED BY <1>1, <1>2
        DEF AccountInit, InfoInit, FreshSecurity, AccountInv, InfoSettled, NameChecked, SecurityInv,
            ShownAgreed, OnlyConfirmedSaved, PassedSettled

LEMMA AccountNextInv == AccountInv /\ [AccountNext]_accountVars => AccountInv'
<1> SUFFICES ASSUME AccountInv, [AccountNext]_accountVars PROVE AccountInv'
  OBVIOUS
<1> USE DEF AccountInv
<1>1. CASE InfoNext /\ UNCHANGED securityVars
  <2>1. InfoTypeOK' /\ InfoSettled' /\ NameChecked' /\ (left => left')
    BY <1>1, InfoNextInv, InfoNextNameChecked
  <2>2. SecurityInv'
    BY <1>1, <2>1 DEF securityVars, SecurityInv, SecurityTypeOK, ShownAgreed,
                      OnlyConfirmedSaved, PassedSettled
  <2> QED BY <2>1, <2>2
<1>2. CASE OnSecurity
  <2>1. InfoTypeOK' /\ InfoSettled' /\ NameChecked' /\ left' = left
    BY <1>2 DEF OnSecurity, infoVars, InfoTypeOK, InfoSettled, NameChecked, FieldsFilled
  <2>2. SecurityInv'
    BY <1>2, <2>1, TypePasswordInv, BeginEditingInv, PassInv DEF OnSecurity
  <2> QED BY <2>1, <2>2
<1>3. CASE UNCHANGED accountVars
  BY <1>3 DEF accountVars, infoVars, securityVars, InfoTypeOK, InfoSettled, NameChecked, FieldsFilled,
              SecurityInv, SecurityTypeOK, ShownAgreed, OnlyConfirmedSaved, PassedSettled
<1> QED BY <1>1, <1>2, <1>3 DEF AccountNext

(* The inductive invariant holds in every state the two screens reach. *)
LEMMA AccountInvariant == AccountSpec => []AccountInv
BY AccountInitInv, AccountNextInv, PTL DEF AccountSpec

(* Every variable of the two screens keeps the values of its Swift type,   *)
(* whatever the user types and in whatever order the queries are answered. *)
THEOREM AccountTypeCorrect == AccountSpec => []AccountTypeOK
<1>1. AccountInv => AccountTypeOK
  BY DEF AccountInv, SecurityInv, AccountTypeOK
<1> QED BY <1>1, AccountInvariant, PTL

(* checkForConfirmation, called when editing of a field ends, by Continue, *)
(* and when the screen is covered, never saves a password that the two     *)
(* fields did not both show at some moment.                                *)
THEOREM OnlyConfirmedSavedHolds == AccountSpec => []OnlyConfirmedSaved
<1>1. AccountInv => OnlyConfirmedSaved
  BY DEF AccountInv, SecurityInv
<1> QED BY <1>1, AccountInvariant, PTL

(* When Security has been passed, no entry of the two screens is missing,  *)
(* all are what the fields show, although callbacks of verifyUsername that *)
(* come late run prepare, and with it updateAccountInfo, again, and the    *)
(* saved name is not empty and was found to be free, unless it was changed *)
(* while a query was under way.                                            *)
THEOREM AccountCompleteHolds == AccountSpec => []AccountComplete
<1>1. AccountInv => AccountComplete
  <2> SUFFICES ASSUME AccountInv, passed PROVE AccountComplete
    BY DEF AccountComplete
  <2>1. left /\ password = Password /\ Password = ConfirmPassword
    BY DEF AccountInv, SecurityInv, PassedSettled
  <2>2. /\ FieldsFilled
        /\ saved = [filled |-> filled, userName |-> Username, accountType |-> currentAccountType]
    BY <2>1 DEF AccountInv, InfoSettled
  <2>3. ~retyped => Username \in foundFree /\ Username # Empty
    BY <2>1, UserInfoAssumption DEF AccountInv, NameChecked, InfoTypeOK
  <2> QED BY <2>1, <2>2, <2>3 DEF AccountComplete, FieldsFilled
<1> QED BY <1>1, AccountInvariant, PTL
=============================================================================
