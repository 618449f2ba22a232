-------------------------------- MODULE App --------------------------------
(***************************************************************************)
(* State shared by the screens of the sign-up flow: the global dictionary  *)
(* newUserData (UserInfoViewController.swift, 11), the screen on top, and  *)
(* whether a Swift runtime trap has ended the process.                     *)
(*                                                                         *)
(* Every segue of the storyboard is of kind "show" and there is no         *)
(* navigation controller, so each one presents a new instance of its       *)
(* destination over its source.  Nothing in the app dismisses a screen: a  *)
(* covered instance never comes back, and what a late callback writes into *)
(* it is never seen.                                                       *)
(***************************************************************************)
EXTENDS Objects

VARIABLES
    newUserData,  \* the entries "school" and "schedule" of the dictionary
    top,          \* the screen on top
    crashed       \* a runtime trap has ended the process

appVars == <<newUserData, top, crashed>>

Screens == {"SchoolSelector", "ChooseClasses", "AddClass", "FinalSetup"}

AppTypeOK ==
    /\ newUserData \in [school : {Nil} \cup SchoolValues, schedule : {Nil} \cup Schedules]
    /\ top \in Screens
    /\ crashed \in BOOLEAN

=============================================================================
