---------------------------- MODULE MCDocuments ----------------------------
(* The app writes up to two documents.  In the console somebody may      *)
(* enter two schools, one without a limit, a teacher with an account, and  *)
(* a course whose teacher has a title the app does not know.               *)
EXTENDS Documents, TLC

CONSTANTS a, b, s1, s2, t1, k1

MCId == {a, b, s1, s2, t1, k1}

MCByHand ==
    {Doc("schools", s1, [displayName |-> String("S"), id |-> String(s1),
                         type |-> String("Trade"), maxStudentCourseLoad |-> Int_(8)], FALSE),
     Doc("schools", s2, [displayName |-> String("S"), id |-> String(s2),
                         type |-> String("Trade")], FALSE),
     Doc("faculty", t1, [id |-> String(t1), lastName |-> String("L"), title |-> String("Mr."),
                         account |-> Dict([id |-> String("A")])], FALSE),
     Doc("courseList", k1, [displayName |-> String("C"), id |-> String(k1), period |-> Int_(1),
                            teacher |-> Dict([id |-> String("T"), lastName |-> String("L"),
                                              title |-> String("Prof.")])], FALSE)}

MCSymmetry == Permutations({a, b})
=============================================================================
