--------------------------- MODULE MCCertificates ---------------------------
(***************************************************************************)
(* Values of the constants of Certificates for TLC.  One run of course A.  *)
(* Program P requires the paid program Q and one of course B, which nobody *)
(* is credited with, and the free program F; Q requires course A, and F    *)
(* one course out of A alone.                                              *)
(***************************************************************************)
EXTENDS Certificates

MCCourseOf == [a |-> "A"]
MCRoot == [P |-> 1, Q |-> 7, F |-> 10]

MCNodes == 1 .. 12

N(program, kind, kids, value, elective, of) ==
    [program |-> program, kind |-> kind, kids |-> kids, value |-> value,
     elective |-> elective, of |-> of]

MCNode == <<
    N("P", "root", {2, 4}, 0, FALSE, None),
    N("P", "all", {3}, 0, FALSE, None),
    N("P", "program", {}, 0, FALSE, "Q"),
    N("P", "min", {5, 6}, 1, TRUE, None),
    N("P", "course", {}, 0, FALSE, "B"),
    N("P", "program", {}, 0, FALSE, "F"),
    N("Q", "root", {8}, 0, FALSE, None),
    N("Q", "all", {9}, 0, FALSE, None),
    N("Q", "course", {}, 0, FALSE, "A"),
    N("F", "root", {11}, 0, FALSE, None),
    N("F", "min", {12}, 1, TRUE, None),
    N("F", "course", {}, 0, FALSE, "A") >>

MCFirstSwept == {{"a"}}
MCFirstEnrolled == {[a |-> "verified"]}
MCFirstProgramEnrolled ==
    {[P |-> "verified", Q |-> m, F |-> "none"] : m \in {"audit", "verified"}}
=============================================================================
