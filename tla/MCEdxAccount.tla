---------------------------- MODULE MCEdxAccount ----------------------------
(* Values of the constants of EdxAccount for TLC. *)
EXTENDS EdxAccount, TLC

NameSet == {"n1", "n2", "n3", "n4"}
\* u2 is there to hold a name; edX may have given n1 to someone else.
Wanted == [u \in Users |-> IF u \in Registered THEN "n2" ELSE "n1"]
TakenInEdx == {"n1"}
=============================================================================
