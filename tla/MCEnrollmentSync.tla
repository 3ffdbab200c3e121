-------------------------- MODULE MCEnrollmentSync --------------------------
(* Values of the constants of EnrollmentSync for TLC. *)
EXTENDS EnrollmentSync, TLC

OneRun == {"r1"}
TwoRuns == {"r1", "r2"}
NoRuns == {}

OneWorker == {"w1"}
TwoWorkers == {"w1", "w2"}

EveryAnswer == AllAnswers

Either == {TRUE, FALSE}

\* Everything that can happen to one run.
RaceOperations == AllOperations \ {"defer", "defer_force"}
DeferOperations == {"enroll", "purchase", "defer", "defer_force", "retry"}
============================================================================
