----------------------------- MODULE MCEdxAuth -----------------------------
(* Values of the constants of EdxAuth for TLC. *)
EXTENDS EdxAuth, TLC

\* Workers are interchangeable.
WorkerSymmetry == Permutations(Workers)
=============================================================================
