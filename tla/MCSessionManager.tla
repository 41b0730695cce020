-------------------------- MODULE MCSessionManager --------------------------
(* Instances of SessionManager for TLC. *)
EXTENDS SessionManager, TLC

\* Sessions are interchangeable in the runs that check safety only.
Symmetry == Permutations(Session)
=============================================================================
