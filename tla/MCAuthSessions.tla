--------------------------- MODULE MCAuthSessions ---------------------------
(* Symmetry for the runs of AuthSessions.                                  *)
EXTENDS AuthSessions, TLC

Symmetry == Permutations(Requests) \cup Permutations(Tokens) \cup Permutations(Emails)
=============================================================================
