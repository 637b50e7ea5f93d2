--------------------------- MODULE MCAuthSessions ---------------------------
(* Symmetry for checking the safety properties of AuthSessions with TLC.   *)
EXTENDS AuthSessions, TLC

\* Requests, addresses, ids and tokens are interchangeable.
Symmetry == Permutations(Handlers) \cup Permutations(Emails)
              \cup Permutations(Ids) \cup Permutations(Tokens)
=============================================================================
