-------------------------- MODULE MCIntegrationHub --------------------------
(* Symmetry for checking the safety properties of IntegrationHub with TLC.  *)
EXTENDS IntegrationHub, TLC

\* Sessions of one kind, users and providers are interchangeable.
Symmetry == Permutations(Handlers) \cup Permutations(Workers)
              \cup Permutations(Users) \cup Permutations(Providers)
=============================================================================
