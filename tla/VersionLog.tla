----------------------------- MODULE VersionLog -----------------------------
(***************************************************************************)
(* What the knowledge engine promises of the versions of its documents: a  *)
(* log for each document, in which versions get the next number, are never *)
(* lost, and stay indexed and stay deleted once they are.                  *)
(***************************************************************************)
EXTENDS Integers

CONSTANTS DocKeys

VARIABLES
  latest,   \* how many versions a document has: their numbers are 1..latest
  indexed,  \* the versions that were indexed, as pairs of document and number
  deleted   \* the versions that were deleted

Init == latest = [d \in DocKeys |-> 0] /\ indexed = {} /\ deleted = {}

\* The new version is indexed at once or later.
Upload(d) ==
  /\ latest' = [latest EXCEPT ![d] = @ + 1]
  /\ indexed' \in {indexed, indexed \cup {<<d, latest[d] + 1>>}}
  /\ UNCHANGED deleted

Index(d) ==
  /\ \E n \in 1..latest[d] : indexed' = indexed \cup {<<d, n>>}
  /\ UNCHANGED <<latest, deleted>>

\* All versions the delete has seen: an upload may add one meanwhile.
Delete(d) ==
  /\ \E numbers \in SUBSET (1..latest[d]) : deleted' = deleted \cup ({d} \X numbers)
  /\ UNCHANGED <<latest, indexed>>

Next == \E d \in DocKeys : Upload(d) \/ Index(d) \/ Delete(d)
Spec == Init /\ [][Next]_<<latest, indexed, deleted>>
=============================================================================
