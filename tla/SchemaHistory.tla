--------------------------- MODULE SchemaHistory ---------------------------
(***************************************************************************)
(* What running migrations promises, however many migrators there are: a   *)
(* history of versions in which each move is made as a whole, on the very  *)
(* version it was planned from.  A migrator that another has overtaken     *)
(* gets nowhere.                                                           *)
(***************************************************************************)
EXTENDS Integers

CONSTANTS
  Migrators,
  Versions,  \* the versions there are, 0 among them
  Schema     \* the schema each version stands for

VARIABLES catalog, version,
  moves      \* the move each migrator is planning

NoMove == [from |-> 0, to |-> 0]

Init ==
  /\ version = 0 /\ catalog = Schema[0]
  /\ moves = [m \in Migrators |-> NoMove]

Plan(m) ==
  /\ moves[m] = NoMove
  /\ \E to \in Versions \ {version} :
       moves' = [moves EXCEPT ![m] = [from |-> version, to |-> to]]
  /\ UNCHANGED <<catalog, version>>

Move(m) ==
  /\ moves[m] # NoMove /\ moves[m].from = version
  /\ version' = moves[m].to /\ catalog' = Schema[moves[m].to]
  /\ moves' = [moves EXCEPT ![m] = NoMove]

GiveUp(m) ==
  /\ moves' = [moves EXCEPT ![m] = NoMove]
  /\ UNCHANGED <<catalog, version>>

Next == \E m \in Migrators : Plan(m) \/ Move(m) \/ GiveUp(m)
Spec == Init /\ [][Next]_<<catalog, version, moves>>
=============================================================================
