-------------------------------- MODULE Orm --------------------------------
(* What the SQLAlchemy session of database/session does when it flushes.   *)

\* Mutant: an UPDATE writes every column, changed or not.
WrittenWhole(row, none, loaded, new) == IF new = none THEN row ELSE new

\* The UPDATE or INSERT of one row, from the row as the session loaded it (the
\* parameter "loaded") and as the code left it (the parameter "new").  Only
\* columns with a net change are written: the others keep the value of the
\* committed row, which another session may have changed in the meantime.
Written(row, none, loaded, new) ==
  IF new = none THEN row
  ELSE IF loaded = none THEN new
  ELSE [f \in DOMAIN row |-> IF new[f] = loaded[f] THEN row[f] ELSE new[f]]
=============================================================================
