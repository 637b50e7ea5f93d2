\* Three tasks on the event loop; they stop when all have ended.
CONSTANTS
  Tasks = {t1, t2, t3}
  None = None
SPECIFICATION LiveSpec
INVARIANTS TypeOK EndedComplete
PROPERTIES EveryTaskEnds
CHECK_DEADLOCK FALSE
