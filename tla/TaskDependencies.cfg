\* One edit at a time on a board of four tasks.
SPECIFICATION Spec
CONSTANTS
  Tasks = {t1, t2, t3, t4}
  Editors = {e1}
  None = None
INVARIANTS TypeOK Acyclic CycleCheckExact
\* The ids of the instance are used up when every task is deleted.
CHECK_DEADLOCK FALSE
