SPECIFICATION NameSpec
CONSTANTS
  Threads = {t1, t2}
  Ids <- task_id
  none_id = "none"
  grp_none_id = "grp_none"
  TaskTable <- tasks
  NoThread = NoThread
  MaxSpurious = 0
  get_name_fnc = getTaskName
  Other = other
INVARIANTS
  NamesAreProvided
